----------------------------- MODULE EventStore ------------------------------
(***************************************************************************)
(* A portfolio coordinator's event store: one bounded scan at a time reads *)
(* the portfolio's logs in windows, from where the last scan ended less an *)
(* overlap, and keeps them; requests catch it up when it is a little       *)
(* behind and leave the rest to alarms.  The object may be evicted between *)
(* any two awaits; its storage and its alarm survive.                      *)
(***************************************************************************)
EXTENDS Integers, FiniteSets, FiniteSetsExt

CONSTANTS
  MaxBlock,       \* bound: height of the chain
  DeployedAt,     \* height at which the portfolio's code appears
  FactoryAt,      \* FACTORY_DEPLOYED_AT_BLOCK
  WindowSize,     \* CHUNK + 1, blocks per getLogs
  Concurrency,    \* windows that are read together
  MaxWindows,     \* MAX_CHUNKS_PER_CALL
  Overlap,        \* SCAN_OVERLAP
  InlineCatchup,  \* INLINE_CATCHUP_BLOCKS
  CurrentWithin,  \* CURRENT_WITHIN_BLOCKS
  PutSize,        \* events per storage write
  Lag,            \* by how many blocks an RPC node may trail the chain
  Requests,       \* views that are answered at the same time
  Faults,         \* the faults of an instance, see FaultKinds
  MaxFaults       \* bound: faults in a behaviour

FaultKinds == {"rpc",    \* a read of the chain fails
               "evict"}  \* the object loses its memory, and what it was doing

ASSUME StoreAssumption ==
  /\ {FactoryAt, DeployedAt, MaxBlock} \subseteq Nat /\ FactoryAt < DeployedAt /\ DeployedAt <= MaxBlock
  /\ {WindowSize, Concurrency, MaxWindows, PutSize} \subseteq Nat \ {0}
  /\ {Overlap, InlineCatchup, CurrentWithin, Lag, MaxFaults} \subseteq Nat
  /\ Faults \subseteq FaultKinds

VARIABLES
  head, logs,           \* the chain: its height, and the blocks that carry a log
  stored, savedScan,    \* storage: events and scannedThrough
  loaded, events, scan, \* memory: whether it is loaded, and its copies of them
  scanning,             \* the scan under way, shared by everybody who waits
  request,              \* request[r]: where a view stands
  alarm, ringing,       \* whether an alarm is set; the alarm handler's progress
  connected,            \* a websocket is open
  faults

storage == <<stored, savedScan>>
memory  == <<loaded, events, scan>>
chain   == <<head, logs>>
vars    == <<chain, storage, memory, scanning, request, alarm, ringing, connected, faults>>

NoScan   == -1
NotScanning == [pc |-> "none"]
Waiting  == [pc |-> "idle"]

Strikes(kind) == kind \in Faults /\ faults < MaxFaults /\ faults' = faults + 1
Spared        == faults' = faults

(* The height a node reports *)
Heights == (head - Lag .. head) \cap (DeployedAt .. MaxBlock)

Upto(n)  == {b \in logs : b <= n}

-----------------------------------------------------------------------------
(* Where a scan begins *)

HasCode(b) == b >= DeployedAt

(* The search halves FactoryAt .. latest: lo has no code, hi has. *)
Bisection(latest) ==
  LET search[lo \in FactoryAt .. latest, hi \in FactoryAt .. latest] ==
        IF lo + 1 >= hi THEN hi
        ELSE LET mid == (lo + hi) \div 2
             IN IF HasCode(mid) THEN search[lo, mid] ELSE search[mid, hi]
  IN search[FactoryAt, latest]

(* Where it ends: the first block after the factory's that has code. *)
FindDeploymentBlock(latest) ==
  CHOOSE b \in FactoryAt + 1 .. latest : HasCode(b) /\ \A c \in FactoryAt + 1 .. b - 1 : ~ HasCode(c)

(* Memory is filled from storage by the first who needs it. *)
EventsNow == IF loaded THEN events ELSE stored
ScanNow   == IF loaded THEN scan ELSE savedScan
LoadStore == loaded' = TRUE /\ events' = EventsNow /\ scan' = ScanNow

(* Mutant: the checkpoint is taken for good. *)
ResumeAtCheckpoint(start) == IF ScanNow = NoScan THEN start ELSE ScanNow + 1

Resume(start) ==
  LET resume == ScanNow + 1 - Overlap
  IN IF ScanNow = NoScan \/ resume <= start THEN start ELSE resume

-----------------------------------------------------------------------------
(* scanOnce *)

(* The head is read and the windows are laid out up to it. *)
BeginWindows ==
  /\ scanning.pc = "begin"
  /\ LoadStore
  /\ \/ Strikes("rpc") /\ scanning' = [pc |-> "failed"]
     \/ /\ Spared
        /\ \E latest \in Heights :
             LET from == Resume(FindDeploymentBlock(latest))
             IN scanning' = IF from > latest THEN [pc |-> "put", left |-> {}, found |-> {}, through |-> latest, complete |-> TRUE]
                            ELSE [pc |-> "windows", windows |-> MaxWindows, found |-> {}, through |-> from - 1, latest |-> latest]
  /\ UNCHANGED <<chain, storage, request, alarm, ringing, connected>>

(* Mutant: a window that failed is passed over. *)
ThroughFailed(good, tried) == tried

(* The end of the last window before the first failure *)
ThroughGood(good, tried) == good

WindowEnd(to, latest) == Min({to, latest})

(* The windows of one batch are read together; a node may answer from a lower
   height, and the first window that failed ends the scan. *)
ReadWindows ==
  /\ scanning.pc = "windows"
  /\ LET Cut(n) == WindowEnd(scanning.through + n * WindowSize, scanning.latest)
         batch  == Min({scanning.windows, Concurrency})
     IN \E good \in 0 .. batch, sees \in Heights :
          LET failed  == Cut(good) < Cut(batch)
              through == ThroughGood(Cut(good), Cut(batch))
              found   == scanning.found \cup {b \in Upto(sees) : scanning.through < b /\ b <= Cut(good)}
          IN /\ IF failed THEN Strikes("rpc") ELSE good = batch /\ Spared
             /\ scanning' =
                  IF failed \/ through = scanning.latest \/ scanning.windows = batch
                  THEN [pc |-> "stamps", found |-> found, through |-> through, complete |-> through = scanning.latest]
                  ELSE [scanning EXCEPT !.windows = @ - batch, !.found = found, !.through = through]
  /\ UNCHANGED <<chain, storage, memory, request, alarm, ringing, connected>>

(* An event without the time of its block is not stored: the whole scan fails. *)
ReadStamps ==
  /\ scanning.pc = "stamps"
  /\ \/ /\ Spared
        /\ scanning' = [pc |-> "put", left |-> scanning.found, found |-> scanning.found,
                        through |-> scanning.through, complete |-> scanning.complete]
     \/ scanning.found # {} /\ Strikes("rpc") /\ scanning' = [pc |-> "failed"]
  /\ UNCHANGED <<chain, storage, memory, request, alarm, ringing, connected>>

PutEvents ==
  /\ scanning.pc = "put" /\ scanning.left # {}
  /\ \E batch \in kSubset(Min({Cardinality(scanning.left), PutSize}), scanning.left) :
       /\ stored' = stored \cup batch
       /\ scanning' = [scanning EXCEPT !.left = @ \ batch]
  /\ UNCHANGED <<chain, savedScan, memory, request, alarm, ringing, connected, faults>>

Remember ==
  /\ scanning.pc = "put" /\ scanning.left = {}
  /\ events' = events \cup scanning.found
  /\ scan' = scanning.through
  /\ scanning' = [pc |-> "save", complete |-> scanning.complete]
  /\ UNCHANGED <<chain, storage, loaded, request, alarm, ringing, connected, faults>>

(* Everybody who waits for the scan goes on, or fails, with it. *)
Wake(ok) ==
  /\ scanning' = NotScanning
  /\ request' = [r \in Requests |-> IF request[r].pc # "joined" THEN request[r]
                                    ELSE IF ok THEN [pc |-> "answer"] ELSE Waiting]
  /\ ringing' = IF ringing = "joined" THEN "reschedule" ELSE ringing

SaveScan ==
  /\ scanning.pc = "save"
  /\ savedScan' = scan
  /\ alarm' = (alarm \/ ~ scanning.complete)
  /\ Wake(TRUE)
  /\ UNCHANGED <<chain, stored, memory, connected, faults>>

FailScan ==
  /\ scanning.pc = "failed"
  /\ Wake(FALSE)
  /\ UNCHANGED <<chain, storage, memory, alarm, connected, faults>>

ScanOnce == BeginWindows \/ ReadWindows \/ ReadStamps \/ PutEvents \/ Remember \/ SaveScan \/ FailScan

(* syncLog: whoever finds no scan under way starts one; the others share it. *)
Join == scanning' = IF scanning = NotScanning THEN [pc |-> "begin"] ELSE scanning

-----------------------------------------------------------------------------
(* ensureFresh, and the view that is answered after it *)

Goto(r, pc) == request' = [request EXCEPT ![r] = [pc |-> pc]]

Ask(r) ==
  /\ request[r].pc = "idle"
  /\ LoadStore
  /\ Goto(r, IF ScanNow = NoScan THEN "first" ELSE "measure")
  /\ UNCHANGED <<chain, storage, scanning, alarm, ringing, connected, faults>>

(* The first view ever: history is read at once when it is short, and left to
   the alarm when it is long. *)
FirstScan(r) ==
  /\ request[r].pc = "first"
  /\ \E latest \in Heights :
       LET start == FindDeploymentBlock(latest)
       IN IF latest - start <= InlineCatchup
          THEN Join /\ Goto(r, "joined") /\ UNCHANGED <<savedScan, scan, alarm>>
          ELSE /\ scan' = start - 1 /\ savedScan' = start - 1
               /\ alarm' = TRUE
               /\ Goto(r, "answer")
               /\ UNCHANGED scanning
  /\ UNCHANGED <<chain, stored, loaded, events, ringing, connected, faults>>

Behind(latest) == IF latest > scan THEN latest - scan ELSE 0

(* A little behind: join a scan, unless the last one is hardly over. *)
Measure(r) ==
  /\ request[r].pc = "measure"
  /\ \E latest \in Heights :
       \/ Behind(latest) <= InlineCatchup /\ Join /\ Goto(r, "joined") /\ UNCHANGED alarm
       \/ Behind(latest) <= InlineCatchup /\ Goto(r, "answer") /\ UNCHANGED <<scanning, alarm>>
       \/ Behind(latest) > InlineCatchup /\ alarm' = TRUE /\ Goto(r, "answer") /\ UNCHANGED scanning
  /\ UNCHANGED <<chain, storage, memory, ringing, connected, faults>>

(* Mutant: whatever was read inline counts as everything. *)
CompleteWithin(behind) == behind <= InlineCatchup

CurrentEnough(behind) == behind <= CurrentWithin

Answer(r) ==
  /\ request[r].pc = "answer"
  /\ \E latest \in Heights :
       request' = [request EXCEPT ![r] = [pc |-> "answered", complete |-> CurrentEnough(Behind(latest)),
                                          missing |-> Upto(latest) \ events, latest |-> latest]]
  /\ UNCHANGED <<chain, storage, memory, scanning, alarm, ringing, connected, faults>>

Respond(r) ==
  /\ request[r].pc = "answered"
  /\ request' = [request EXCEPT ![r] = Waiting]
  /\ UNCHANGED <<chain, storage, memory, scanning, alarm, ringing, connected, faults>>

FailRequest(r) ==
  /\ request[r].pc \in {"first", "measure", "answer"}
  /\ Strikes("rpc")
  /\ request' = [request EXCEPT ![r] = Waiting]
  /\ UNCHANGED <<chain, storage, memory, scanning, alarm, ringing, connected>>

View(r) == Ask(r) \/ FirstScan(r) \/ Measure(r) \/ Answer(r) \/ Respond(r) \/ FailRequest(r)

-----------------------------------------------------------------------------
(* The alarm, the websocket, the runtime and the chain *)

(* With nobody connected and nobody asking, the alarm is let die. *)
Ring ==
  /\ alarm /\ ringing = "none"
  /\ alarm' = FALSE
  /\ \/ ~ connected /\ UNCHANGED <<scanning, ringing>>
     \/ Join /\ ringing' = "joined"
  /\ UNCHANGED <<chain, storage, memory, request, connected, faults>>

(* Mutant: the alarm is only set again while history is incomplete. *)
AlarmWhileBehind == Behind(head) > CurrentWithin

AlarmAgain == TRUE

Reschedule ==
  /\ ringing = "reschedule"
  /\ alarm' = (alarm \/ AlarmAgain)
  /\ ringing' = "none"
  /\ UNCHANGED <<chain, storage, memory, scanning, request, connected, faults>>

Connect ==
  /\ ~ connected
  /\ connected' = TRUE /\ alarm' = TRUE
  /\ UNCHANGED <<chain, storage, memory, scanning, request, ringing, faults>>

Disconnect ==
  /\ connected
  /\ connected' = FALSE
  /\ UNCHANGED <<chain, storage, memory, scanning, request, alarm, ringing, faults>>

(* An alarm whose handler did not finish rings again. *)
Evict ==
  /\ Strikes("evict")
  /\ loaded' = FALSE /\ events' = {} /\ scan' = NoScan
  /\ scanning' = NotScanning /\ request' = [r \in Requests |-> Waiting]
  /\ alarm' = (alarm \/ ringing # "none") /\ ringing' = "none"
  /\ connected' = FALSE
  /\ UNCHANGED <<chain, storage>>

Grow ==
  /\ head < MaxBlock
  /\ head' = head + 1
  /\ logs' \in {logs, logs \cup {head + 1}}
  /\ UNCHANGED <<storage, memory, scanning, request, alarm, ringing, connected, faults>>

Init ==
  /\ head = DeployedAt /\ logs = {DeployedAt}
  /\ stored = {} /\ savedScan = NoScan
  /\ loaded = FALSE /\ events = {} /\ scan = NoScan
  /\ scanning = NotScanning /\ request = [r \in Requests |-> Waiting]
  /\ alarm = FALSE /\ ringing = "none" /\ connected = FALSE
  /\ faults = 0

(* While storage is being written the runtime delivers nothing else. *)
Storing == scanning.pc \in {"put", "save"}

Deliver == Ring \/ Reschedule \/ Connect \/ Disconnect \/ \E r \in Requests : View(r)

Next == Grow \/ ScanOnce \/ Evict \/ (~ Storing /\ Deliver)

Spec == Init /\ [][Next]_vars

(* The runtime runs what is under way and rings alarms that are set. *)
FairSpec == Spec /\ WF_vars(ScanOnce) /\ WF_vars(Ring) /\ WF_vars(Reschedule)
=============================================================================
