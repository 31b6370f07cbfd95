---------------------------- MODULE StreamProofs -----------------------------
(***************************************************************************)
(* Theorems about the snapshot on its way to the browser, for any number   *)
(* of transactions and of failed reads, restarts, redeployments and        *)
(* dropped websockets.                                                     *)
(***************************************************************************)
EXTENDS SnapshotSafety, TLAPS

-----------------------------------------------------------------------------
(* The invariant *)

Verdicts  == {"none", "asking", "current", "superseded"}
Snapshots == [version : 0 .. head, stale : BOOLEAN, age : {"fresh", "warm", "old"}]

(* A call by its stage: what it has read, and what it has to hand over *)
Calls ==
  [pc : {"idle", "reschedule"}]
    \cup [pc : {"verify", "read", "failed", "superseded"}, mine : 0 .. MaxVersion]
    \cup [pc : {"install"}, version : 0 .. head, mine : 0 .. MaxVersion]
    \cup [pc : {"answered"}, frame : Frames, mine : 0 .. MaxVersion]
    \cup [pc : {"baseline"}, frame : Frames]

Typed ==
  /\ head \in 0 .. MaxVersion /\ unsafe \in BOOLEAN /\ verdict \in Verdicts
  /\ cached \in Snapshots \cup {NoSnapshot} /\ saved \in NoSnapshot.version .. head
  /\ call \in [Callers -> Calls]
  /\ alarm \in BOOLEAN /\ socket \in {"closed", "opening", "accepted", "live"}
  /\ frames \in Seq(Frames) /\ Len(frames) <= MaxFrames
  /\ view \in Frames \cup {NoSnapshot}
  /\ faults \in 0 .. MaxFaults

(* The verdict is about the factory that is configured now, *)
VerdictHolds == verdict = "current" => ~ unsafe

(* and a call that reads the chain, or has read it, has been given it. *)
ReadersAreVerified == \A c \in Callers : call[c].pc \in {"read", "install"} => verdict = "current"

StreamInv == Typed /\ VerdictHolds /\ ReadersAreVerified /\ UnmarkedIsVerified

-----------------------------------------------------------------------------
(* Operators *)

\* The frame of a snapshot that was taken
LEMMA FrameTyped ==
    ASSUME Typed, NEW snap \in Snapshots
    PROVE  Frame(snap) \in Frames
BY StreamAssumption DEF Frame, Snapshots, Frames, Typed

\* Of the frames under way the last few are kept.
LEMMA QueuedTyped ==
    ASSUME Typed, NEW f \in Frames
    PROVE  Queued(f) \in Seq(Frames) /\ Len(Queued(f)) <= MaxFrames
<1>1. frames \in Seq(Frames) /\ Len(frames) <= MaxFrames /\ MaxFrames \in Nat \ {0}
  BY StreamAssumption DEF Typed
<1> DEFINE all == Append(frames, f)
<1>2. all \in Seq(Frames) /\ Len(all) = Len(frames) + 1 /\ Len(frames) \in Nat
  BY <1>1
<1>3. all # <<>>
  BY <1>2
<1> HIDE DEF all
<1>4. Tail(all) \in Seq(Frames) /\ Len(Tail(all)) = Len(all) - 1
  BY <1>2, <1>3
<1>5. Queued(f) = IF Len(all) > MaxFrames THEN Tail(all) ELSE all
  BY DEF Queued, all
<1>6. QED
  BY <1>1, <1>2, <1>4, <1>5

\* A record of calls keeps its type when the chain does not go back.
LEMMA CallsGrow ==
    ASSUME head \in Nat, head' \in Nat, head <= head'
    PROVE  Calls \subseteq Calls' /\ Snapshots \subseteq Snapshots'
BY DEF Calls, Snapshots

\* A call that goes on to another stage
LEMMA GotoTyped ==
    ASSUME NEW r \in Calls, r.pc \in {"verify", "read", "failed", "superseded"},
           NEW pc \in {"verify", "read", "failed", "superseded"}
    PROVE  [r EXCEPT !.pc = pc] \in Calls /\ [r EXCEPT !.pc = pc].pc = pc
<1>1. r \in [pc : {"verify", "read", "failed", "superseded"}, mine : 0 .. MaxVersion]
  BY DEF Calls
<1>2. [r EXCEPT !.pc = pc] \in [pc : {"verify", "read", "failed", "superseded"}, mine : 0 .. MaxVersion]
  BY <1>1
<1>3. [r EXCEPT !.pc = pc].pc = pc
  BY <1>1
<1>4. QED
  BY <1>2, <1>3 DEF Calls

-----------------------------------------------------------------------------
(* What a step leaves alone *)

Sockets == {"closed", "opening", "accepted", "live"}

\* Nothing but one call moves, and what it hands over keeps its type.
LEMMA OneCallMoves ==
    ASSUME StreamInv, head' \in 0 .. MaxVersion, head <= head', UNCHANGED <<unsafe, verdict>>,
           NEW c \in Callers, NEW r, r \in Calls', call' = [call EXCEPT ![c] = r],
           r.pc \in {"read", "install"} => verdict = "current",
           cached' \in Snapshots' \cup {NoSnapshot},
           cached' # NoSnapshot /\ ~ cached'.stale => verdict = "current",
           saved' \in NoSnapshot.version .. head', alarm' \in BOOLEAN, socket' \in Sockets,
           frames' \in Seq(Frames), Len(frames') <= MaxFrames,
           view' \in Frames \cup {NoSnapshot}, faults' \in 0 .. MaxFaults
    PROVE  StreamInv'
<1>1. head \in Nat /\ head' \in Nat /\ call \in [Callers -> Calls]
  BY StreamAssumption DEF StreamInv, Typed
<1>2. Calls \subseteq Calls'
  BY <1>1, CallsGrow
<1>3. call' \in [Callers -> Calls']
  BY <1>1, <1>2
<1>4. Typed'
  BY <1>3 DEF StreamInv, Typed, Sockets
<1>5. VerdictHolds' /\ UnmarkedIsVerified'
  BY DEF StreamInv, VerdictHolds, UnmarkedIsVerified
<1>6. ReadersAreVerified'
  BY <1>1 DEF StreamInv, ReadersAreVerified
<1>7. QED
  BY <1>4, <1>5, <1>6 DEF StreamInv

\* So does a step that keeps the snapshots and the frames as they are.
LEMMA QuietCall ==
    ASSUME StreamInv, head' \in 0 .. MaxVersion, head <= head', UNCHANGED <<unsafe, verdict, cached, saved, frames, view>>,
           NEW c \in Callers, NEW r, r \in Calls', call' = [call EXCEPT ![c] = r],
           r.pc \in {"read", "install"} => verdict = "current",
           alarm' \in BOOLEAN, socket' \in Sockets, faults' \in 0 .. MaxFaults
    PROVE  StreamInv'
<1>1. head \in Nat /\ head' \in Nat
  BY StreamAssumption DEF StreamInv, Typed
<1>2. Snapshots \subseteq Snapshots'
  BY <1>1, CallsGrow
<1>3. cached' \in Snapshots' \cup {NoSnapshot}
  BY <1>2 DEF StreamInv, Typed
<1>4. cached' # NoSnapshot /\ ~ cached'.stale => verdict = "current"
  BY DEF StreamInv, UnmarkedIsVerified
<1>5. saved' \in NoSnapshot.version .. head'
  BY <1>1 DEF StreamInv, Typed, NoSnapshot
<1>6. /\ frames' \in Seq(Frames) /\ Len(frames') <= MaxFrames
      /\ view' \in Frames \cup {NoSnapshot}
  BY DEF StreamInv, Typed
<1>7. QED
  BY <1>3, <1>4, <1>5, <1>6, OneCallMoves

\* No call moves, and the chain stays where it is.
LEMMA NoCallMoves ==
    ASSUME StreamInv, UNCHANGED <<unsafe, verdict, call, saved, alarm>>,
           head' \in 0 .. MaxVersion, head <= head',
           cached' \in Snapshots' \cup {NoSnapshot},
           cached' # NoSnapshot /\ ~ cached'.stale => verdict = "current",
           socket' \in Sockets, frames' \in Seq(Frames), Len(frames') <= MaxFrames,
           view' \in Frames \cup {NoSnapshot}, faults' \in 0 .. MaxFaults
    PROVE  StreamInv'
<1>1. head \in Nat /\ head' \in Nat /\ call \in [Callers -> Calls]
  BY StreamAssumption DEF StreamInv, Typed
<1>2. Calls \subseteq Calls'
  BY <1>1, CallsGrow
<1>3. call' \in [Callers -> Calls'] /\ saved' \in NoSnapshot.version .. head'
  BY <1>1, <1>2 DEF StreamInv, Typed, NoSnapshot
<1>4. Typed'
  BY <1>3 DEF StreamInv, Typed, Sockets
<1>5. VerdictHolds' /\ UnmarkedIsVerified' /\ ReadersAreVerified'
  BY DEF StreamInv, VerdictHolds, UnmarkedIsVerified, ReadersAreVerified
<1>6. QED
  BY <1>4, <1>5 DEF StreamInv

\* Faults stay within their number.
LEMMA FaultsTyped ==
    ASSUME StreamInv
    PROVE  /\ \A kind : Strikes(kind) => faults' \in 0 .. MaxFaults
           /\ Spared => faults' \in 0 .. MaxFaults
           /\ UNCHANGED faults => faults' \in 0 .. MaxFaults
BY StreamAssumption DEF StreamInv, Typed, Strikes, Spared

\* The variables in their types
LEMMA Fields ==
    ASSUME StreamInv
    PROVE  /\ head \in 0 .. MaxVersion /\ MaxVersion \in Nat /\ head \in Nat /\ head <= head
           /\ call \in [Callers -> Calls] /\ \A c \in Callers : call[c] \in Calls
           /\ alarm \in BOOLEAN /\ socket \in Sockets
           /\ cached \in Snapshots \cup {NoSnapshot} /\ saved \in NoSnapshot.version .. head
           /\ frames \in Seq(Frames) /\ Len(frames) <= MaxFrames /\ view \in Frames \cup {NoSnapshot}
           /\ (cached # NoSnapshot /\ ~ cached.stale => verdict = "current")
           /\ \A c \in Callers : call[c].pc \in {"read", "install"} => verdict = "current"
BY StreamAssumption DEF StreamInv, Typed, Sockets, UnmarkedIsVerified, ReadersAreVerified

\* With the chain where it is, types stay what they are.
LEMMA SameTypes ==
    ASSUME UNCHANGED head
    PROVE  Calls' = Calls /\ Snapshots' = Snapshots
BY DEF Calls, Snapshots

-----------------------------------------------------------------------------
(* refresh *)

\* A stage of a call that only waits
LEMMA GotoKeeps ==
    ASSUME StreamInv, NEW c \in Callers,
           NEW from \in {"verify", "read", "failed", "superseded"}, call[c].pc = from,
           NEW pc \in {"verify", "read", "failed", "superseded"}, Goto(c, pc),
           pc = "read" => verdict = "current",
           UNCHANGED <<head, unsafe, verdict, cached, saved, alarm, browser>>, faults' \in 0 .. MaxFaults
    PROVE  StreamInv'
<1> DEFINE r == [call[c] EXCEPT !.pc = pc]
<1>1. call' = [call EXCEPT ![c] = r]
  BY DEF Goto
<1>2. r \in Calls /\ r.pc = pc
  BY Fields, GotoTyped
<1> HIDE DEF r
<1>3. QED
  BY <1>1, <1>2, Fields, SameTypes, QuietCall DEF browser

\* The isolate asks, and gets its answer or none.
LEMMA VerdictKeeps ==
    ASSUME StreamInv, Decide \/ \E c \in Callers : AskVerdict(c) \/ Verified(c)
    PROVE  StreamInv'
<1>1. ASSUME NEW c \in Callers, AskVerdict(c)
      PROVE  StreamInv'
  <2>1. /\ verdict = "none" /\ verdict' = "asking"
        /\ UNCHANGED <<head, unsafe, cached, saved, call, alarm, socket, frames, view, faults>>
    BY <1>1 DEF AskVerdict, browser
  <2>2. Typed'
    BY <2>1 DEF StreamInv, Typed, Calls, Snapshots, Verdicts
  <2>3. QED
    BY <2>1, <2>2 DEF StreamInv, VerdictHolds, ReadersAreVerified, UnmarkedIsVerified
<1>2. ASSUME NEW c \in Callers, Verified(c)
      PROVE  StreamInv'
  <2>1. /\ call[c].pc = "verify" /\ faults' \in 0 .. MaxFaults
        /\ UNCHANGED <<head, unsafe, verdict, cached, saved, alarm, browser>>
    BY <1>2, FaultsTyped DEF Verified
  <2>2. \E pc \in {"read", "superseded", "failed"} : Goto(c, pc) /\ (pc = "read" => verdict = "current")
    BY <1>2 DEF Verified, Good
  <2>3. QED
    BY <2>1, <2>2, GotoKeeps
<1>3. CASE Decide
  <2>1. /\ verdict = "asking" /\ UNCHANGED <<head, unsafe, cached, saved, alarm, socket, frames, view>>
        /\ faults' \in 0 .. MaxFaults
    BY <1>3, FaultsTyped DEF Decide, browser
  <2>2. \A c \in Callers : call[c] \in Calls /\ call[c].pc \notin {"read", "install"}
    BY <2>1, Fields
  <2>3. \/ verdict' = (IF unsafe THEN "superseded" ELSE "current") /\ call' = call
        \/ /\ verdict' = "none"
           /\ call' = [c \in Callers |-> IF call[c].pc = "verify" THEN [call[c] EXCEPT !.pc = "failed"] ELSE call[c]]
    BY <1>3 DEF Decide, AfterFailure
  <2>4. call' \in [Callers -> Calls] /\ \A c \in Callers : call'[c].pc \notin {"read", "install"}
    <3>1. \A c \in Callers : call[c].pc = "verify" =>
            [call[c] EXCEPT !.pc = "failed"] \in Calls /\ [call[c] EXCEPT !.pc = "failed"].pc = "failed"
      BY <2>2, GotoTyped
    <3>2. QED
      BY <2>2, <2>3, <3>1, Fields
  <2>5. verdict' \in Verdicts /\ (verdict' = "current" => ~ unsafe)
    BY <2>3 DEF Verdicts
  <2>6. Typed'
    BY <2>1, <2>4, <2>5, SameTypes DEF StreamInv, Typed
  <2>7. VerdictHolds' /\ ReadersAreVerified'
    BY <2>1, <2>4, <2>5 DEF VerdictHolds, ReadersAreVerified
  <2>8. UnmarkedIsVerified'
    BY <2>1 DEF StreamInv, UnmarkedIsVerified
  <2>9. QED
    BY <2>6, <2>7, <2>8 DEF StreamInv
<1>4. QED
  BY <1>1, <1>2, <1>3

\* The chain answers a caller that has the verdict, or does not.
LEMMA ReadKeeps ==
    ASSUME StreamInv, NEW c \in Callers, Read(c)
    PROVE  StreamInv'
<1>1. /\ call[c].pc = "read" /\ verdict = "current"
      /\ UNCHANGED <<head, unsafe, verdict, cached, saved, alarm, browser>>
  BY Fields DEF Read
<1>2. CASE Strikes("rpc") /\ Goto(c, "failed")
  BY <1>1, <1>2, FaultsTyped, GotoKeeps
<1>3. CASE Spared /\ call' = [call EXCEPT ![c] = [pc |-> "install", version |-> head,
                                                  mine |-> IF c = "http" THEN @.mine ELSE 0]]
  <2> DEFINE r == [pc |-> "install", version |-> head, mine |-> IF c = "http" THEN call[c].mine ELSE 0]
  <2>1. call' = [call EXCEPT ![c] = r]
    BY <1>3
  <2>2. r \in Calls /\ r.pc = "install"
    BY <1>1, Fields DEF Calls
  <2> HIDE DEF r
  <2>3. QED
    BY <1>1, <1>3, <2>1, <2>2, Fields, FaultsTyped, SameTypes, QuietCall DEF browser
<1>4. QED
  BY <1>2, <1>3 DEF Read

\* A call that is over has handed its snapshot on.
LEMMA FinishTyped ==
    ASSUME StreamInv, NEW c \in Callers, NEW snap \in Snapshots, Finish(c, snap), call[c].pc \in {"install", "failed"}
    PROVE  \E r \in Calls : call' = [call EXCEPT ![c] = r] /\ r.pc \notin {"read", "install"}
<1>1. Frame(snap) \in Frames /\ call[c].mine \in 0 .. MaxVersion
  BY Fields, FrameTyped DEF StreamInv, Calls
<1>2. CASE c = "http"
  <2> DEFINE r == [pc |-> "answered", frame |-> Frame(snap), mine |-> call[c].mine]
  <2>1. r \in Calls /\ r.pc = "answered"
    BY <1>1 DEF Calls
  <2>2. QED
    BY <1>2, <2>1 DEF Finish
<1>3. CASE c = "baseline"
  <2> DEFINE r == [pc |-> "baseline", frame |-> Frame(snap)]
  <2>1. r \in Calls /\ r.pc = "baseline"
    BY <1>1 DEF Calls
  <2>2. QED
    BY <1>3, <2>1 DEF Finish
<1>4. CASE c \notin {"http", "baseline"}
  <2> DEFINE r == IF c = "alarm" THEN [pc |-> "reschedule"] ELSE Idle
  <2>1. r \in Calls /\ r.pc \in {"idle", "reschedule"}
    BY DEF Calls, Idle
  <2>2. call' = [call EXCEPT ![c] = r]
    BY <1>4 DEF Finish
  <2> HIDE DEF r
  <2>3. QED
    BY <2>1, <2>2
<1>5. QED
  BY <1>2, <1>3, <1>4

\* A snapshot is installed, or the last one served marked.
LEMMA HandOver ==
    ASSUME StreamInv, NEW c \in Callers, NEW snap \in Snapshots, call[c].pc \in {"install", "failed"},
           Finish(c, snap), Send(snap), cached' = snap, ~ snap.stale => verdict = "current",
           saved' \in NoSnapshot.version .. head, alarm' \in BOOLEAN,
           UNCHANGED <<head, unsafe, verdict, socket, view, faults>>
    PROVE  StreamInv'
<1>1. PICK r \in Calls : call' = [call EXCEPT ![c] = r] /\ r.pc \notin {"read", "install"}
  BY FinishTyped
<1>2. frames' \in Seq(Frames) /\ Len(frames') <= MaxFrames
  BY Fields, FrameTyped, QueuedTyped DEF StreamInv, Send
<1>3. cached' # NoSnapshot /\ ~ cached'.stale => verdict = "current"
  OBVIOUS
<1>4. cached' \in Snapshots' \cup {NoSnapshot}
  BY SameTypes
<1>5. QED
  BY <1>1, <1>2, <1>3, <1>4, Fields, FaultsTyped, SameTypes, OneCallMoves

\* A call that throws leaves the snapshots as they are.
LEMMA ThrowKeeps ==
    ASSUME StreamInv, NEW c \in Callers, Throw(c), UNCHANGED <<head, unsafe, verdict, cached, saved, view, faults>>
    PROVE  StreamInv'
<1>1. Idle \in Calls /\ Idle.pc = "idle"
  BY DEF Calls, Idle
<1>2. call' = [call EXCEPT ![c] = Idle] /\ alarm' \in BOOLEAN /\ socket' \in Sockets
  BY Fields DEF Throw, Sockets
<1>3. frames' \in Seq(Frames) /\ Len(frames') <= MaxFrames
  BY Fields, StreamAssumption DEF Throw
<1>4. QED
  BY <1>1, <1>2, <1>3, Fields, FaultsTyped, SameTypes, OneCallMoves

\* What refresh ends with
LEMMA EndKeeps ==
    ASSUME StreamInv, NEW c \in Callers, Install(c) \/ ServeStale(c) \/ Superseded(c)
    PROVE  StreamInv'
<1>1. CASE Install(c)
  <2> DEFINE snap == [version |-> call[c].version, stale |-> FALSE, age |-> "fresh"]
  <2>1. call[c].pc = "install" /\ call[c].version \in 0 .. head /\ verdict = "current"
    <3>1. call[c].pc = "install" /\ call[c] \in Calls
      BY <1>1, Fields DEF Install
    <3>2. QED
      BY <3>1, Fields DEF Calls
  <2>2. snap \in Snapshots
    BY <2>1 DEF Snapshots
  <2>3. /\ cached' = snap /\ Send(snap) /\ Finish(c, snap) /\ saved' = call[c].version
        /\ alarm' = TRUE /\ UNCHANGED <<head, unsafe, verdict, socket, view, faults>>
    BY <1>1 DEF Install
  <2>4. saved' \in NoSnapshot.version .. head
    BY <2>1, <2>3, Fields DEF NoSnapshot
  <2> HIDE DEF snap
  <2>5. QED
    BY <2>1, <2>2, <2>3, <2>4, HandOver
<1>2. CASE ServeStale(c)
  <2>1. call[c].pc = "failed" /\ UNCHANGED <<head, unsafe, verdict, saved, view, faults>>
    BY <1>2 DEF ServeStale
  <2>2. CASE cached = NoSnapshot /\ saved = NoSnapshot.version
    BY <1>2, <2>1, <2>2, ThrowKeeps DEF ServeStale
  <2>3. CASE ~ (cached = NoSnapshot /\ saved = NoSnapshot.version)
    <3> DEFINE snap(age) == [version |-> IF cached = NoSnapshot THEN saved ELSE cached.version, stale |-> TRUE,
                             age |-> age]
    <3>1. PICK age \in IF cached = NoSnapshot THEN {"fresh", "old"} ELSE {cached.age} :
            cached' = snap(age) /\ Send(snap(age)) /\ Finish(c, snap(age)) /\ UNCHANGED <<alarm, socket>>
      BY <1>2, <2>3 DEF ServeStale
    <3>2. snap(age) \in Snapshots /\ snap(age).stale
      BY <2>3, Fields DEF Snapshots, NoSnapshot
    <3> HIDE DEF snap
    <3>3. QED
      BY <2>1, <3>1, <3>2, Fields, HandOver
  <2>4. QED
    BY <2>2, <2>3
<1>3. CASE Superseded(c)
  BY <1>3, ThrowKeeps DEF Superseded, Refuse
<1>4. QED
  BY <1>1, <1>2, <1>3

-----------------------------------------------------------------------------
(* Who calls refresh *)

\* A request is answered from the cache, or waits for a refresh.
LEMMA GetTyped ==
    ASSUME StreamInv, NEW c \in Callers, NEW mine \in 0 .. MaxVersion, Get(c, mine)
    PROVE  /\ \E r \in Calls : call' = [call EXCEPT ![c] = r] /\ r.pc \notin {"read", "install"}
           /\ alarm' \in BOOLEAN
<1>1. CASE Fresh /\ c = "http"
  <2>1. cached \in Snapshots
    BY <1>1, Fields DEF Fresh
  <2> DEFINE r == [pc |-> "answered", frame |-> Frame(cached), mine |-> mine]
  <2>2. r \in Calls /\ r.pc = "answered"
    BY <2>1, FrameTyped DEF StreamInv, Calls
  <2>3. call' = [call EXCEPT ![c] = r]
    BY <1>1 DEF Get
  <2> HIDE DEF r
  <2>4. QED
    BY <2>2, <2>3, Fields DEF Get
<1>2. CASE Fresh /\ c # "http"
  <2>1. Idle \in Calls /\ Idle.pc = "idle"
    BY DEF Calls, Idle
  <2>2. QED
    BY <1>2, <2>1, Fields DEF Get
<1>3. CASE ~ Fresh
  <2> DEFINE r == [pc |-> "verify", mine |-> mine]
  <2>1. r \in Calls /\ r.pc = "verify"
    BY DEF Calls
  <2>2. call' = [call EXCEPT ![c] = r]
    BY <1>3 DEF Get
  <2> HIDE DEF r
  <2>3. QED
    BY <2>1, <2>2, Fields DEF Get
<1>4. QED
  BY <1>1, <1>2, <1>3

\* The browser and other visitors ask, and so does the owner's own page once
\* its transaction is confirmed.
LEMMA AskKeeps ==
    ASSUME StreamInv, Poll \/ Visit \/ OwnTransaction \/ Opened
    PROVE  StreamInv'
<1>1. /\ UNCHANGED <<unsafe, verdict, cached, saved, frames, view, faults>>
      /\ head' \in 0 .. MaxVersion /\ head <= head' /\ socket' \in Sockets
  BY Fields DEF Poll, Visit, OwnTransaction, Opened, browser, Sockets
<1>2. \E c \in Callers, mine \in 0 .. MaxVersion : Get(c, mine)
  <2>1. "http" \in Callers /\ (Visitors => "visitor" \in Callers)
    BY DEF Callers
  <2>2. 0 \in 0 .. MaxVersion /\ (head < MaxVersion => head + 1 \in 0 .. MaxVersion)
    BY Fields
  <2>3. QED
    BY <2>1, <2>2 DEF Poll, Visit, OwnTransaction, Opened
<1>3. PICK c \in Callers : /\ \E r \in Calls : call' = [call EXCEPT ![c] = r] /\ r.pc \notin {"read", "install"}
                           /\ alarm' \in BOOLEAN
  BY <1>2, GetTyped
<1>4. Calls \subseteq Calls'
  BY <1>1, Fields, CallsGrow
<1>5. QED
  BY <1>1, <1>3, <1>4, FaultsTyped, QuietCall

\* A websocket opens and gets its baseline.
LEMMA BaselineKeeps ==
    ASSUME StreamInv, Connect \/ Baseline
    PROVE  StreamInv'
<1>1. "baseline" \in Callers
  BY DEF Callers
<1>2. CASE Connect
  <2> DEFINE waits == [pc |-> "verify", mine |-> 0]
             given == [pc |-> "baseline", frame |-> Frame(cached)]
  <2>1. waits \in Calls /\ waits.pc = "verify"
    BY Fields DEF Calls
  <2>2. cached # NoSnapshot => given \in Calls /\ given.pc = "baseline"
    BY Fields, FrameTyped DEF StreamInv, Calls
  <2>3. /\ call' = [call EXCEPT !["baseline"] = IF cached = NoSnapshot THEN waits ELSE given]
        /\ UNCHANGED <<head, unsafe, verdict, cached, saved, alarm, frames, view, faults>>
        /\ socket' \in Sockets
    BY <1>2 DEF Connect, Sockets
  <2> HIDE DEF waits, given
  <2>4. PICK r \in Calls : call' = [call EXCEPT !["baseline"] = r] /\ r.pc \notin {"read", "install"}
    BY <2>1, <2>2, <2>3
  <2>5. QED
    BY <1>1, <2>3, <2>4, Fields, FaultsTyped, SameTypes, QuietCall
<1>3. CASE Baseline
  <2>1. call["baseline"].pc = "baseline" /\ call["baseline"] \in Calls
    BY <1>1, <1>3, Fields DEF Baseline
  <2>2. call["baseline"].frame \in Frames
    BY <2>1 DEF Calls
  <2>3. /\ call' = [call EXCEPT !["baseline"] = Idle] /\ alarm' = TRUE
        /\ UNCHANGED <<head, unsafe, verdict, cached, saved, view, faults>>
        /\ socket' \in Sockets
        /\ frames' = IF socket = "closed" THEN frames ELSE Queued(call["baseline"].frame)
    BY <1>3, Fields DEF Baseline, Sockets
  <2>4. frames' \in Seq(Frames) /\ Len(frames') <= MaxFrames
    BY <2>2, <2>3, Fields, QueuedTyped DEF StreamInv
  <2>5. Idle \in Calls /\ Idle.pc = "idle"
    BY DEF Calls, Idle
  <2>6. QED
    BY <1>1, <2>3, <2>4, <2>5, Fields, FaultsTyped, SameTypes, OneCallMoves
<1>4. QED
  BY <1>2, <1>3

\* The alarm
LEMMA AlarmKeeps ==
    ASSUME StreamInv, Ring \/ Reschedule
    PROVE  StreamInv'
<1>1. "alarm" \in Callers
  BY DEF Callers
<1> DEFINE waits == [pc |-> "verify", mine |-> 0]
           after == [pc |-> "reschedule"]
<1>2. /\ waits \in Calls /\ waits.pc = "verify" /\ after \in Calls /\ after.pc = "reschedule"
      /\ Idle \in Calls /\ Idle.pc = "idle"
  BY Fields DEF Calls, Idle
<1>3. /\ UNCHANGED <<head, unsafe, verdict, cached, saved, socket, frames, view, faults>> /\ alarm' \in BOOLEAN
      /\ \/ call' = call
         \/ call' = [call EXCEPT !["alarm"] = IF Due THEN waits ELSE after]
         \/ call' = [call EXCEPT !["alarm"] = Idle]
  BY DEF Ring, Reschedule, browser
<1> HIDE DEF waits, after
<1>4. CASE call' = call
  <2>1. call' = [call EXCEPT !["alarm"] = call["alarm"]] /\ call["alarm"] \in Calls
    BY <1>1, <1>4, Fields
  <2>2. QED
    BY <1>1, <1>3, <2>1, Fields, FaultsTyped, SameTypes, QuietCall
<1>5. CASE call' # call
  <2>1. PICK r \in Calls : call' = [call EXCEPT !["alarm"] = r] /\ r.pc \notin {"read", "install"}
    BY <1>2, <1>3, <1>5
  <2>2. QED
    BY <1>1, <1>3, <2>1, Fields, FaultsTyped, SameTypes, QuietCall
<1>6. QED
  BY <1>4, <1>5

-----------------------------------------------------------------------------
(* The browser, the clock and the runtime *)

\* The chain and the clock move on, frames arrive, the websocket closes.
LEMMA OutsideKeeps ==
    ASSUME StreamInv, Transaction \/ Arrive \/ Age \/ Drop
    PROVE  StreamInv'
<1>1. CASE Transaction
  <2>1. /\ UNCHANGED <<unsafe, verdict, call, saved, alarm, cached, socket, frames, view, faults>>
        /\ head' \in 0 .. MaxVersion /\ head <= head' /\ head' \in Nat
    BY <1>1, Fields DEF Transaction, object, browser
  <2>2. Snapshots \subseteq Snapshots'
    BY <2>1, Fields, CallsGrow
  <2>3. QED
    BY <2>1, <2>2, Fields, FaultsTyped, NoCallMoves
<1>2. CASE Arrive
  <2>1. /\ UNCHANGED <<head, unsafe, verdict, call, saved, alarm, cached, socket, faults>>
        /\ frames # <<>> /\ view' = Head(frames) /\ frames' = Tail(frames)
    BY <1>2 DEF Arrive, object
  <2>2. view' \in Frames /\ frames' \in Seq(Frames) /\ Len(frames') <= MaxFrames
    <3>1. frames \in Seq(Frames) /\ frames # <<>> /\ Len(frames) <= MaxFrames
      BY <2>1, Fields
    <3>2. Head(frames) \in Frames /\ Tail(frames) \in Seq(Frames) /\ Len(Tail(frames)) = Len(frames) - 1
      BY <3>1
    <3>3. QED
      BY <2>1, <3>1, <3>2, StreamAssumption
  <2>3. QED
    BY <2>1, <2>2, Fields, FaultsTyped, SameTypes, NoCallMoves
<1>3. CASE Age
  <2>1. cached \in Snapshots
    BY <1>3, Fields DEF Age
  <2> DEFINE snap == [cached EXCEPT !.age = IF @ = "fresh" THEN "warm" ELSE "old"]
  <2>2. snap \in Snapshots /\ snap.stale = cached.stale
    BY <2>1 DEF Snapshots
  <2>3. cached' = snap /\ cached # NoSnapshot
        /\ UNCHANGED <<head, unsafe, verdict, call, saved, alarm, socket, frames, view, faults>>
    BY <1>3 DEF Age, browser
  <2> HIDE DEF snap
  <2>4. cached' # NoSnapshot /\ ~ cached'.stale => verdict = "current"
    BY <2>2, <2>3, Fields
  <2>5. cached' \in Snapshots' \cup {NoSnapshot}
    BY <2>2, <2>3, SameTypes
  <2>6. QED
    BY <2>3, <2>4, <2>5, Fields, FaultsTyped, NoCallMoves
<1>4. CASE Drop
  <2>1. /\ UNCHANGED <<head, unsafe, verdict, call, saved, alarm, cached, view>>
        /\ socket' = "closed" /\ frames' = <<>> /\ faults' \in 0 .. MaxFaults
    BY <1>4, FaultsTyped DEF Drop, object
  <2>2. frames' \in Seq(Frames) /\ Len(frames') <= MaxFrames /\ socket' \in Sockets
    BY <2>1, StreamAssumption DEF Sockets
  <2>3. QED
    BY <2>1, <2>2, Fields, SameTypes, NoCallMoves
<1>5. QED
  BY <1>1, <1>2, <1>3, <1>4

\* The browser takes the answer to its request.
LEMMA AnsweredKeeps ==
    ASSUME StreamInv, Answered
    PROVE  StreamInv'
<1>1. "http" \in Callers /\ Idle \in Calls /\ Idle.pc = "idle"
  BY DEF Callers, Calls, Idle
<1>2. /\ call["http"].pc = "answered" /\ view' = call["http"].frame
      /\ call' = [call EXCEPT !["http"] = Idle]
      /\ UNCHANGED <<head, unsafe, verdict, cached, saved, alarm, socket, frames, faults>>
  BY DEF Answered
<1>3. view' \in Frames
  BY <1>1, <1>2, Fields DEF Calls
<1>4. QED
  BY <1>1, <1>2, <1>3, Fields, FaultsTyped, SameTypes, OneCallMoves

\* A restart takes the verdict, the snapshot in memory and the calls with it.
LEMMA RestartKeeps ==
    ASSUME StreamInv, Restart
    PROVE  StreamInv'
<1>1. /\ verdict' = "none" /\ cached' = NoSnapshot /\ call' = [c \in Callers |-> Idle]
      /\ socket' = "closed" /\ frames' = <<>> /\ UNCHANGED <<head, saved, view>>
      /\ unsafe' \in BOOLEAN /\ alarm' \in BOOLEAN /\ faults' \in 0 .. MaxFaults
  BY FaultsTyped DEF Restart, StreamInv, Typed
<1>2. Idle \in Calls /\ Idle.pc = "idle"
  BY DEF Calls, Idle
<1>3. call' \in [Callers -> Calls'] /\ \A c \in Callers : call'[c].pc = "idle"
  BY <1>1, <1>2, SameTypes
<1>4. frames' \in Seq(Frames) /\ Len(frames') <= MaxFrames
  BY <1>1, StreamAssumption
<1>5. Typed'
  BY <1>1, <1>3, <1>4, Fields DEF Typed, Verdicts
<1>6. VerdictHolds' /\ ReadersAreVerified' /\ UnmarkedIsVerified'
  BY <1>1, <1>3 DEF VerdictHolds, ReadersAreVerified, UnmarkedIsVerified
<1>7. QED
  BY <1>5, <1>6 DEF StreamInv

-----------------------------------------------------------------------------
(* The theorems *)

\* Nothing is known and nothing under way at first.
LEMMA StreamInit == Init => StreamInv
<1> SUFFICES ASSUME Init
             PROVE  StreamInv
  OBVIOUS
<1>1. Idle \in Calls /\ Idle.pc = "idle"
  BY DEF Calls, Idle
<1>2. call \in [Callers -> Calls] /\ \A c \in Callers : call[c].pc = "idle"
  BY <1>1 DEF Init
<1>3. frames \in Seq(Frames) /\ Len(frames) <= MaxFrames
  BY StreamAssumption DEF Init
<1>4. Typed
  <2>1. head = 0 /\ saved = -1 /\ NoSnapshot.version = -1 /\ faults = 0
    BY DEF Init, NoSnapshot
  <2>2. head \in 0 .. MaxVersion /\ saved \in NoSnapshot.version .. head /\ faults \in 0 .. MaxFaults
    BY <2>1, StreamAssumption
  <2>3. QED
    BY <1>2, <1>3, <2>2 DEF Init, Typed, Verdicts
<1>5. VerdictHolds /\ ReadersAreVerified /\ UnmarkedIsVerified
  BY <1>2 DEF Init, VerdictHolds, ReadersAreVerified, UnmarkedIsVerified
<1>6. QED
  BY <1>4, <1>5 DEF StreamInv

\* Every step keeps the invariant.
LEMMA StreamStep ==
    ASSUME StreamInv, [Next]_vars
    PROVE  StreamInv'
<1>1. CASE Coordinator
  BY <1>1, VerdictKeeps, ReadKeeps, EndKeeps, BaselineKeeps, AlarmKeeps DEF Coordinator, Refresh
<1>2. CASE Poll \/ Visit \/ OwnTransaction \/ Opened
  BY <1>2, AskKeeps
<1>3. CASE Connect
  BY <1>3, BaselineKeeps
<1>4. CASE Transaction \/ Arrive \/ Age \/ Drop
  BY <1>4, OutsideKeeps
<1>5. CASE Answered
  BY <1>5, AnsweredKeeps
<1>6. CASE Restart
  BY <1>6, RestartKeeps
<1>7. CASE UNCHANGED vars
  <2>1. UNCHANGED <<head, unsafe, verdict, call, saved, alarm, cached, socket, frames, view, faults>>
    BY <1>7 DEF vars, object, browser
  <2>2. QED
    BY <2>1, Fields, FaultsTyped, SameTypes, NoCallMoves
<1>8. QED
  BY <1>1, <1>2, <1>3, <1>4, <1>5, <1>6, <1>7 DEF Next

\* The invariant holds.
LEMMA StreamInvariant == Spec => []StreamInv
<1>1. Init => StreamInv
  BY StreamInit
<1>2. StreamInv /\ [Next]_vars => StreamInv'
  BY StreamStep
<1>3. QED
  BY <1>1, <1>2, PTL DEF Spec

\* A snapshot that is served without a mark was read by an isolate that has
\* verified its factory, and the factory has not been superseded since (read,
\* refresh, assertCurrentImplementation).
THEOREM StreamUnmarkedIsVerified == Spec => []UnmarkedIsVerified
<1>1. StreamInv => UnmarkedIsVerified
  BY DEF StreamInv
<1>2. QED
  BY <1>1, StreamInvariant, PTL

\* What the object holds and saves is of a version that the contract has had,
\* and the frames under way are never more than the last few.
THEOREM StreamTypeCorrect == Spec => []TypeOK
<1>1. StreamInv => TypeOK
  <2> SUFFICES ASSUME StreamInv
               PROVE  TypeOK
    OBVIOUS
  <2>1. \A c \in Callers : call[c].pc \in {"idle", "verify", "read", "install", "failed", "superseded",
                                           "answered", "baseline", "reschedule"}
    BY Fields DEF Calls
  <2>2. cached = NoSnapshot \/ (cached.version \in 0 .. head /\ cached.stale \in BOOLEAN
                                /\ cached.age \in {"fresh", "warm", "old"})
    BY Fields DEF Snapshots
  <2>3. QED
    BY <2>1, <2>2 DEF StreamInv, Typed, TypeOK, Verdicts
<1>2. QED
  BY <1>1, StreamInvariant, PTL
=============================================================================
