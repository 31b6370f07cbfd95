--------------------------- MODULE SnapshotStream ---------------------------
(***************************************************************************)
(* The live snapshot of a portfolio on its way from the chain to a         *)
(* browser: the coordinator object reads it, caches it, saves it, answers  *)
(* requests with it and broadcasts it over the websocket; an alarm         *)
(* refreshes it; the browser shows what came last.  A snapshot is the      *)
(* version of the contract's state that it was read from.                  *)
(***************************************************************************)
EXTENDS Integers, Sequences

CONSTANTS
  MaxVersion,  \* bound: transactions that change the portfolio
  MaxFrames,   \* bound: frames under way to the browser that are kept
  Visitors,    \* whether other visitors ask for the snapshot as well
  Faults,      \* the faults of an instance, see FaultKinds
  MaxFaults    \* bound: faults in a behaviour

FaultKinds == {"rpc",       \* a read of the chain fails
               "restart",   \* the object and its isolate lose their memory
               "redeploy",  \* so they do, and AIRSPACE_FACTORY is another one
               "drop"}      \* the websocket closes

ASSUME StreamAssumption ==
  /\ MaxVersion \in Nat /\ MaxFrames \in Nat \ {0} /\ MaxFaults \in Nat
  /\ Visitors \in BOOLEAN /\ Faults \subseteq FaultKinds

VARIABLES
  head,     \* version of the contract's state
  unsafe,   \* AIRSPACE_FACTORY resolves to a superseded implementation
  verdict,  \* what the isolate knows of that
  cached,   \* the object's snapshot
  saved,    \* the snapshot in its storage
  call,     \* call[c]: the calls of refresh under way
  alarm,    \* an alarm is set
  socket,   \* the browser's websocket
  frames,   \* what was sent over it and has not arrived
  view,     \* the snapshot the browser shows
  faults

object  == <<verdict, cached, saved, call, alarm>>
browser == <<socket, frames, view>>
vars    == <<head, unsafe, object, browser, faults>>

NoSnapshot == [version |-> -1, stale |-> FALSE]
Idle       == [pc |-> "idle"]

(* The alarm's call, the websocket's baseline, the browser's own request, and
   that of somebody else *)
Callers == {"alarm", "baseline", "http"} \cup (IF Visitors THEN {"visitor"} ELSE {})

Strikes(kind) == kind \in Faults /\ faults < MaxFaults /\ faults' = faults + 1
Spared        == faults' = faults

Goto(c, pc) == call' = [call EXCEPT ![c] = [@ EXCEPT !.pc = pc]]

-----------------------------------------------------------------------------
(* refresh *)

Frame(snap) == [version |-> snap.version, stale |-> snap.stale]

(* Frames arrive in order, so of those under way only the last few matter. *)
Queued(frame) == LET all == Append(frames, frame)
                 IN IF Len(all) > MaxFrames THEN Tail(all) ELSE all

(* broadcast: to the browser, when it is there *)
Send(snap) == frames' = IF socket = "closed" THEN frames ELSE Queued(Frame(snap))

(* What a finished call does with its snapshot: a request is answered with it,
   the baseline is one more frame, the alarm only sets itself again. *)
Finish(c, snap) ==
  call' = [call EXCEPT ![c] = CASE c = "http" -> [pc |-> "answered", frame |-> Frame(snap), mine |-> call[c].mine]
                                [] c = "baseline" -> [pc |-> "baseline", frame |-> Frame(snap)]
                                [] c = "alarm" -> [pc |-> "reschedule"]
                                [] OTHER -> Idle]

(* A call that throws: an alarm rings again, a websocket is not opened. *)
Throw(c) ==
  /\ call' = [call EXCEPT ![c] = Idle]
  /\ alarm' = (alarm \/ c = "alarm")
  /\ socket' = IF c = "baseline" THEN "closed" ELSE socket
  /\ frames' = IF c = "baseline" THEN <<>> ELSE frames

(* assertCurrentImplementation is asked once per isolate, by the first that
   needs it; the others await the same promise. *)
AskVerdict(c) ==
  /\ call[c].pc = "verify"
  /\ verdict = "none"
  /\ verdict' = "asking"
  /\ UNCHANGED <<head, unsafe, cached, saved, call, alarm, browser, faults>>

AfterFailure == "none"

Decide ==
  /\ verdict = "asking"
  /\ \/ /\ Spared
        /\ verdict' = IF unsafe THEN "superseded" ELSE "current"
        /\ UNCHANGED call
     \/ /\ Strikes("rpc")
        /\ verdict' = AfterFailure
        /\ call' = [c \in Callers |-> IF call[c].pc = "verify" THEN [call[c] EXCEPT !.pc = "failed"] ELSE call[c]]
  /\ UNCHANGED <<head, unsafe, cached, saved, alarm, browser>>

(* Mutant: nobody waits for the verdict. *)
GoodUnawaited == verdict \in {"asking", "current"}

Good == verdict = "current"

Verified(c) ==
  /\ call[c].pc = "verify"
  /\ \/ Good /\ Goto(c, "read")
     \/ verdict = "superseded" /\ Goto(c, "superseded")
     \/ verdict = "failed" /\ Goto(c, "failed")
  /\ UNCHANGED <<head, unsafe, verdict, cached, saved, alarm, browser, faults>>

(* The chain answers; the answer takes its time to arrive. *)
Read(c) ==
  /\ call[c].pc = "read"
  /\ \/ Strikes("rpc") /\ Goto(c, "failed")
     \/ Spared /\ call' = [call EXCEPT ![c] = [pc |-> "install", version |-> head,
                                               mine |-> IF c = "http" THEN @.mine ELSE 0]]
  /\ UNCHANGED <<head, unsafe, verdict, cached, saved, alarm, browser>>

Install(c) ==
  /\ call[c].pc = "install"
  /\ LET snap == [version |-> call[c].version, stale |-> FALSE, age |-> "fresh"]
     IN cached' = snap /\ saved' = snap.version /\ Send(snap) /\ Finish(c, snap)
  /\ alarm' = TRUE
  /\ UNCHANGED <<head, unsafe, verdict, socket, view, faults>>

(* After a failed read the last snapshot is served, marked. *)
ServeStale(c) ==
  /\ call[c].pc = "failed"
  /\ IF cached = NoSnapshot /\ saved = NoSnapshot.version
     THEN Throw(c) /\ UNCHANGED cached
     ELSE \E age \in IF cached = NoSnapshot THEN {"fresh", "old"} ELSE {cached.age} :
            LET snap == [version |-> IF cached = NoSnapshot THEN saved ELSE cached.version, stale |-> TRUE, age |-> age]
            IN cached' = snap /\ Send(snap) /\ Finish(c, snap) /\ UNCHANGED <<alarm, socket>>
  /\ UNCHANGED <<head, unsafe, verdict, saved, view, faults>>

Refuse(c) == Throw(c)

Superseded(c) ==
  /\ call[c].pc = "superseded"
  /\ Refuse(c)
  /\ UNCHANGED <<head, unsafe, verdict, cached, saved, view, faults>>

Refresh(c) == AskVerdict(c) \/ Verified(c) \/ Read(c) \/ Install(c) \/ ServeStale(c) \/ Superseded(c)

-----------------------------------------------------------------------------
(* Who calls refresh *)

Fresh == cached # NoSnapshot /\ cached.age = "fresh"

(* GET /snapshot; the first one after a restart also wakes the event store. *)
Get(c, mine) ==
  /\ IF Fresh
     THEN call' = [call EXCEPT ![c] = IF c = "http" THEN [pc |-> "answered", frame |-> Frame(cached), mine |-> mine] ELSE Idle]
     ELSE call' = [call EXCEPT ![c] = [pc |-> "verify", mine |-> mine]]
  /\ alarm' \in {alarm, TRUE}

(* The browser polls while its websocket is not live. *)
Poll ==
  /\ socket = "closed" /\ call["http"] = Idle
  /\ Get("http", 0)
  /\ UNCHANGED <<head, unsafe, verdict, cached, saved, browser, faults>>

Visit ==
  /\ Visitors /\ call["visitor"] = Idle
  /\ Get("visitor", 0)
  /\ UNCHANGED <<head, unsafe, verdict, cached, saved, browser, faults>>

(* The owner's transaction is confirmed in this browser, which fetches again. *)
OwnTransaction ==
  /\ head < MaxVersion /\ call["http"] = Idle /\ view # NoSnapshot
  /\ head' = head + 1
  /\ Get("http", head + 1)
  /\ UNCHANGED <<unsafe, verdict, cached, saved, browser, faults>>

Transaction ==
  /\ head < MaxVersion
  /\ head' = head + 1
  /\ UNCHANGED <<unsafe, object, browser, faults>>

(* handleWebSocket: the socket is in the set before the baseline is there. *)
Connect ==
  /\ socket = "closed" /\ call["baseline"] = Idle
  /\ socket' = "opening"
  /\ call' = [call EXCEPT !["baseline"] = IF cached = NoSnapshot THEN [pc |-> "verify", mine |-> 0]
                                          ELSE [pc |-> "baseline", frame |-> Frame(cached)]]
  /\ UNCHANGED <<head, unsafe, verdict, cached, saved, alarm, frames, view, faults>>

Baseline ==
  /\ call["baseline"].pc = "baseline"
  /\ frames' = IF socket = "closed" THEN frames ELSE Queued(call["baseline"].frame)
  /\ call' = [call EXCEPT !["baseline"] = Idle]
  /\ alarm' = TRUE
  /\ socket' = IF socket = "opening" THEN "accepted" ELSE socket
  /\ UNCHANGED <<head, unsafe, verdict, cached, saved, view, faults>>

(* onopen: the query is fetched again, whatever was under way is ignored. *)
Opened ==
  /\ socket = "accepted"
  /\ socket' = "live"
  /\ Get("http", 0)
  /\ UNCHANGED <<head, unsafe, verdict, cached, saved, frames, view, faults>>

(* Mutant: what is marked stale is left as it is. *)
DueIfGood == cached = NoSnapshot \/ (cached.age = "old" /\ ~ cached.stale)

Due == cached = NoSnapshot \/ cached.age = "old"

(* An alarm with nobody connected may find the object idle and stop. *)
Ring ==
  /\ alarm /\ call["alarm"] = Idle
  /\ alarm' = FALSE
  /\ \/ socket = "closed" /\ UNCHANGED call
     \/ call' = [call EXCEPT !["alarm"] = IF Due THEN [pc |-> "verify", mine |-> 0] ELSE [pc |-> "reschedule"]]
  /\ UNCHANGED <<head, unsafe, verdict, cached, saved, browser, faults>>

Reschedule ==
  /\ call["alarm"].pc = "reschedule"
  /\ call' = [call EXCEPT !["alarm"] = Idle]
  /\ alarm' = TRUE
  /\ UNCHANGED <<head, unsafe, verdict, cached, saved, browser, faults>>

-----------------------------------------------------------------------------
(* The browser, the clock and the runtime *)

Arrive ==
  /\ socket = "live" /\ frames # <<>>
  /\ view' = Head(frames)
  /\ frames' = Tail(frames)
  /\ UNCHANGED <<head, unsafe, object, socket, faults>>

Answered ==
  /\ call["http"].pc = "answered"
  /\ view' = call["http"].frame
  /\ call' = [call EXCEPT !["http"] = Idle]
  /\ UNCHANGED <<head, unsafe, verdict, cached, saved, alarm, socket, frames, faults>>

(* 7.5 seconds make a snapshot worth another read, 15 make it the alarm's. *)
Age ==
  /\ cached # NoSnapshot /\ cached.age # "old"
  /\ cached' = [cached EXCEPT !.age = IF @ = "fresh" THEN "warm" ELSE "old"]
  /\ UNCHANGED <<head, unsafe, verdict, saved, call, alarm, browser, faults>>

Drop ==
  /\ socket # "closed" /\ Strikes("drop")
  /\ socket' = "closed" /\ frames' = <<>>
  /\ UNCHANGED <<head, unsafe, object, view>>

Restart ==
  /\ \/ Strikes("restart") /\ UNCHANGED unsafe
     \/ Strikes("redeploy") /\ unsafe' = ~ unsafe
  /\ verdict' = "none" /\ cached' = NoSnapshot
  /\ call' = [c \in Callers |-> Idle]
  /\ alarm' = (alarm \/ call["alarm"] # Idle)
  /\ socket' = "closed" /\ frames' = <<>>
  /\ UNCHANGED <<head, saved, view>>

Init ==
  /\ head = 0 /\ unsafe = FALSE
  /\ verdict = "none" /\ cached = NoSnapshot /\ saved = NoSnapshot.version
  /\ call = [c \in Callers |-> Idle] /\ alarm = FALSE
  /\ socket = "closed" /\ frames = <<>> /\ view = NoSnapshot
  /\ faults = 0

Coordinator == Decide \/ Baseline \/ Ring \/ Reschedule \/ \E c \in Callers : Refresh(c)

Next ==
  \/ Coordinator \/ Poll \/ Visit \/ Connect \/ Opened \/ Arrive \/ Answered
  \/ Transaction \/ OwnTransaction \/ Age \/ Drop \/ Restart

Spec == Init /\ [][Next]_vars

(* Calls go on, set alarms ring, frames and answers arrive, time passes, and
   the browser connects again. *)
FairSpec ==
  /\ Spec
  /\ WF_vars(Decide) /\ WF_vars(Baseline) /\ WF_vars(Ring) /\ WF_vars(Reschedule)
  /\ \A c \in Callers : WF_vars(Refresh(c))
  /\ WF_vars(Arrive) /\ WF_vars(Answered) /\ WF_vars(Opened) /\ WF_vars(Connect) /\ WF_vars(Age)
=============================================================================
