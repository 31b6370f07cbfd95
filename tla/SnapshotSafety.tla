--------------------------- MODULE SnapshotSafety ---------------------------
(* What a browser may rely on in the snapshots it is shown. *)
EXTENDS SnapshotStream

Frames == [version : 0 .. MaxVersion, stale : BOOLEAN]

(* Types of every variable; a snapshot is always of a version that existed. *)
TypeOK ==
  /\ head \in 0 .. MaxVersion /\ unsafe \in BOOLEAN
  /\ verdict \in {"none", "asking", "current", "superseded"}
  /\ cached = NoSnapshot \/ (cached.version \in 0 .. head /\ cached.stale \in BOOLEAN /\ cached.age \in {"fresh", "warm", "old"})
  /\ saved \in NoSnapshot.version .. head
  /\ DOMAIN call = Callers
  /\ \A c \in Callers : call[c].pc \in {"idle", "verify", "read", "install", "failed", "superseded",
                                        "answered", "baseline", "reschedule"}
  /\ alarm \in BOOLEAN /\ socket \in {"closed", "opening", "accepted", "live"}
  /\ frames \in Seq(Frames) /\ Len(frames) <= MaxFrames
  /\ view \in Frames \cup {NoSnapshot}
  /\ faults \in 0 .. MaxFaults

(* read: "Fails loud if AIRSPACE_FACTORY resolves to a deployment this
   repository has proven unsafe".  A snapshot that is not marked is only held
   by an isolate that has verified its factory, and never of an unsafe one. *)
UnmarkedIsVerified ==
  cached # NoSnapshot /\ ~ cached.stale => verdict = "current" /\ ~ unsafe

(* A browser that stays connected is shown the latest version, unmarked, once
   transactions and faults have ended, without asking, unless the factory it
   reads has been superseded. *)
ConnectedSeesTheLatest ==
  <>[](socket = "live" /\ ~ unsafe) => <>[](view = [version |-> head, stale |-> FALSE])
=============================================================================
