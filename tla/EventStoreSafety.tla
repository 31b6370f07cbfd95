-------------------------- MODULE EventStoreSafety ---------------------------
(* What the answers of a portfolio's event store may be relied on for. *)
EXTENDS EventStore

(* Types of every variable; a scan past the chain's head would show here. *)
TypeOK ==
  /\ head \in DeployedAt .. MaxBlock /\ logs \subseteq DeployedAt .. head
  /\ stored \subseteq logs /\ savedScan \in NoScan .. head
  /\ loaded \in BOOLEAN /\ events \subseteq logs /\ scan \in NoScan .. head
  /\ scanning.pc \in {"none", "begin", "windows", "stamps", "put", "save", "failed"}
  /\ scanning.pc # "none" => ringing = "joined" \/ \E r \in Requests : request[r].pc = "joined"
  /\ DOMAIN request = Requests
  /\ \A r \in Requests : request[r].pc \in {"idle", "first", "measure", "joined", "answer", "answered"}
  /\ alarm \in BOOLEAN /\ ringing \in {"none", "joined", "reschedule"}
  /\ connected \in BOOLEAN
  /\ faults \in 0 .. MaxFaults

(* "A window that fails is NEVER skipped over" (scanPortfolioLogs): no log at or
   below the checkpoint is missing, in storage or in memory, except where the
   node that was asked trailed the chain; and those the overlap reads again, so
   they are never further than Lag behind the checkpoint. *)
NoLogMissed ==
  /\ Upto(savedScan - Lag) \subseteq stored
  /\ loaded => Upto(scan - Lag) \subseteq events

(* A view that says its history is complete lists every event but those of the
   last few blocks. *)
CompleteMeansCurrent ==
  \A r \in Requests :
    request[r].pc = "answered" /\ request[r].complete =>
      \A b \in request[r].missing : b > request[r].latest - CurrentWithin - Lag

(* Storage implements the abstract ledger: events are recorded once and for
   good, and the checkpoint, less the blocks by which a node may trail, covers
   recorded events only. *)
Ledger == INSTANCE EventLedger WITH
  published <- logs, claimed <- stored, count <- [b \in stored |-> 0], covered <- Upto(savedScan - Lag)

ImplementsLedger == Ledger!Spec

(* While somebody is connected, alarms bring in at last every event that all
   nodes have seen. *)
ConnectedCatchesUp ==
  \A b \in DeployedAt .. MaxBlock : connected /\ b \in Upto(head - Lag) ~> b \in stored \/ ~ connected
=============================================================================
