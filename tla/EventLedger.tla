----------------------------- MODULE EventLedger -----------------------------
(***************************************************************************)
(* What an event ledger promises its readers, whatever the number of       *)
(* workers that feed it and however they die: a log is claimed once and    *)
(* applied at most once, and the watermark only covers claimed logs.       *)
(***************************************************************************)
EXTENDS Naturals

VARIABLES
  published,  \* logs on the chain
  claimed,    \* logs the ledger has a row for
  count,      \* count[l]: how often a claimed log was applied
  covered     \* logs below the watermark

ledgerVars == <<published, claimed, count, covered>>

Init == claimed = {} /\ count = [l \in {} |-> 0] /\ covered = {}

Publish ==
  /\ published \subseteq published'
  /\ UNCHANGED <<claimed, count, covered>>

(* Rows for logs that had none *)
Claim ==
  /\ claimed \subseteq claimed' /\ claimed' \subseteq published
  /\ count' = [l \in claimed' |-> IF l \in claimed THEN count[l] ELSE 0]
  /\ UNCHANGED <<published, covered>>

Apply(l) ==
  /\ l \in claimed
  /\ count[l] = 0
  /\ count' = [count EXCEPT ![l] = 1]
  /\ UNCHANGED <<published, claimed, covered>>

(* The watermark moves, forward or, on a rescan, back. *)
Cover ==
  /\ covered' \subseteq claimed
  /\ UNCHANGED <<published, claimed, count>>

Next == Publish \/ Claim \/ Cover \/ \E l \in published : Apply(l)

Spec == Init /\ [][Next]_ledgerVars
=============================================================================
