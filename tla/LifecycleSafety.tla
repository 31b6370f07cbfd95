--------------------------- MODULE LifecycleSafety ---------------------------
(* What the keeper must never do, and what it must do at last. *)
EXTENDS Lifecycle

(* One key sends every job: a transaction always follows the last one sent, so
   none waits for ever behind a nonce that a failed send left unused, across
   batches, retries, timeouts and crashes (NonceSequence). *)
NoNonceGap == \A tx \in mempool : tx.skipped = 0

(* A row is retired (EXPIRED) as a suspect only when the contract holds nothing
   open for it, so no live reservation leaves the scan's sight that way. *)
RetiredHasNoRecord == \A o \in Orders : rows[o] = "EXPIRED" => record[o] = 0

(* A reservation the venue no longer backs is released, or its market's
   exposure is, which frees the same headroom (scan, steps 1 and 2). *)
Dead(o) == record[o] > 0 /\ OnBook(o) < record[o]
DeadOrdersAreReleased == \A o \in Orders : Dead(o) ~> record[o] = 0 \/ market[PairOf(o)] # "tracked"

(* A position of a terminal market stops counting towards its domain (scan,
   step 2). *)
SpentMarketsAreSettled ==
  \A pm \in Pairs : market[pm] = "tracked" /\ terminal[pm[2]] ~> market[pm] # "tracked"

=============================================================================
