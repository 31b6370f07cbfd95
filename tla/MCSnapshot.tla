----------------------------- MODULE MCSnapshot ------------------------------
(* Instances of the snapshot stream for TLC. *)
EXTENDS SnapshotSafety
=============================================================================
