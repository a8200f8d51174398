---------------------------- MODULE MCApprovals ------------------------------
(* Approvals on a small instance: one approval of an unknown kind left by      *)
(* another version, an installation, one caller beside the expiry sweep.       *)
EXTENDS Approvals

MCDecisions == {"approve", "deny"}
=============================================================================
