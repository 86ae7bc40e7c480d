---------------------------- MODULE MCRetrySync -----------------------------
(* Instances of RetrySync for TLC. Eleven blocks make odd ranges at every     *)
(* level; with more retries than halvings every range can be split down to   *)
(* single blocks. In the runs of SyncSession the attempts run out first.     *)
EXTENDS RetrySync
=============================================================================
