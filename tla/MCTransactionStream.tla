------------------------ MODULE MCTransactionStream ------------------------
(* Three sub-scans, the middle one of which finds nothing. *)
EXTENDS TransactionStream

MCBatches == <<2, 0, 1>>
=============================================================================
