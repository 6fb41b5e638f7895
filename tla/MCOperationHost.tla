--------------------------- MODULE MCOperationHost ---------------------------
(* TLC instance of OperationHost, run with the Events of its audit. *)
EXTENDS OperationAudit, TLC

=============================================================================
