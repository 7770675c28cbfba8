--------------------------- MODULE MCQueueDrivers ---------------------------
(* Small instances of QueueDrivers for TLC. *)
EXTENDS QueueDrivers
=============================================================================
