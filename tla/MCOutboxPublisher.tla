-------------------------- MODULE MCOutboxPublisher --------------------------
(* Small instances of OutboxPublisher.                                      *)
EXTENDS OutboxPublisher, TLC

WorkerSymmetry == Permutations(Workers)
=============================================================================
