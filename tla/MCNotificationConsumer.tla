----------------------- MODULE MCNotificationConsumer -----------------------
(* Small instances of NotificationConsumer.                                 *)
EXTENDS NotificationConsumer, TLC

Symmetric == Permutations(Consumers) \union Permutations(Events)
=============================================================================
