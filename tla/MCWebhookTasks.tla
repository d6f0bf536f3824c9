--------------------------- MODULE MCWebhookTasks ---------------------------
(* Instance of WebhookTasks for TLC.                                       *)
EXTENDS WebhookTasks, TLC
CONSTANTS k1, k2, b1, b2
=============================================================================
