------------------------- MODULE MCWebhookReadiness -------------------------
(***************************************************************************)
(* Small instances of WebhookReadiness for TLC.                            *)
(***************************************************************************)
EXTENDS WebhookReadiness

=============================================================================
