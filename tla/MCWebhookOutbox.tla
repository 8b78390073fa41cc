-------------------------- MODULE MCWebhookOutbox --------------------------
(***************************************************************************)
(* WebhookOutbox for TLC: one or two workers on a few rows.                *)
(***************************************************************************)
EXTENDS WebhookOutbox

=============================================================================
