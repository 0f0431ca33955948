----------------------------- MODULE WebhookMC -----------------------------
(* Instances of Webhook for TLC. *)
EXTENDS Webhook

CONSTANTS h1, h2, x1, x2
=============================================================================
