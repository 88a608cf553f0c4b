------------------------------ MODULE MCSender ------------------------------
(* Instances of WebhookSender for TLC. *)
EXTENDS WebhookSender
=============================================================================
