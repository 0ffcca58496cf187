----------------------------- MODULE MCWebhooks ------------------------------
(* Instances of Webhooks: the configurations give all its constants.      *)
EXTENDS Webhooks
==============================================================================
