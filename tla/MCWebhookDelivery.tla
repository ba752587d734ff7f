-------------------------- MODULE MCWebhookDelivery --------------------------
(* The runs of the job are alike.                                             *)
EXTENDS WebhookDelivery, TLC

Symmetry == Permutations(Runs)

==============================================================================
