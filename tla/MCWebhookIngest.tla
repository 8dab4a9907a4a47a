--------------------------- MODULE MCWebhookIngest ---------------------------
(* WebhookIngest on small instances; requests and keys are interchangeable.  *)
EXTENDS WebhookIngest, TLC

Interchangeable == Permutations(Requests) \cup Permutations(Keys)
=============================================================================
