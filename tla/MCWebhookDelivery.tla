------------------------- MODULE MCWebhookDelivery -------------------------
(* Instances of WebhookDelivery for TLC. *)
EXTENDS WebhookDelivery

\* max_retries of each endpoint
NoRetry == [e \in Endpoints |-> 0]
OneRetry == [e \in Endpoints |-> 1]
Mixed == [e \in Endpoints |-> e - 1]
=============================================================================
