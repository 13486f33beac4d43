--------------------------- MODULE MCWebhookStore ---------------------------
(* One delivery for two handlers, two workers.                             *)
EXTENDS WebhookStore

CONSTANTS email, mlflow

TwoHandlers == <<email, mlflow>>
=============================================================================
