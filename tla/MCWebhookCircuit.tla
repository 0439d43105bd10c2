---- MODULE MCWebhookCircuit ----
EXTENDS WebhookCircuit
====
