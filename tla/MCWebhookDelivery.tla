-------------------------- MODULE MCWebhookDelivery --------------------------
EXTENDS WebhookDelivery, TLC

AllSubscribed == Messages \X Endpoints
\* Either operators race each other over an original, with the workers at rest, or one
\* operator at a time races the workers.
OneRace == Cardinality(replaying) <= 1 \/ worker = [w \in Workers |-> Idle]
Alike == Permutations(Endpoints) \cup Permutations(Replays) \cup Permutations(Workers)
=============================================================================
