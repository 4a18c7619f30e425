----------------------- MODULE MCBillingReconciliation -----------------------
EXTENDS BillingReconciliation, TLC

Twins == Permutations(Subscriptions) \cup Permutations(Orgs) \cup Permutations(Workers)
=============================================================================
