---------------------------- MODULE MCInfraRunner ----------------------------
EXTENDS InfraRunner, TLC

CONSTANTS create, other, first, second, third

WholePlan == [op \in Operations |-> Resources]
OneRival == [r \in Runs |-> IF r = third THEN other ELSE create]
Alike == Permutations(Resources) \cup Permutations({first, second})
=============================================================================
