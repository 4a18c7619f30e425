--------------------------- MODULE MCEmailSequences ---------------------------
EXTENDS EmailSequences

CONSTANT ada

OneUser == [t \in Triggers |-> ada]
Welcome == <<"wait", "send">>
=============================================================================
