---------------------------- MODULE MCJobRuntimes ----------------------------
EXTENDS JobRuntimes

CONSTANTS d1, o1   \* the drain and the operator that go on once an event is committed

\* Bounds: either no event is committed, and the drains and operators race over
\* the override and its cache, or one drain delivers events while one operator
\* makes one change.
Idles(drains) == \A d \in drains : drain[d].pc = "idle"
Uninvolved(operators) == \A o \in operators : reviewed[o] = Unread
Bounded ==
    \/ \A e \in Events : row[e].status = "absent"
    \/ /\ Idles(Drains \ {d1}) /\ Uninvolved(Operators \ {o1})
       /\ config.version <= 1
=============================================================================
