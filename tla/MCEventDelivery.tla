--------------------------- MODULE MCEventDelivery ---------------------------
EXTENDS EventDelivery, TLC

Actors == Permutations(Dispatchers) \cup Permutations(Executors)

\* Bounds: either several dispatchers race over the row, with one executor and one
\* delivery of each run, or several executors over the event, with one dispatcher
\* and the row's first dispatch.
Busy(pc(_), actors) == Cardinality({a \in actors : pc(a) # "idle"})
OneExecutor ==
    /\ Dedupes
    /\ Busy(LAMBDA x : exec[x].pc, Executors) <= 1
    /\ \A k \in Keys : runs[k].tries = 0
OneDispatcher ==
    /\ Busy(LAMBDA d : disp[d].pc, Dispatchers) <= 1
    /\ \A e \in Events : row[e].attempts = 0 /\ redrives[e] = 0
    /\ \A k \in Keys : k[2] > 1 => ~Started(k)
Bounded == OneExecutor \/ OneDispatcher
=============================================================================
