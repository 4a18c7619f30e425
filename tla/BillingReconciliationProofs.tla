------------------------ MODULE BillingReconciliationProofs ------------------------
(***************************************************************************)
(* Proofs about billing reconciliation for every number of notifications   *)
(* and every set of subscriptions, organizations and workers.              *)
(***************************************************************************)
EXTENDS BillingReconciliation, TLAPS

-----------------------------------------------------------------------------
(* The inductive invariant *)

\* A subscription's version is the last notification the provider sent of it.
ProviderInv ==
    /\ \A s \in Subscriptions : provider[s].version # NoEvent => sent[provider[s].version] = s
    /\ \A e \in Events : sent[e] # Nothing => e <= provider[sent[e]].version

\* A generation is given to one receipt at a time, and never exceeds the
\* cursor's.
ReceiptInv ==
    /\ \A e \in Events :
         /\ receipt[e].generation = 0 <=> receipt[e].status = "none"
         /\ receipt[e].generation > 0 => /\ sent[e] \in Subscriptions
                                         /\ receipt[e].generation <= cursor[sent[e]].generation
         /\ errand[e] = "open" => receipt[e].generation > 0
    /\ \A s \in Subscriptions :
         /\ cursor[s].reconciled <= cursor[s].generation
         /\ cursor[s].generation > 0 =>
              /\ cursor[s].latest \in Events
              /\ sent[cursor[s].latest] = s
              /\ receipt[cursor[s].latest].generation = cursor[s].generation

\* What a claim covers, and what its worker found, is not older than that.
ClaimOK(c) ==
    /\ c.pc # "idle" => c.sub \in Subscriptions
    /\ c.pc \in {"lookup", "complete", "reject", "release"} =>
         /\ c.generation > 0 /\ c.generation <= cursor[c.sub].generation
         /\ c.latest \in Events /\ sent[c.latest] = c.sub
         /\ receipt[c.latest].generation = c.generation
    /\ c.pc = "complete" =>
         /\ c.found.org \in Orgs
         /\ c.found.version <= provider[c.sub].version
         /\ \A e \in Events : sent[e] = c.sub /\ receipt[e].generation \in 1..c.generation
                                => e <= c.found.version

\* Only the holder of a lease may commit, so what stands cannot have become
\* newer than what it found.
HolderOK(c) ==
    /\ cursor[c.sub].reconciled < c.generation
    /\ c.pc = "complete" =>
         \A o \in Orgs : projection[o].sub = c.sub => projection[o].version <= c.found.version

ClaimInv == \A w \in Workers : ClaimOK(worker[w])
HolderInv == \A w \in Workers : Holds(w) => HolderOK(worker[w])

StandingInv ==
    /\ \A o \in Orgs : projection[o].sub # Nothing =>
         /\ owner[projection[o].sub] = o
         /\ projection[o].version <= provider[projection[o].sub].version
    /\ \A s \in Subscriptions : owner[s] # Nothing => projection[owner[s]].sub # Nothing

ReceiptsSettled ==
    /\ SettledWhenReconciled
    /\ \A e \in Events : /\ e \in emitted <=> receipt[e].status = "processed"
                         /\ receipt[e].status \in {"processed", "superseded"} => owner[sent[e]] # Nothing

IInv ==
    /\ TypeOK
    /\ ProviderInv
    /\ ReceiptInv
    /\ ClaimInv
    /\ HolderInv
    /\ StandingInv
    /\ ReceiptsSettled
    /\ SettledIsFresh

LEMMA InitInv == Init => IInv
<1> SUFFICES ASSUME Init PROVE IInv
  OBVIOUS
<1> USE BillingAssumption DEF Init, IdleWorker, Unknown, NoEvent, Events
<1>1. TypeOK
  BY DEF TypeOK, ProviderState, ReceiptState, CursorState, WorkerState, SettledStates
<1>2. ProviderInv /\ ReceiptInv /\ ClaimInv /\ HolderInv
  BY DEF ProviderInv, ReceiptInv, ClaimInv, HolderInv, ClaimOK, Holds
<1>3. StandingInv /\ ReceiptsSettled /\ SettledIsFresh
  BY DEF StandingInv, ReceiptsSettled, SettledWhenReconciled, SettledIsFresh, Settled, SettledStates, SubOf
<1> QED
  BY <1>1, <1>2, <1>3 DEF IInv

-----------------------------------------------------------------------------
(* What the actions do, by the variables they change *)

\* A step of one worker that leaves the tables alone.
LEMMA WorkerMoves ==
    ASSUME IInv, NEW w \in Workers, NEW c \in WorkerState,
           worker' = [worker EXCEPT ![w] = c],
           ClaimOK(c),
           c.pc \notin {"idle", "again"} /\ cursor[c.sub].holder = w => HolderOK(c),
           errand' \in [Events -> {"none", "open", "done"}],
           \A e \in Events : errand'[e] = "open" => errand[e] = "open",
           faults' \in 0..MaxFaults,
           UNCHANGED <<providerVars, ledgerVars, standingVars>>
    PROVE  IInv'
<1> USE DEF IInv, providerVars, ledgerVars, standingVars
<1>1. worker' \in [Workers -> WorkerState]
  BY DEF TypeOK
<1>2. TypeOK'
  BY <1>1 DEF TypeOK
<1>3. \A v \in Workers : worker'[v] = IF v = w THEN c ELSE worker[v]
  BY DEF TypeOK
<1>4. ProviderInv' /\ ReceiptInv'
  BY DEF ProviderInv, ReceiptInv
<1>5. ClaimInv'
  BY <1>3 DEF ClaimInv, ClaimOK
<1>6. HolderInv'
  BY <1>3 DEF HolderInv, HolderOK, Holds
<1>7. StandingInv' /\ ReceiptsSettled' /\ SettledIsFresh'
  BY DEF StandingInv, ReceiptsSettled, SettledWhenReconciled, SettledIsFresh, Settled, SubOf
<1> QED
  BY <1>2, <1>4, <1>5, <1>6, <1>7

\* A run ends: its worker is idle, and it may complete its errand.
LEMMA FinishFacts ==
    ASSUME TypeOK, NEW w \in Workers, NEW success \in BOOLEAN, Finish(w, success)
    PROVE  /\ worker' = [worker EXCEPT ![w] = IdleWorker]
           /\ IdleWorker \in WorkerState
           /\ errand' \in [Events -> {"none", "open", "done"}]
           /\ \A e \in Events : errand'[e] = "open" => errand[e] = "open"
  BY DEF Finish, IdleWorker, WorkerState, Unknown, ProviderState, NoEvent, TypeOK

LEMMA IdleIsOK == ClaimOK(IdleWorker) /\ IdleWorker.pc = "idle"
  BY DEF ClaimOK, IdleWorker

LEMMA LookupInv ==
    ASSUME IInv, NEW w \in Workers, Lookup(w)
    PROVE  IInv'
<1> DEFINE s == worker[w].sub
           c == [worker[w] EXCEPT !.found = provider[s],
                                  !.pc = IF provider[s].org = Nothing THEN "reject" ELSE "complete"]
<1> USE DEF Lookup
<1>1. worker[w] \in WorkerState /\ ClaimOK(worker[w]) /\ worker[w].pc = "lookup"
  BY DEF IInv, TypeOK, ClaimInv
<1>2. s \in Subscriptions /\ provider[s] \in ProviderState
  BY <1>1 DEF ClaimOK, IInv, TypeOK
<1>3. c \in WorkerState
  BY <1>1, <1>2 DEF WorkerState
<1>4. worker' = [worker EXCEPT ![w] = c]
  BY <1>1 DEF IInv, TypeOK, WorkerState
<1>5. /\ c.sub = s /\ c.generation = worker[w].generation /\ c.latest = worker[w].latest
      /\ c.found = provider[s]
      /\ c.pc = (IF provider[s].org = Nothing THEN "reject" ELSE "complete")
  BY <1>1 DEF WorkerState
<1>6. \A e \in Events : sent[e] = s => e <= provider[s].version
  BY <1>2, BillingAssumption DEF IInv, ProviderInv
<1>7. ClaimOK(c)
  <2>1. c.pc = "complete" => provider[s].org \in Orgs
    BY <1>2, <1>5 DEF ProviderState
  <2>2. provider[s].version <= provider[s].version
    BY <1>2 DEF ProviderState, Events, NoEvent
  <2> HIDE DEF c
  <2> QED
    BY <1>1, <1>2, <1>5, <1>6, <2>1, <2>2 DEF ClaimOK
<1>8. cursor[s].holder = w => HolderOK(c)
  <2> SUFFICES ASSUME cursor[s].holder = w PROVE HolderOK(c)
    OBVIOUS
  <2>1. HolderOK(worker[w])
    BY <1>1 DEF IInv, HolderInv, Holds
  <2>2. \A o \in Orgs : projection[o].sub = s => projection[o].version <= provider[s].version
    BY <1>2, BillingAssumption DEF IInv, StandingInv
  <2> HIDE DEF c
  <2> QED
    BY <1>5, <2>1, <2>2 DEF HolderOK
<1>9. /\ errand' \in [Events -> {"none", "open", "done"}]
      /\ \A e \in Events : errand'[e] = "open" => errand[e] = "open"
      /\ faults' \in 0..MaxFaults
      /\ UNCHANGED <<providerVars, ledgerVars, standingVars>>
  BY DEF IInv, TypeOK
<1> HIDE DEF c, s, Lookup
<1> QED
  BY <1>3, <1>4, <1>5, <1>7, <1>8, <1>9, WorkerMoves

\* The worker goes on to release or reject what it claimed.
LEMMA GivesUp ==
    ASSUME IInv, NEW w \in Workers, NEW pc \in {"reject", "release"},
           worker[w].pc \in {"lookup", "complete"},
           worker' = [worker EXCEPT ![w].pc = pc],
           faults' \in 0..MaxFaults,
           UNCHANGED <<providerVars, ledgerVars, standingVars, errand>>
    PROVE  IInv'
<1> DEFINE c == [worker[w] EXCEPT !.pc = pc]
<1>1. worker[w] \in WorkerState /\ ClaimOK(worker[w])
  BY DEF IInv, TypeOK, ClaimInv
<1>2. c \in WorkerState /\ worker' = [worker EXCEPT ![w] = c]
  BY <1>1 DEF IInv, TypeOK, WorkerState
<1>3. /\ c.sub = worker[w].sub /\ c.generation = worker[w].generation
      /\ c.latest = worker[w].latest /\ c.pc = pc
  BY <1>1 DEF WorkerState
<1>4. cursor[worker[w].sub].holder = w => HolderOK(worker[w])
  BY DEF IInv, HolderInv, Holds
<1>5. errand \in [Events -> {"none", "open", "done"}]
  BY DEF IInv, TypeOK
<1> HIDE DEF c
<1>6. ClaimOK(c) /\ (cursor[c.sub].holder = w => HolderOK(c))
  BY <1>1, <1>3, <1>4 DEF ClaimOK, HolderOK
<1> QED
  BY <1>2, <1>5, <1>6, WorkerMoves

LEMMA FaultFacts ==
    ASSUME TypeOK, Fault
    PROVE  faults' \in 0..MaxFaults
  BY BillingAssumption DEF TypeOK, Fault

LEMMA LookupFailsInv ==
    ASSUME IInv, NEW w \in Workers, LookupFails(w) \/ CompleteFails(w)
    PROVE  IInv'
<1>1. faults' \in 0..MaxFaults
  BY FaultFacts DEF IInv, LookupFails, CompleteFails
<1> QED
  BY <1>1, GivesUp DEF LookupFails, CompleteFails

LEMMA FencedInv ==
    ASSUME IInv, NEW w \in Workers, Fenced(w)
    PROVE  IInv'
<1>1. faults' \in 0..MaxFaults
  BY DEF IInv, Fenced, TypeOK
<1> QED
  BY <1>1, FinishFacts, IdleIsOK, WorkerMoves DEF IInv, Fenced

LEMMA WorkerStopsInv ==
    ASSUME IInv, NEW w \in Workers, WorkerStops(w)
    PROVE  IInv'
<1>1. IdleWorker \in WorkerState
  BY DEF IdleWorker, WorkerState, Unknown, ProviderState, NoEvent
<1> QED
  BY <1>1, FaultFacts, IdleIsOK, WorkerMoves DEF IInv, WorkerStops, TypeOK

LEMMA StartIdleInv ==
    ASSUME IInv, NEW e \in Events, StartIdle(e)
    PROVE  IInv'
<1> USE DEF IInv, StartIdle, providerVars, ledgerVars, standingVars
<1>1. TypeOK'
  BY DEF TypeOK
<1>2. ProviderInv' /\ ClaimInv' /\ HolderInv'
  BY DEF ProviderInv, ClaimInv, ClaimOK, HolderInv, HolderOK, Holds
<1>3. ReceiptInv'
  BY DEF ReceiptInv, TypeOK
<1>4. StandingInv' /\ ReceiptsSettled' /\ SettledIsFresh'
  BY DEF StandingInv, ReceiptsSettled, SettledWhenReconciled, SettledIsFresh, Settled, SubOf
<1> QED
  BY <1>1, <1>2, <1>3, <1>4

\* A claim is taken, by a run that starts or one that goes on.
LEMMA ClaimKeeps ==
    ASSUME IInv, NEW w \in Workers, worker[w].pc \in {"idle", "again"},
           NEW e \in Events \cup {NoEvent}, NEW s \in Subscriptions, NEW pass \in Nat,
           Claim(w, e, s, pass),
           UNCHANGED <<providerVars, receipt, standingVars, errand, faults>>
    PROVE  IInv'
<1> DEFINE c == [pc |-> "lookup", event |-> e, sub |-> s, generation |-> cursor[s].generation,
                 latest |-> cursor[s].latest, found |-> Unknown, pass |-> pass]
<1> USE DEF IInv, Claim, Due, providerVars, standingVars
<1>1. /\ cursor[s] \in CursorState
      /\ cursor[s].generation > 0 /\ cursor[s].reconciled < cursor[s].generation
  BY DEF TypeOK, CursorState
<1>2. /\ cursor' \in [Subscriptions -> CursorState]
      /\ \A t \in Subscriptions : /\ cursor'[t].generation = cursor[t].generation
                                  /\ cursor'[t].reconciled = cursor[t].reconciled
                                  /\ cursor'[t].latest = cursor[t].latest
                                  /\ t # s => cursor'[t] = cursor[t]
      /\ cursor'[s].holder = w
  <2> HIDE DEF IInv, Due, providerVars, standingVars
  <2>1. cursor \in [Subscriptions -> CursorState]
    BY DEF IInv, TypeOK
  <2>2. cursor' = [cursor EXCEPT ![s].holder = w, ![s].live = TRUE]
    BY DEF Claim
  <2>3. cursor' = [cursor EXCEPT ![s] = [cursor[s] EXCEPT !.holder = w, !.live = TRUE]]
    BY <2>1, <2>2
  <2> HIDE DEF Claim
  <2>4. [cursor[s] EXCEPT !.holder = w, !.live = TRUE] \in CursorState
    BY <1>1 DEF CursorState
  <2>5. cursor' \in [Subscriptions -> CursorState]
    BY <2>1, <2>3, <2>4
  <2>6. cursor'[s] = [cursor[s] EXCEPT !.holder = w, !.live = TRUE]
    BY <2>1, <2>3
  <2>7. \A t \in Subscriptions : t # s => cursor'[t] = cursor[t]
    BY <2>1, <2>3
  <2>8. /\ cursor'[s].holder = w /\ cursor'[s].generation = cursor[s].generation
        /\ cursor'[s].reconciled = cursor[s].reconciled /\ cursor'[s].latest = cursor[s].latest
    BY <1>1, <2>6 DEF CursorState
  <2> QED
    BY <2>5, <2>7, <2>8
<1>3. c \in WorkerState
  BY <1>1 DEF CursorState, WorkerState, Unknown, ProviderState, NoEvent
<1>4. \A v \in Workers : /\ worker[v] \in WorkerState
                         /\ [worker[v] EXCEPT !.event = NoEvent] \in WorkerState
  BY DEF TypeOK, WorkerState
<1>5. worker' \in [Workers -> WorkerState]
  BY <1>3, <1>4
<1>6. TypeOK'
  BY <1>2, <1>5 DEF TypeOK
<1>7. worker'[w] = c
  OBVIOUS
<1>8. \A v \in Workers \ {w} :
        /\ worker'[v].pc = worker[v].pc /\ worker'[v].sub = worker[v].sub
        /\ worker'[v].generation = worker[v].generation /\ worker'[v].latest = worker[v].latest
        /\ worker'[v].found = worker[v].found
  BY <1>4 DEF WorkerState
<1> HIDE DEF Claim
<1>9. ProviderInv' /\ ReceiptInv'
  BY <1>2 DEF ProviderInv, ReceiptInv
<1>10. ClaimInv'
  <2>1. ClaimOK(worker[w])'
    BY <1>1, <1>2, <1>7 DEF ClaimOK, ReceiptInv
  <2>2. ASSUME NEW v \in Workers \ {w} PROVE ClaimOK(worker[v])'
    BY <1>2, <1>8 DEF ClaimInv, ClaimOK
  <2> QED
    BY <2>1, <2>2 DEF ClaimInv
<1>11. HolderInv'
  <2> SUFFICES ASSUME NEW v \in Workers, Holds(v)' PROVE HolderOK(worker[v])'
    BY DEF HolderInv
  <2>1. CASE v = w
    BY <1>1, <1>2, <1>7, <2>1 DEF HolderOK
  <2>2. CASE v # w
    <3>1. Holds(v) /\ worker[v].sub # s
      BY <1>2, <1>8, <2>2 DEF Holds, ClaimInv, ClaimOK
    <3>2. HolderOK(worker[v]) /\ worker[v].sub \in Subscriptions
      BY <3>1 DEF HolderInv, ClaimInv, ClaimOK, Holds
    <3> QED
      BY <1>2, <1>8, <2>2, <3>2 DEF HolderOK
  <2> QED
    BY <2>1, <2>2
<1>12. StandingInv' /\ SettledIsFresh'
  BY DEF StandingInv, SettledIsFresh, SubOf
<1>13. ReceiptsSettled'
  BY <1>2 DEF ReceiptsSettled, SettledWhenReconciled, Settled, SubOf, ReceiptInv
<1> QED
  BY <1>6, <1>9, <1>10, <1>11, <1>12, <1>13

LEMMA StartInv ==
    ASSUME IInv, NEW w \in Workers, NEW e \in Events, Start(w, e)
    PROVE  IInv'
<1>1. SubOf(e) \in Subscriptions
  BY DEF Start, IInv, ReceiptInv, SubOf
<1> QED
  BY <1>1, ClaimKeeps DEF Start

LEMMA NextPassInv ==
    ASSUME IInv, NEW w \in Workers, NextPass(w)
    PROVE  IInv'
<1> DEFINE s == worker[w].sub
<1>1. /\ worker[w].pc = "again" /\ s \in Subscriptions
      /\ worker[w].event \in Events \cup {NoEvent} /\ worker[w].pass + 1 \in Nat
  BY DEF NextPass, IInv, ClaimInv, ClaimOK, TypeOK, WorkerState
<1>2. CASE Claim(w, worker[w].event, s, worker[w].pass + 1) /\ UNCHANGED errand
  BY <1>1, <1>2, ClaimKeeps DEF NextPass
<1>3. CASE Finish(w, ~Due(s)) /\ UNCHANGED cursor
  <2>1. faults' \in 0..MaxFaults
    BY DEF IInv, NextPass, TypeOK
  <2>2. Due(s) \in BOOLEAN
    BY DEF Due
  <2> QED
    BY <1>3, <2>1, <2>2, FinishFacts, IdleIsOK, WorkerMoves DEF IInv, NextPass, ledgerVars
<1> QED
  BY <1>2, <1>3 DEF NextPass

LEMMA LeaseRunsOutInv ==
    ASSUME IInv, NEW s \in Subscriptions, LeaseRunsOut(s)
    PROVE  IInv'
<1> USE DEF IInv, LeaseRunsOut, providerVars, standingVars, runVars
<1>1. faults' \in 0..MaxFaults
  BY FaultFacts DEF TypeOK
<1>2. /\ cursor' \in [Subscriptions -> CursorState]
      /\ \A t \in Subscriptions : /\ cursor'[t].generation = cursor[t].generation
                                  /\ cursor'[t].reconciled = cursor[t].reconciled
                                  /\ cursor'[t].latest = cursor[t].latest
                                  /\ cursor'[t].holder = cursor[t].holder
  BY DEF TypeOK, CursorState
<1>3. TypeOK'
  BY <1>1, <1>2 DEF TypeOK
<1> HIDE DEF LeaseRunsOut
<1>u. UNCHANGED <<providerVars, receipt, standingVars, runVars>>
  BY DEF LeaseRunsOut
<1>4. ProviderInv' /\ ReceiptInv'
  BY <1>2, <1>u DEF ProviderInv, ReceiptInv
<1>5. ClaimInv'
  BY <1>2, <1>u DEF ClaimInv, ClaimOK
<1>6. HolderInv'
  <2>1. \A v \in Workers : Holds(v)' => Holds(v) /\ worker[v].sub \in Subscriptions
    BY <1>2, <1>u DEF Holds, ClaimInv, ClaimOK
  <2> QED
    BY <1>2, <1>u, <2>1 DEF HolderInv, HolderOK
<1>7. StandingInv' /\ SettledIsFresh'
  BY <1>u DEF StandingInv, SettledIsFresh, SubOf
<1>8. ReceiptsSettled'
  BY <1>2, <1>u DEF ReceiptsSettled, SettledWhenReconciled, Settled, SubOf, ReceiptInv
<1> QED
  BY <1>3, <1>4, <1>5, <1>6, <1>7, <1>8

-----------------------------------------------------------------------------
(* Notifications *)

LEMMA ProviderChangesInv ==
    ASSUME IInv, NEW e \in Events, NEW s \in Subscriptions, NEW org \in Orgs \cup {Nothing},
           NEW live \in BOOLEAN, ProviderChanges(e, s, org, live)
    PROVE  IInv'
<1> USE BillingAssumption DEF IInv, ledgerVars, standingVars, runVars, Events, NoEvent
<1>u. UNCHANGED <<ledgerVars, standingVars, runVars, faults>>
  BY DEF ProviderChanges
<1>1. sent[e] = Nothing /\ \A f \in Events : sent[f] # Nothing => f < e
  BY DEF ProviderChanges
<1>2. /\ sent' \in [Events -> Subscriptions \cup {Nothing}]
      /\ sent'[e] = s /\ \A f \in Events \ {e} : sent'[f] = sent[f]
  BY DEF ProviderChanges, TypeOK
<1>3. /\ provider' \in [Subscriptions -> ProviderState]
      /\ provider'[s].version = e
      /\ \A t \in Subscriptions \ {s} : provider'[t] = provider[t]
  BY DEF ProviderChanges, TypeOK, ProviderState
<1>4. TypeOK'
  BY <1>2, <1>3, <1>u DEF TypeOK
<1>5. \A t \in Subscriptions : provider[t].version < e /\ provider[t].version <= provider'[t].version
  BY <1>1, <1>3 DEF ProviderInv, TypeOK, ProviderState
<1>6. ProviderInv'
  <2>1. \A t \in Subscriptions : provider'[t].version # NoEvent => sent'[provider'[t].version] = t
    BY <1>1, <1>2, <1>3 DEF ProviderInv, TypeOK, ProviderState
  <2>2. \A f \in Events : sent'[f] # Nothing => f <= provider'[sent'[f]].version
    <3> TAKE f \in Events
    <3>1. CASE f = e
      BY <1>2, <1>3, <3>1
    <3>2. CASE f # e /\ sent[f] # Nothing
      <4>1. sent[f] \in Subscriptions /\ f <= provider[sent[f]].version
        BY <3>2 DEF ProviderInv, TypeOK
      <4>2. provider[sent[f]].version \in 0..MaxEvents /\ provider'[sent[f]].version \in 0..MaxEvents
        BY <1>3, <4>1 DEF TypeOK, ProviderState
      <4> QED
        BY <1>2, <1>5, <3>2, <4>1, <4>2
    <3> QED
      BY <1>2, <3>1, <3>2
  <2> QED
    BY <2>1, <2>2 DEF ProviderInv
<1>7. receipt[e].generation = 0
  BY <1>1 DEF ReceiptInv, TypeOK, ReceiptState
<1>8. ReceiptInv'
  BY <1>2, <1>7, <1>u DEF ReceiptInv
<1>9. ClaimInv'
  <2> SUFFICES ASSUME NEW v \in Workers PROVE ClaimOK(worker[v])'
    BY DEF ClaimInv
  <2>1. ClaimOK(worker[v]) /\ worker[v] \in WorkerState
    BY DEF ClaimInv, TypeOK
  <2>2. worker[v].pc = "complete" => worker[v].found.version <= provider'[worker[v].sub].version
    <3>1. worker[v].found.version \in 0..MaxEvents
      BY <2>1 DEF WorkerState, ProviderState
    <3>2. \A t \in Subscriptions : provider[t].version \in 0..MaxEvents /\ provider'[t].version \in 0..MaxEvents
      BY <1>3 DEF TypeOK, ProviderState
    <3> QED
      BY <1>5, <2>1, <3>1, <3>2 DEF ClaimOK
  <2> QED
    BY <1>2, <1>7, <1>u, <2>1, <2>2 DEF ClaimOK
<1>10. HolderInv'
  BY <1>u DEF HolderInv, HolderOK, Holds
<1>11. StandingInv'
  BY <1>3, <1>5, <1>u DEF StandingInv, TypeOK, ProviderState
<1>12. receipt[e].status = "none"
  BY <1>7 DEF ReceiptInv
<1>13. ReceiptsSettled' /\ SettledIsFresh'
  BY <1>2, <1>7, <1>12, <1>u DEF ReceiptsSettled, SettledWhenReconciled, SettledIsFresh, Settled, SubOf
<1> QED
  BY <1>4, <1>6, <1>8, <1>9, <1>10, <1>11, <1>13

LEMMA RequestInv ==
    ASSUME IInv, NEW e \in Events, Request(e)
    PROVE  IInv'
<1> DEFINE s == SubOf(e)
<1> USE DEF IInv, providerVars, standingVars
<1>u. UNCHANGED <<providerVars, standingVars, worker, faults>>
  BY DEF Request
<1>1. /\ s \in Subscriptions /\ sent[e] = s
      /\ receipt[e].generation = 0 /\ receipt[e].status = "none"
  BY DEF Request, TypeOK, SubOf, ReceiptInv
<1>2. cursor[s].generation \in Nat /\ cursor[s].reconciled \in Nat
  BY <1>1 DEF TypeOK, CursorState
<1>3. /\ cursor' \in [Subscriptions -> CursorState]
      /\ cursor'[s].generation = cursor[s].generation + 1 /\ cursor'[s].latest = e
      /\ \A t \in Subscriptions : /\ cursor'[t].reconciled = cursor[t].reconciled
                                  /\ cursor'[t].holder = cursor[t].holder
                                  /\ t # s => cursor'[t] = cursor[t]
  <2>1. cursor[s] \in CursorState /\ cursor \in [Subscriptions -> CursorState]
    BY <1>1 DEF TypeOK
  <2>2. cursor' = [cursor EXCEPT ![s].generation = cursor[s].generation + 1, ![s].latest = e]
    BY DEF Request
  <2> HIDE DEF s
  <2>3. cursor' \in [Subscriptions -> CursorState]
    <3> DEFINE g == cursor[s].generation + 1
    <3>1. g \in Nat
      BY <1>2
    <3> HIDE DEF g
    <3>2. [cursor[s] EXCEPT !.generation = g, !.latest = e] \in CursorState
      BY <2>1, <3>1 DEF CursorState
    <3>3. cursor' = [cursor EXCEPT ![s] = [cursor[s] EXCEPT !.generation = g, !.latest = e]]
      BY <1>1, <2>1, <2>2 DEF g
    <3> QED
      BY <2>1, <3>2, <3>3
  <2>4. \A t \in Subscriptions \ {s} : cursor'[t] = cursor[t]
    BY <1>1, <2>1, <2>2
  <2>5. /\ cursor'[s].generation = cursor[s].generation + 1 /\ cursor'[s].latest = e
        /\ cursor'[s].reconciled = cursor[s].reconciled /\ cursor'[s].holder = cursor[s].holder
    BY <1>1, <2>1, <2>2 DEF CursorState
  <2> QED
    BY <1>1, <2>3, <2>4, <2>5
<1>4. /\ receipt' \in [Events -> ReceiptState]
      /\ receipt'[e].generation = cursor[s].generation + 1 /\ receipt'[e].status = "received"
      /\ \A f \in Events \ {e} : receipt'[f] = receipt[f]
  BY <1>2 DEF Request, TypeOK, ReceiptState
<1>5. /\ errand' \in [Events -> {"none", "open", "done"}]
      /\ \A f \in Events \ {e} : errand'[f] = errand[f]
  BY DEF Request, TypeOK
<1>6. TypeOK'
  BY <1>3, <1>4, <1>5, <1>u DEF TypeOK
<1>7. ProviderInv' /\ StandingInv' /\ SettledIsFresh'
  BY <1>4, <1>u DEF ProviderInv, StandingInv, SettledIsFresh, SubOf
<1>8. \A t \in Subscriptions : /\ cursor[t].generation \in Nat /\ cursor[t].reconciled \in Nat
                               /\ cursor[t].generation <= cursor'[t].generation
  BY <1>2, <1>3 DEF TypeOK, CursorState
<1>9. \A f \in Events : receipt[f].generation \in Nat
  BY DEF TypeOK, ReceiptState
<1>10. ReceiptInv'
  <2>1. \A f \in Events :
         /\ receipt'[f].generation = 0 <=> receipt'[f].status = "none"
         /\ receipt'[f].generation > 0 => /\ sent[f] \in Subscriptions
                                          /\ receipt'[f].generation <= cursor'[sent[f]].generation
         /\ errand'[f] = "open" => receipt'[f].generation > 0
    BY <1>1, <1>2, <1>3, <1>4, <1>5, <1>8, <1>9 DEF ReceiptInv
  <2>2. \A t \in Subscriptions :
         /\ cursor'[t].reconciled <= cursor'[t].generation
         /\ cursor'[t].generation > 0 =>
              /\ cursor'[t].latest \in Events
              /\ sent[cursor'[t].latest] = t
              /\ receipt'[cursor'[t].latest].generation = cursor'[t].generation
    BY <1>1, <1>2, <1>3, <1>4, <1>8 DEF ReceiptInv
  <2> QED
    BY <1>u, <2>1, <2>2 DEF ReceiptInv
<1>11. ClaimInv'
  <2> SUFFICES ASSUME NEW v \in Workers PROVE ClaimOK(worker[v])'
    BY DEF ClaimInv
  <2>1. ClaimOK(worker[v]) /\ worker[v].generation \in Nat
    BY DEF ClaimInv, TypeOK, WorkerState
  <2>2. worker[v].pc \in {"lookup", "complete", "reject", "release"} =>
          /\ worker[v].generation <= cursor'[worker[v].sub].generation
          /\ worker[v].latest # e
          /\ sent[e] = worker[v].sub => worker[v].generation < receipt'[e].generation
    BY <1>1, <1>2, <1>3, <1>4, <1>8, <2>1 DEF ClaimOK
  <2> QED
    BY <1>1, <1>4, <1>9, <1>u, <2>1, <2>2 DEF ClaimOK
<1>12. HolderInv'
  <2>1. \A v \in Workers : Holds(v)' => Holds(v) /\ worker[v].sub \in Subscriptions
    BY <1>3, <1>u DEF Holds, ClaimInv, ClaimOK
  <2> QED
    BY <1>3, <1>u, <2>1 DEF HolderInv, HolderOK
<1>13. ReceiptsSettled'
  BY <1>1, <1>2, <1>3, <1>4, <1>8, <1>u DEF ReceiptsSettled, SettledWhenReconciled, Settled, SettledStates, SubOf, ReceiptInv
<1> QED
  BY <1>6, <1>7, <1>10, <1>11, <1>12, <1>13

-----------------------------------------------------------------------------
(* What a claim's holder commits *)

\* settleReceipts and finishClaim together: the tables stay in step, and no
\* other claim of the subscription survives.
LEMMA Settling ==
    ASSUME IInv, NEW w \in Workers, Holds(w),
           NEW answered \in SettledStates, NEW others \in SettledStates,
           SettleReceipts(w, answered, others), FinishClaim(w),
           UNCHANGED <<providerVars, faults>>
    PROVE  /\ receipt' \in [Events -> ReceiptState]
           /\ cursor' \in [Subscriptions -> CursorState]
           /\ worker' \in [Workers -> WorkerState]
           /\ errand' \in [Events -> {"none", "open", "done"}]
           /\ faults' \in 0..MaxFaults
           /\ ProviderInv' /\ ReceiptInv' /\ ClaimInv' /\ SettledWhenReconciled'
           /\ worker[w].latest \in Covered(w)
           /\ \A e \in Events : receipt'[e].status = (IF e \notin Covered(w) THEN receipt[e].status
                                  ELSE IF e = worker[w].latest THEN answered ELSE others)
           /\ \A v \in Workers : Holds(v)' =>
                /\ v # w /\ Holds(v) /\ worker'[v] = worker[v]
                /\ worker[v].sub # worker[w].sub
                /\ cursor'[worker[v].sub] = cursor[worker[v].sub]
<1> DEFINE s == worker[w].sub
           g == worker[w].generation
<1>1. /\ worker[w] \in WorkerState /\ ClaimOK(worker[w]) /\ HolderOK(worker[w])
      /\ worker[w].pc \in {"lookup", "complete", "reject", "release"}
  BY DEF IInv, TypeOK, ClaimInv, HolderInv, Holds, WorkerState
<1>2. /\ s \in Subscriptions /\ g \in Nat /\ g > 0 /\ g <= cursor[s].generation
      /\ cursor[s] \in CursorState /\ cursor[s].reconciled < g /\ cursor[s].holder = w
      /\ cursor[s].generation \in Nat /\ cursor[s].reconciled \in Nat
  BY <1>1 DEF ClaimOK, HolderOK, IInv, TypeOK, WorkerState, CursorState, Holds
<1>3. \A e \in Events : receipt[e] \in ReceiptState /\ receipt[e].generation \in Nat
  BY DEF IInv, TypeOK, ReceiptState
<1>4. /\ receipt' \in [Events -> ReceiptState]
      /\ \A e \in Events :
           /\ receipt'[e].generation = receipt[e].generation
           /\ receipt'[e].status = (IF e \notin Covered(w) THEN receipt[e].status
                                  ELSE IF e = worker[w].latest THEN answered ELSE others)
  BY <1>3 DEF SettleReceipts, ReceiptState
<1>5. Covered(w) = {e \in Events : sent[e] = s /\ ~Settled(e) /\ receipt[e].generation \in 1..g}
  BY DEF Covered, SubOf
<1>6. worker[w].latest \in Covered(w)
  BY <1>1, <1>2, <1>5 DEF ClaimOK, IInv, ReceiptsSettled, SettledWhenReconciled, SubOf
<1>7. /\ cursor' \in [Subscriptions -> CursorState]
      /\ cursor'[s].generation = cursor[s].generation /\ cursor'[s].latest = cursor[s].latest
      /\ cursor'[s].reconciled = g /\ cursor'[s].holder = Nothing
      /\ \A t \in Subscriptions \ {s} : cursor'[t] = cursor[t]
  <2>1. cursor \in [Subscriptions -> CursorState]
    BY DEF IInv, TypeOK
  <2>2. cursor' = [cursor EXCEPT ![s].holder = Nothing, ![s].live = FALSE, ![s].reconciled = g]
    BY <1>2, <2>1 DEF FinishClaim, CursorState
  <2> HIDE DEF s, g
  <2> QED
    BY <1>2, <2>1, <2>2 DEF CursorState
<1>8. /\ worker' \in [Workers -> WorkerState]
      /\ \A v \in Workers \ {w} : worker'[v] = worker[v]
      /\ \/ worker'[w] = IdleWorker
         \/ worker'[w].pc = "again" /\ worker'[w].sub = s
      /\ errand' \in [Events -> {"none", "open", "done"}]
      /\ \A e \in Events : errand'[e] = "open" => errand[e] = "open"
  <2>1. worker \in [Workers -> WorkerState] /\ errand \in [Events -> {"none", "open", "done"}]
    BY DEF IInv, TypeOK
  <2>2. CASE worker' = [worker EXCEPT ![w].pc = "again"] /\ UNCHANGED errand
    <3>1. [worker[w] EXCEPT !.pc = "again"] \in WorkerState
      BY <1>1 DEF WorkerState
    <3> QED
      BY <1>1, <2>1, <2>2, <3>1 DEF WorkerState
  <2>3. ASSUME NEW success \in BOOLEAN, Finish(w, success)
        PROVE  <1>8!1 /\ <1>8!2 /\ <1>8!3 /\ <1>8!4 /\ <1>8!5
    BY <2>1, <2>3, FinishFacts DEF IInv
  <2>4. (cursor[s].generation > g) \in BOOLEAN
    BY <1>2
  <2> QED
    BY <2>2, <2>3, <2>4 DEF FinishClaim
<1>9. faults' \in 0..MaxFaults /\ UNCHANGED providerVars
  BY DEF IInv, TypeOK
<1> HIDE DEF s, g
<1>10. ProviderInv'
  BY <1>9 DEF IInv, ProviderInv, providerVars
<1>11. ReceiptInv'
  <2>1. \A e \in Events : receipt'[e].status = "none" <=> receipt[e].status = "none"
    <3>1. \A e \in Covered(w) : receipt[e].status # "none"
      BY <1>3, <1>5 DEF IInv, ReceiptInv
    <3> QED
      BY <1>4, <3>1 DEF SettledStates
  <2>2. \A t \in Subscriptions : /\ cursor'[t].generation = cursor[t].generation
                                 /\ cursor'[t].latest = cursor[t].latest
                                 /\ cursor'[t].reconciled = (IF t = s THEN g ELSE cursor[t].reconciled)
    BY <1>7
  <2> QED
    BY <1>2, <1>4, <1>8, <1>9, <2>1, <2>2 DEF IInv, ReceiptInv, providerVars
<1>12. ClaimInv'
  <2> SUFFICES ASSUME NEW v \in Workers PROVE ClaimOK(worker[v])'
    BY DEF ClaimInv
  <2>1. CASE v = w
    BY <1>2, <1>8, <2>1 DEF ClaimOK, IdleWorker
  <2>2. CASE v # w
    <3>1. ClaimOK(worker[v])
      BY DEF IInv, ClaimInv
    <3>2. \A t \in Subscriptions : cursor'[t].generation = cursor[t].generation
      BY <1>7
    <3> QED
      BY <1>4, <1>8, <1>9, <2>2, <3>1, <3>2 DEF ClaimOK, providerVars
  <2> QED
    BY <2>1, <2>2
<1>13. SettledWhenReconciled'
  <2> SUFFICES ASSUME NEW e \in Events, receipt[e].generation > 0
               PROVE  Settled(e)' <=> receipt'[e].generation <= cursor'[sent[e]].reconciled
    BY <1>4, <1>9 DEF SettledWhenReconciled, SubOf, providerVars
  <2>1. sent[e] \in Subscriptions /\ (Settled(e) <=> receipt[e].generation <= cursor[sent[e]].reconciled)
    BY DEF IInv, ReceiptInv, ReceiptsSettled, SettledWhenReconciled, SubOf
  <2>2. CASE sent[e] # s
    BY <1>4, <1>5, <1>7, <2>1, <2>2 DEF Settled
  <2>3. CASE sent[e] = s
    BY <1>2, <1>3, <1>4, <1>5, <1>7, <2>1, <2>3 DEF Settled
  <2> QED
    BY <2>2, <2>3
<1>14. ASSUME NEW v \in Workers, Holds(v)'
       PROVE  /\ v # w /\ Holds(v) /\ worker'[v] = worker[v] /\ worker[v].sub # s
              /\ cursor'[worker[v].sub] = cursor[worker[v].sub]
  <2>1. v # w
    BY <1>8, <1>14 DEF Holds, IdleWorker
  <2>2. worker'[v] = worker[v] /\ worker[v].pc \notin {"idle", "again"} /\ worker[v].sub \in Subscriptions
    BY <1>8, <1>14, <2>1 DEF Holds, IInv, ClaimInv, ClaimOK
  <2>3. worker[v].sub # s
    BY <1>7, <1>14, <2>2, BillingAssumption DEF Holds
  <2> QED
    BY <1>7, <1>14, <2>1, <2>2, <2>3 DEF Holds
<1> QED
  BY <1>4, <1>6, <1>7, <1>8, <1>9, <1>10, <1>11, <1>12, <1>13, <1>14 DEF s

\* A commit that leaves what stands alone.
LEMMA SettlingOnly ==
    ASSUME IInv, NEW w \in Workers, Holds(w),
           NEW status \in {"superseded", "rejected"},
           status = "superseded" =>
              /\ owner[worker[w].sub] # Nothing
              /\ \A o \in Orgs : projection[o].sub # worker[w].sub,
           SettleReceipts(w, status, status), FinishClaim(w),
           UNCHANGED <<providerVars, standingVars, faults>>
    PROVE  IInv'
<1> USE DEF standingVars
<1>0. status \in SettledStates
  BY DEF SettledStates
<1>1. /\ receipt' \in [Events -> ReceiptState]
      /\ cursor' \in [Subscriptions -> CursorState]
      /\ worker' \in [Workers -> WorkerState]
      /\ errand' \in [Events -> {"none", "open", "done"}]
      /\ faults' \in 0..MaxFaults
      /\ ProviderInv' /\ ReceiptInv' /\ ClaimInv' /\ SettledWhenReconciled'
  BY <1>0, Settling
<1>2. \A e \in Events : receipt'[e].status = IF e \in Covered(w) THEN status ELSE receipt[e].status
  BY <1>0, Settling
<1>3. \A v \in Workers : Holds(v)' => /\ Holds(v) /\ worker'[v] = worker[v]
                                      /\ cursor'[worker[v].sub] = cursor[worker[v].sub]
  BY <1>0, Settling
<1>4. UNCHANGED <<providerVars, standingVars>>
  OBVIOUS
<1>5. TypeOK'
  BY <1>1, <1>4 DEF IInv, TypeOK, providerVars
<1>6. HolderInv'
  BY <1>3, <1>4 DEF IInv, HolderInv, HolderOK
<1>7. StandingInv'
  BY <1>4 DEF IInv, StandingInv, providerVars
<1>8. \A e \in Covered(w) : sent[e] = worker[w].sub /\ ~Settled(e)
  BY DEF Covered, SubOf
<1>9. ReceiptsSettled'
  BY <1>1, <1>2, <1>4, <1>8 DEF IInv, ReceiptsSettled, providerVars, Settled, SettledStates
<1>10. SettledIsFresh'
  BY <1>2, <1>4, <1>8 DEF IInv, SettledIsFresh, SubOf, providerVars
<1> QED
  BY <1>1, <1>5, <1>6, <1>7, <1>9, <1>10 DEF IInv

LEMMA RejectClaimInv ==
    ASSUME IInv, NEW w \in Workers, RejectClaim(w)
    PROVE  IInv'
  BY SettlingOnly DEF RejectClaim

\* A subscription that owns the organization's place but does not stand in it
\* stands nowhere.
LEMMA ReplacedStandsNowhere ==
    ASSUME IInv, NEW s \in Subscriptions, NEW org \in Orgs,
           owner[s] = org, projection[org].sub # s
    PROVE  \A o \in Orgs : projection[o].sub # s
  BY BillingAssumption DEF IInv, StandingInv

LEMMA CompleteInv ==
    ASSUME IInv, NEW w \in Workers, Complete(w)
    PROVE  IInv'
<1> DEFINE s == worker[w].sub
           found == worker[w].found
           org == found.org
<1>1. /\ worker[w].pc = "complete" /\ Holds(w)
      /\ worker[w] \in WorkerState /\ ClaimOK(worker[w]) /\ HolderOK(worker[w])
  BY DEF Complete, IInv, TypeOK, ClaimInv, HolderInv
<1>2. /\ s \in Subscriptions /\ org \in Orgs /\ s # Nothing /\ org # Nothing
      /\ found \in ProviderState /\ found.version \in 0..MaxEvents
      /\ worker[w].latest \in Events
  BY <1>1, BillingAssumption DEF ClaimOK, WorkerState, ProviderState, Events, NoEvent
<1>3. CASE Verdict(w) = "superseded" /\ SettleReceipts(w, "superseded", "superseded")
           /\ FinishClaim(w) /\ UNCHANGED <<providerVars, standingVars, faults>>
  <2>1. owner[s] = org /\ projection[org].sub # s
    BY <1>2, <1>3 DEF Verdict
  <2> QED
    BY <1>1, <1>2, <1>3, <2>1, ReplacedStandsNowhere, SettlingOnly
<1>4. CASE /\ Verdict(w) \in {"ownership_conflict", "replacement_conflict"}
           /\ worker' = [worker EXCEPT ![w].pc =
                IF Verdict(w) = "ownership_conflict" THEN "reject" ELSE "release"]
           /\ UNCHANGED <<providerVars, ledgerVars, standingVars, errand, faults>>
  <2>1. faults' \in 0..MaxFaults
    BY <1>4 DEF IInv, TypeOK
  <2> QED
    BY <1>1, <1>4, <2>1, GivesUp
<1>5. CASE /\ Verdict(w) = "applied" /\ Project(w)
           /\ SettleReceipts(w, "processed", "superseded") /\ FinishClaim(w)
           /\ UNCHANGED <<providerVars, faults>>
  <2>0. "processed" \in SettledStates /\ "superseded" \in SettledStates
    BY DEF SettledStates
  <2>1. /\ receipt' \in [Events -> ReceiptState]
        /\ cursor' \in [Subscriptions -> CursorState]
        /\ worker' \in [Workers -> WorkerState]
        /\ errand' \in [Events -> {"none", "open", "done"}]
        /\ faults' \in 0..MaxFaults
        /\ ProviderInv' /\ ReceiptInv' /\ ClaimInv' /\ SettledWhenReconciled'
        /\ worker[w].latest \in Covered(w)
    BY <1>1, <1>5, <2>0, Settling
  <2>2. \A e \in Events : receipt'[e].status = (IF e \notin Covered(w) THEN receipt[e].status
                                  ELSE IF e = worker[w].latest THEN "processed" ELSE "superseded")
    BY <1>1, <1>5, <2>0, Settling
  <2>3. \A v \in Workers : Holds(v)' => /\ Holds(v) /\ worker'[v] = worker[v]
                                        /\ worker[v].sub # s
                                        /\ cursor'[worker[v].sub] = cursor[worker[v].sub]
    BY <1>1, <1>5, <2>0, Settling
  <2>4. owner[s] \in {Nothing, org}
    BY <1>5 DEF Verdict
  <2>5. owner[s] = org => projection[org].sub = s
    BY <1>2, <1>5, <2>4 DEF Verdict, IInv, StandingInv
  <2>6. /\ owner' \in [Subscriptions -> Orgs \cup {Nothing}]
        /\ owner'[s] = org /\ \A t \in Subscriptions \ {s} : owner'[t] = owner[t]
    BY <1>2, <1>5 DEF Project, IInv, TypeOK
  <2>7. /\ projection' \in [Orgs -> [sub : Subscriptions \cup {Nothing}, version : Events \cup {NoEvent}, live : BOOLEAN]]
        /\ projection'[org].sub = s /\ projection'[org].version = found.version
        /\ \A o \in Orgs \ {org} : projection'[o] = projection[o]
    BY <1>2, <1>5 DEF Project, IInv, TypeOK, ProviderState
  <2>8. emitted' = emitted \cup {worker[w].latest}
    BY <1>5 DEF Project
  <2>9. UNCHANGED providerVars
    BY <1>5
  <2>10. \A o \in Orgs \ {org} : projection[o].sub # s
    BY <1>2, <2>4, BillingAssumption DEF IInv, StandingInv
  <2>11. TypeOK'
    BY <1>2, <2>1, <2>6, <2>7, <2>8, <2>9 DEF IInv, TypeOK, providerVars
  <2>12. HolderInv'
    <3> SUFFICES ASSUME NEW v \in Workers, Holds(v)' PROVE HolderOK(worker[v])'
      BY DEF HolderInv
    <3>1. HolderOK(worker[v]) /\ worker[v].sub # s
      BY <2>3 DEF IInv, HolderInv
    <3> QED
      BY <1>2, <2>3, <2>7, <3>1 DEF HolderOK
  <2>13. StandingInv'
    <3>1. found.version <= provider[s].version
      BY <1>1 DEF ClaimOK
    <3>2. ASSUME NEW o \in Orgs, projection'[o].sub # Nothing
          PROVE  /\ owner'[projection'[o].sub] = o
                 /\ projection'[o].version <= provider'[projection'[o].sub].version
      <4>1. CASE o = org
        BY <2>6, <2>7, <2>9, <3>1, <4>1 DEF providerVars
      <4>2. CASE o # org
        <5>1. projection[o].sub \in Subscriptions \ {s}
          BY <2>7, <2>10, <3>2, <4>2 DEF IInv, TypeOK
        <5> QED
          BY <2>6, <2>7, <2>9, <3>2, <4>2, <5>1 DEF IInv, StandingInv, providerVars
      <4> QED
        BY <4>1, <4>2
    <3>3. ASSUME NEW t \in Subscriptions, owner'[t] # Nothing
          PROVE  projection'[owner'[t]].sub # Nothing
      BY <1>2, <2>6, <2>7, <3>3 DEF IInv, StandingInv, TypeOK
    <3> QED
      BY <3>2, <3>3 DEF StandingInv
  <2>14. \A e \in Covered(w) : e \in Events /\ sent[e] = s /\ ~Settled(e) /\ receipt[e].generation \in 1..worker[w].generation
    BY DEF Covered, SubOf
  <2>15. ReceiptsSettled'
    <3> SUFFICES ASSUME NEW e \in Events
                 PROVE  /\ e \in emitted' <=> receipt'[e].status = "processed"
                        /\ receipt'[e].status \in {"processed", "superseded"} => owner'[sent[e]] # Nothing
      BY <2>1, <2>9 DEF ReceiptsSettled, providerVars
    <3>1. CASE e \in Covered(w)
      <4>1. e \notin emitted
        BY <2>14, <3>1 DEF IInv, ReceiptsSettled, Settled, SettledStates
      <4> QED
        BY <1>2, <2>2, <2>6, <2>8, <2>14, <3>1, <4>1
    <3>2. CASE e \notin Covered(w)
      <4>1. e # worker[w].latest /\ receipt'[e].status = receipt[e].status
        BY <2>1, <2>2, <3>2
      <4>2. receipt[e].status \in {"processed", "superseded"} => sent[e] \in Subscriptions
        BY DEF IInv, ReceiptInv, TypeOK, ReceiptState
      <4> QED
        BY <1>2, <2>6, <2>8, <4>1, <4>2 DEF IInv, ReceiptsSettled
    <3> QED
      BY <3>1, <3>2
  <2>16. SettledIsFresh'
    <3> SUFFICES ASSUME NEW e \in Events, NEW o \in Orgs,
                        receipt'[e].status \in {"processed", "superseded"}, projection'[o].sub = sent[e]
                 PROVE  projection'[o].version >= e
      BY <2>9 DEF SettledIsFresh, SubOf, providerVars
    <3>1. CASE o # org
      <4>1. projection[o].sub = sent[e] /\ sent[e] # s /\ projection'[o] = projection[o]
        BY <2>7, <2>10, <3>1
      <4>2. receipt'[e].status = receipt[e].status
        BY <2>2, <2>14, <4>1
      <4> QED
        BY <4>1, <4>2 DEF IInv, SettledIsFresh, SubOf
    <3>2. CASE o = org /\ e \in Covered(w)
      BY <1>1, <2>7, <2>14, <3>2 DEF ClaimOK
    <3>3. CASE o = org /\ e \notin Covered(w)
      <4>1. receipt[e].status \in {"processed", "superseded"} /\ sent[e] = s
        BY <2>2, <2>7, <3>3
      <4>2. owner[s] = org
        BY <2>4, <4>1 DEF IInv, ReceiptsSettled
      <4>3. projection[org].sub = s
        BY <2>5, <4>2
      <4>4. projection[org].version >= e
        BY <1>2, <4>1, <4>3 DEF IInv, SettledIsFresh, SubOf
      <4>5. projection[org].version <= found.version /\ projection[org].version \in 0..MaxEvents
        BY <1>1, <1>2, <4>3, BillingAssumption DEF HolderOK, IInv, TypeOK, Events, NoEvent
      <4> QED
        BY <1>2, <2>7, <3>3, <4>4, <4>5, BillingAssumption DEF Events
    <3> QED
      BY <3>1, <3>2, <3>3
  <2> QED
    BY <2>1, <2>11, <2>12, <2>13, <2>15, <2>16 DEF IInv
<1> QED
  BY <1>3, <1>4, <1>5 DEF Complete

\* The claim is given up: its receipts stay open, whatever their status says.
LEMMA ReleaseFacts ==
    ASSUME IInv, NEW w \in Workers, ReleaseClaim(w)
    PROVE  /\ receipt' \in [Events -> ReceiptState]
           /\ \A e \in Events :
                /\ receipt'[e].generation = receipt[e].generation
                /\ receipt'[e].status = IF e \in Covered(w) THEN "failed" ELSE receipt[e].status
           /\ \A e \in Covered(w) : receipt[e].generation > 0 /\ ~Settled(e)
<1>1. \A e \in Events : receipt[e] \in ReceiptState /\ receipt[e].generation \in Nat
  BY DEF IInv, TypeOK, ReceiptState
<1> QED
  BY <1>1 DEF ReleaseClaim, SettleReceipts, ReceiptState, Covered

LEMMA ReleaseClaimInv ==
    ASSUME IInv, NEW w \in Workers, ReleaseClaim(w)
    PROVE  IInv'
<1> DEFINE s == worker[w].sub
<1>1. /\ worker[w].pc = "release" /\ Holds(w) /\ s \in Subscriptions
      /\ UNCHANGED <<providerVars, standingVars, faults>>
  BY DEF ReleaseClaim, IInv, ClaimInv, ClaimOK
<1>2. /\ receipt' \in [Events -> ReceiptState]
      /\ \A e \in Events :
           /\ receipt'[e].generation = receipt[e].generation
           /\ receipt'[e].status = IF e \in Covered(w) THEN "failed" ELSE receipt[e].status
      /\ \A e \in Covered(w) : receipt[e].generation > 0 /\ ~Settled(e)
  BY ReleaseFacts
<1>3. /\ cursor' \in [Subscriptions -> CursorState]
      /\ \A t \in Subscriptions : /\ cursor'[t].generation = cursor[t].generation
                                  /\ cursor'[t].reconciled = cursor[t].reconciled
                                  /\ cursor'[t].latest = cursor[t].latest
                                  /\ t # s => cursor'[t] = cursor[t]
      /\ cursor'[s].holder = Nothing
  <2>1. cursor \in [Subscriptions -> CursorState]
    BY DEF IInv, TypeOK
  <2>2. cursor' = [cursor EXCEPT ![s].holder = Nothing, ![s].live = FALSE]
    BY DEF ReleaseClaim
  <2> HIDE DEF s
  <2> QED
    BY <1>1, <2>1, <2>2 DEF CursorState
<1>4. /\ worker' = [worker EXCEPT ![w] = IdleWorker]
      /\ IdleWorker \in WorkerState
      /\ errand' \in [Events -> {"none", "open", "done"}]
      /\ \A e \in Events : errand'[e] = "open" => errand[e] = "open"
  BY FinishFacts DEF IInv, ReleaseClaim
<1>5. /\ worker' \in [Workers -> WorkerState] /\ worker'[w] = IdleWorker
      /\ \A v \in Workers \ {w} : worker'[v] = worker[v]
  BY <1>4 DEF IInv, TypeOK
<1> HIDE DEF s
<1>6. TypeOK'
  BY <1>1, <1>2, <1>3, <1>4, <1>5 DEF IInv, TypeOK, providerVars, standingVars
<1>7. ProviderInv' /\ StandingInv'
  BY <1>1 DEF IInv, ProviderInv, StandingInv, providerVars, standingVars
<1>8. \A e \in Events : receipt'[e].status = "none" <=> receipt[e].status = "none"
  BY <1>2 DEF IInv, ReceiptInv
<1>9. ReceiptInv'
  BY <1>1, <1>2, <1>3, <1>4, <1>8 DEF IInv, ReceiptInv, providerVars
<1>10. ClaimInv'
  <2> SUFFICES ASSUME NEW v \in Workers PROVE ClaimOK(worker[v])'
    BY DEF ClaimInv
  <2>1. CASE v = w
    BY <1>5, <2>1 DEF ClaimOK, IdleWorker
  <2>2. CASE v # w
    <3>1. ClaimOK(worker[v])
      BY DEF IInv, ClaimInv
    <3> QED
      BY <1>1, <1>2, <1>3, <1>5, <2>2, <3>1 DEF ClaimOK, providerVars
  <2> QED
    BY <2>1, <2>2
<1>11. HolderInv'
  <2> SUFFICES ASSUME NEW v \in Workers, Holds(v)' PROVE HolderOK(worker[v])'
    BY DEF HolderInv
  <2>1. v # w /\ worker'[v] = worker[v] /\ worker[v].sub \in Subscriptions
    BY <1>5 DEF Holds, IdleWorker, IInv, ClaimInv, ClaimOK
  <2>2. worker[v].sub # s
    BY <1>3, <2>1, BillingAssumption DEF Holds
  <2>3. HolderOK(worker[v])
    BY <1>3, <2>1, <2>2 DEF Holds, IInv, HolderInv
  <2> QED
    BY <1>1, <1>3, <2>1, <2>2, <2>3 DEF HolderOK, standingVars
<1>12. \A e \in Events : Settled(e)' <=> Settled(e)
  BY <1>2 DEF Settled, SettledStates
<1>13. ReceiptsSettled'
  BY <1>1, <1>2, <1>3, <1>12 DEF IInv, ReceiptsSettled, SettledWhenReconciled, SubOf, ReceiptInv, providerVars, standingVars, Settled, SettledStates
<1>14. SettledIsFresh'
  BY <1>1, <1>2 DEF IInv, SettledIsFresh, SubOf, providerVars, standingVars
<1> QED
  BY <1>6, <1>7, <1>9, <1>10, <1>11, <1>13, <1>14 DEF IInv

-----------------------------------------------------------------------------
(* Every step *)

LEMMA StutterInv ==
    ASSUME IInv, UNCHANGED vars
    PROVE  IInv'
<1> USE DEF vars, providerVars, ledgerVars, standingVars, runVars
<1>1. TypeOK' /\ ProviderInv' /\ ReceiptInv'
  BY DEF IInv, TypeOK, ProviderInv, ReceiptInv
<1>2. ClaimInv' /\ HolderInv'
  BY DEF IInv, ClaimInv, ClaimOK, HolderInv, HolderOK, Holds
<1>3. StandingInv' /\ ReceiptsSettled' /\ SettledIsFresh'
  BY DEF IInv, StandingInv, ReceiptsSettled, SettledWhenReconciled, SettledIsFresh, Settled, SubOf
<1> QED
  BY <1>1, <1>2, <1>3 DEF IInv

LEMMA NextInv == IInv /\ [Next]_vars => IInv'
<1> SUFFICES ASSUME IInv, [Next]_vars PROVE IInv'
  OBVIOUS
<1>1. ASSUME NEW e \in Events, NEW s \in Subscriptions, NEW org \in Orgs \cup {Nothing},
             NEW live \in BOOLEAN, ProviderChanges(e, s, org, live)
      PROVE  IInv'
  BY <1>1, ProviderChangesInv
<1>2. ASSUME NEW e \in Events, Request(e) \/ StartIdle(e) PROVE IInv'
  BY <1>2, RequestInv, StartIdleInv
<1>3. ASSUME NEW w \in Workers, NEW e \in Events, Start(w, e) PROVE IInv'
  BY <1>3, StartInv
<1>4. ASSUME NEW w \in Workers, WorkerStep(w) PROVE IInv'
  BY <1>4, NextPassInv, LookupInv, FencedInv, CompleteInv, RejectClaimInv, ReleaseClaimInv DEF WorkerStep
<1>5. ASSUME NEW w \in Workers, LookupFails(w) \/ CompleteFails(w) \/ WorkerStops(w) PROVE IInv'
  BY <1>5, LookupFailsInv, WorkerStopsInv
<1>6. ASSUME NEW s \in Subscriptions, LeaseRunsOut(s) PROVE IInv'
  BY <1>6, LeaseRunsOutInv
<1> QED
  BY <1>1, <1>2, <1>3, <1>4, <1>5, <1>6, StutterInv DEF Next

LEMMA InvariantHolds == Spec => []IInv
  BY InitInv, NextInv, PTL DEF Spec

\* Whatever the interleaving, the variables keep their types, and a claim that
\* may commit is due and has read state no older than all it would settle or
\* replace.
THEOREM HolderStaysCurrent == Spec => []BillingInv
<1>1. IInv => BillingInv
  <2> SUFFICES ASSUME IInv, NEW w \in Workers, Holds(w)
               PROVE  LET s == worker[w].sub IN
                      /\ cursor[s].reconciled < worker[w].generation
                      /\ worker[w].generation <= cursor[s].generation
                      /\ worker[w].pc = "complete" =>
                           /\ \A e \in Covered(w) : e <= worker[w].found.version
                           /\ \A o \in Orgs : projection[o].sub = s =>
                                projection[o].version <= worker[w].found.version
    BY DEF BillingInv, HolderIsCurrent, IInv
  <2>1. worker[w] \in WorkerState /\ ClaimOK(worker[w]) /\ HolderOK(worker[w])
    BY DEF IInv, TypeOK, ClaimInv, HolderInv
  <2>2. worker[w].pc \in {"lookup", "complete", "reject", "release"}
    BY <2>1 DEF Holds, WorkerState
  <2> QED
    BY <2>1, <2>2 DEF ClaimOK, HolderOK, Covered, SubOf
<1> QED
  BY <1>1, InvariantHolds, PTL

\* Receipts are settled exactly up to the generation reconciled.
THEOREM ReceiptsAndCursorAgree == Spec => []SettledWhenReconciled
<1>1. IInv => SettledWhenReconciled
  BY DEF IInv, ReceiptsSettled
<1> QED
  BY <1>1, InvariantHolds, PTL

\* No receipt is settled by state older than the notification it records.
THEOREM SettledStateIsFresh == Spec => []SettledIsFresh
<1>1. IInv => SettledIsFresh
  BY DEF IInv
<1> QED
  BY <1>1, InvariantHolds, PTL

\* Billing events leave exactly for processed receipts, of owned subscriptions.
THEOREM EventsMatchReceipts == Spec => []EventWhenProcessed
<1>1. IInv => EventWhenProcessed
  BY DEF IInv, ReceiptsSettled, EventWhenProcessed, SubOf
<1> QED
  BY <1>1, InvariantHolds, PTL

\* What stands for an organization is a subscription bound to it.
THEOREM OwnersStand == Spec => []StandsForOwner
<1>1. IInv => StandsForOwner
  BY DEF IInv, StandingInv, StandsForOwner
<1> QED
  BY <1>1, InvariantHolds, PTL
-----------------------------------------------------------------------------
(* The contract *)

\* The contract's variables, one notification, organization or subscription
\* at a time.
LEMMA ContractFacts ==
    /\ \A e \in Events :
         /\ about[e] = [sub |-> sent[e], version |-> IF sent[e] = Nothing THEN 0 ELSE e]
         /\ answer[e] = IF receipt[e].generation = 0 THEN "unseen"
                        ELSE IF Settled(e) THEN "settled" ELSE "open"
    /\ \A o \in Orgs : standing[o] = [sub |-> projection[o].sub, version |-> projection[o].version]
    /\ \A s : s \in retired <=> s \in Subscriptions /\ owner[s] # Nothing /\ projection[owner[s]].sub # s
    /\ DOMAIN about = Events /\ DOMAIN answer = Events /\ DOMAIN standing = Orgs
  BY DEF about, answer, standing, retired, SubOf

\* Steps that change none of the tables the contract looks at.
LEMMA ContractStutters ==
    ASSUME UNCHANGED <<sent, standingVars>>,
           \A e \in Events : /\ receipt'[e].generation = receipt[e].generation
                             /\ Settled(e)' <=> Settled(e)
    PROVE  UNCHANGED Contract!contractVars
<1>1. UNCHANGED about
  BY DEF about, SubOf
<1>2. UNCHANGED answer
  BY DEF answer
<1>3. UNCHANGED <<standing, retired>>
  BY DEF standing, retired, standingVars
<1> QED
  BY <1>1, <1>2, <1>3 DEF Contract!contractVars

LEMMA ProviderImplements ==
    ASSUME IInv, NEW e \in Events, NEW s \in Subscriptions, NEW org \in Orgs \cup {Nothing},
           NEW live \in BOOLEAN, ProviderChanges(e, s, org, live)
    PROVE  Contract!Announce(e)
<1>1. /\ sent[e] = Nothing /\ s # Nothing
      /\ sent'[e] = s /\ \A f \in Events \ {e} : sent'[f] = sent[f]
  BY BillingAssumption DEF ProviderChanges, IInv, TypeOK, Events
<1>2. about[e] = [sub |-> Nothing, version |-> 0]
  BY <1>1 DEF about, SubOf
<1>3. about' = [about EXCEPT ![e] = [sub |-> s, version |-> e]]
  <2>1. about'[e] = [sub |-> s, version |-> e]
    BY <1>1 DEF about, SubOf
  <2>2. \A f \in Events \ {e} : about'[f] = about[f]
    BY <1>1 DEF about, SubOf
  <2>3. DOMAIN about = Events /\ DOMAIN about' = Events /\ about' = [f \in Events |-> about'[f]]
    BY DEF about
  <2>4. about = [f \in Events |-> about[f]]
    BY DEF about
  <2> HIDE DEF about
  <2> QED
    BY <2>1, <2>2, <2>3, <2>4
<1>4. about'[e].version = e
  BY <1>1 DEF about, SubOf
<1>5. UNCHANGED <<answer, standing, retired>>
  BY DEF ProviderChanges, ledgerVars, standingVars, answer, standing, retired, Settled
<1> HIDE DEF about, answer, standing, retired
<1> QED
  BY <1>2, <1>3, <1>4, <1>5 DEF Contract!Announce, Contract!Nowhere

LEMMA RequestImplements ==
    ASSUME IInv, NEW e \in Events, Request(e)
    PROVE  Contract!Ask(e)
<1>1. sent[e] # Nothing /\ receipt[e].generation = 0
  BY DEF Request
<1>2. /\ receipt'[e].generation # 0 /\ receipt'[e].status = "received"
      /\ \A f \in Events \ {e} : receipt'[f] = receipt[f]
  <2>1. cursor[SubOf(e)].generation \in Nat
    BY <1>1 DEF IInv, TypeOK, CursorState, SubOf
  <2> QED
    BY <2>1 DEF Request, IInv, TypeOK
<1>3. answer' = [answer EXCEPT ![e] = "open"]
  BY <1>2 DEF answer, Settled, SettledStates
<1>4. answer[e] = "unseen" /\ about[e] # Contract!Nowhere
  BY <1>1 DEF answer, about, SubOf, Contract!Nowhere
<1>5. UNCHANGED <<about, standing, retired>>
  BY DEF Request, providerVars, standingVars, about, standing, retired, SubOf
<1> HIDE DEF about, answer, standing, retired
<1> QED
  BY <1>3, <1>4, <1>5 DEF Contract!Ask

\* Settled receipts of a claim are the contract's settled notifications.
LEMMA SettleImplements ==
    ASSUME IInv, NEW w \in Workers, Holds(w),
           NEW answered \in SettledStates, NEW others \in SettledStates,
           SettleReceipts(w, answered, others), UNCHANGED sent
    PROVE  /\ Covered(w) \in SUBSET Events
           /\ \A e \in Covered(w) : about[e].sub = worker[w].sub /\ about[e].version = e
           /\ Contract!Settle(worker[w].sub, Covered(w))
           /\ UNCHANGED about
<1>1. /\ worker[w].sub \in Subscriptions /\ worker[w].sub # Nothing
      /\ worker[w].generation \in Nat
  BY BillingAssumption DEF Holds, IInv, ClaimInv, ClaimOK, TypeOK, WorkerState
<1>2. \A e \in Covered(w) : /\ e \in Events /\ sent[e] = worker[w].sub /\ ~Settled(e)
                            /\ receipt[e].generation \in 1..worker[w].generation
  BY DEF Covered, SubOf
<1>3. \A e \in Covered(w) : receipt[e].generation # 0
  BY <1>1, <1>2
<1>4. \A e \in Events :
        /\ receipt'[e].generation = receipt[e].generation
        /\ e \in Covered(w) => receipt'[e].status \in SettledStates
        /\ e \notin Covered(w) => receipt'[e] = receipt[e]
  BY DEF SettleReceipts, IInv, TypeOK, ReceiptState
<1>5. answer' = [e \in Events |-> IF e \in Covered(w) THEN "settled" ELSE answer[e]]
  BY <1>3, <1>4 DEF answer, Settled
<1>6. \A e \in Covered(w) : answer[e] = "open"
  BY <1>2, <1>3 DEF answer
<1>7. \A e \in Covered(w) : about[e].sub = worker[w].sub /\ about[e].version = e
  BY <1>1, <1>2 DEF about, SubOf
<1>8. UNCHANGED about
  BY DEF about, SubOf
<1> HIDE DEF about, answer, Covered
<1> QED
  BY <1>2, <1>5, <1>6, <1>7, <1>8 DEF Contract!Settle

LEMMA DismissImplements ==
    ASSUME IInv, NEW w \in Workers, Holds(w), NEW answered \in SettledStates,
           SettleReceipts(w, answered, answered), UNCHANGED <<sent, standingVars>>
    PROVE  Contract!Next
<1>1. /\ Covered(w) \in SUBSET Events /\ worker[w].sub \in Subscriptions
      /\ Contract!Settle(worker[w].sub, Covered(w)) /\ UNCHANGED about
  BY SettleImplements DEF Holds, IInv, ClaimInv, ClaimOK, TypeOK, WorkerState
<1>2. UNCHANGED <<standing, retired>>
  BY DEF standingVars, standing, retired
<1> HIDE DEF about, standing, retired, Covered
<1>3. Contract!Dismiss(worker[w].sub, Covered(w))
  BY <1>1, <1>2 DEF Contract!Dismiss
<1> QED
  BY <1>1, <1>3 DEF Contract!Next

\* An applied claim confirms its subscription for the organization it found.
LEMMA ApplyImplements ==
    ASSUME IInv, NEW w \in Workers, worker[w].pc = "complete", Holds(w), Verdict(w) = "applied",
           Project(w), SettleReceipts(w, "processed", "superseded"), UNCHANGED sent
    PROVE  Contract!Next
<1> DEFINE s == worker[w].sub
           found == worker[w].found
           org == found.org
<1>1. /\ worker[w] \in WorkerState /\ ClaimOK(worker[w]) /\ HolderOK(worker[w])
      /\ s \in Subscriptions /\ org \in Orgs /\ s # Nothing /\ org # Nothing
  BY BillingAssumption DEF IInv, TypeOK, ClaimInv, HolderInv, ClaimOK
<1>2. owner[s] \in {Nothing, org} /\ (owner[s] = org => projection[org].sub = s)
  BY <1>1 DEF Verdict, IInv, StandingInv
<1>3. /\ owner'[s] = org /\ \A t \in Subscriptions \ {s} : owner'[t] = owner[t]
      /\ projection'[org].sub = s /\ projection'[org].version = found.version
      /\ \A o \in Orgs \ {org} : projection'[o] = projection[o]
  BY <1>1 DEF Project, IInv, TypeOK
<1>4. /\ Covered(w) \in SUBSET Events /\ Contract!Settle(s, Covered(w)) /\ UNCHANGED about
      /\ \A e \in Covered(w) : about[e].version = e
  BY SettleImplements DEF SettledStates
<1>5. standing' = [standing EXCEPT ![org] = [sub |-> s, version |-> found.version]]
  BY <1>1, <1>3 DEF standing
<1>6. standing'[org].version = found.version
  BY <1>1, <1>3 DEF standing
<1>7. s \notin retired
  BY <1>2 DEF retired
<1>8. standing[org].sub = s => found.version >= standing[org].version
  <2>1. projection[org].version \in 0..MaxEvents /\ found.version \in 0..MaxEvents
    BY <1>1, BillingAssumption DEF IInv, TypeOK, WorkerState, ProviderState, Events, NoEvent
  <2>2. projection[org].sub = s => projection[org].version <= found.version
    BY <1>1 DEF HolderOK
  <2> QED
    BY <1>1, <2>1, <2>2, BillingAssumption DEF standing
<1>9. \A other \in Orgs \ {org} : standing[other].sub # s
  <2>1. ASSUME NEW other \in Orgs \ {org}, projection[other].sub = s PROVE FALSE
    BY <1>1, <1>2, <2>1, BillingAssumption DEF IInv, StandingInv
  <2> QED
    BY <2>1 DEF standing
<1>10. \A e \in Covered(w) : about[e].version <= found.version
  <2>1. \A e \in Covered(w) : e <= found.version
    BY <1>1 DEF ClaimOK, Covered, SubOf
  <2> QED
    BY <1>4, <2>1
<1>11. standing[org].sub # Nothing => /\ standing[org].sub \in Subscriptions
                                      /\ owner[standing[org].sub] = org
  BY <1>1 DEF standing, IInv, TypeOK, StandingInv
<1>12. standing[org].sub = projection[org].sub
  BY <1>1 DEF standing
<1>13. retired' = retired \cup ({standing[org].sub} \ {s, Nothing})
  <2>1. \A t : t \in retired <=> t \in Subscriptions /\ owner[t] # Nothing /\ projection[owner[t]].sub # t
    BY DEF retired
  <2>2. \A t : t \in retired' <=> t \in Subscriptions /\ owner'[t] # Nothing /\ projection'[owner'[t]].sub # t
    BY DEF retired
  <2>3. s \notin retired'
    BY <1>3, <2>2
  <2>4. ASSUME NEW t \in Subscriptions \ {s}
        PROVE  t \in retired' <=> t \in retired \/ t \in {standing[org].sub} \ {s, Nothing}
    <3>1. t # Nothing /\ owner[t] \in Orgs \cup {Nothing} /\ owner'[t] = owner[t]
      BY <1>3, BillingAssumption DEF IInv, TypeOK
    <3>2. CASE owner[t] = org
      BY <1>1, <1>3, <1>11, <1>12, <2>1, <2>2, <3>1, <3>2
    <3>3. CASE owner[t] # org
      BY <1>1, <1>3, <1>11, <1>12, <2>1, <2>2, <3>1, <3>3
    <3> QED
      BY <3>2, <3>3
  <2> HIDE DEF retired, standing
  <2> QED
    BY <1>7, <1>11, <2>1, <2>2, <2>3, <2>4
<1> HIDE DEF about, standing, retired, Covered, s, org, found
<1>14. Contract!Confirm(org, s, Covered(w))
  BY <1>4, <1>5, <1>6, <1>7, <1>8, <1>9, <1>10, <1>13 DEF Contract!Confirm
<1> QED
  BY <1>1, <1>4, <1>14 DEF Contract!Next, s

LEMMA WorkerImplements ==
    ASSUME IInv, NEW w \in Workers, WorkerStep(w)
    PROVE  Contract!Next \/ UNCHANGED Contract!contractVars
<1> USE DEF providerVars, ledgerVars
<1>1. CASE NextPass(w) \/ Lookup(w) \/ Fenced(w)
  BY <1>1, ContractStutters DEF NextPass, Lookup, Fenced, Settled
<1>2. CASE Complete(w)
  <2>1. CASE Verdict(w) = "applied"
    BY <1>2, <2>1, ApplyImplements DEF Complete
  <2>2. CASE Verdict(w) = "superseded"
    BY <1>2, <2>2, DismissImplements DEF Complete, SettledStates
  <2>3. CASE Verdict(w) \in {"ownership_conflict", "replacement_conflict"}
    BY <1>2, <2>3, ContractStutters DEF Complete, Settled
  <2> QED
    BY <1>2, <2>1, <2>2, <2>3 DEF Complete
<1>3. CASE RejectClaim(w)
  BY <1>3, DismissImplements DEF RejectClaim, SettledStates
<1>4. CASE ReleaseClaim(w)
  <2>1. \A e \in Events : /\ receipt'[e].generation = receipt[e].generation
                          /\ Settled(e)' <=> Settled(e)
    BY <1>4, ReleaseFacts DEF Settled, SettledStates
  <2> QED
    BY <1>4, <2>1, ContractStutters DEF ReleaseClaim
<1> QED
  BY <1>1, <1>2, <1>3, <1>4 DEF WorkerStep

LEMMA NextImplements == IInv /\ [Next]_vars => [Contract!Next]_(Contract!contractVars)
<1> SUFFICES ASSUME IInv, [Next]_vars
             PROVE  Contract!Next \/ UNCHANGED Contract!contractVars
  OBVIOUS
<1> USE DEF providerVars, ledgerVars, runVars
<1>1. ASSUME NEW e \in Events, NEW s \in Subscriptions, NEW org \in Orgs \cup {Nothing},
             NEW live \in BOOLEAN, ProviderChanges(e, s, org, live)
      PROVE  Contract!Next
  BY <1>1, ProviderImplements DEF Contract!Next
<1>2. ASSUME NEW e \in Events, Request(e) PROVE Contract!Next
  BY <1>2, RequestImplements DEF Contract!Next
<1>3. ASSUME NEW e \in Events, StartIdle(e) PROVE UNCHANGED Contract!contractVars
  BY <1>3, ContractStutters DEF StartIdle, Settled
<1>4. ASSUME NEW w \in Workers, NEW e \in Events, Start(w, e)
      PROVE  UNCHANGED Contract!contractVars
  BY <1>4, ContractStutters DEF Start, Settled
<1>5. ASSUME NEW w \in Workers, WorkerStep(w)
      PROVE  Contract!Next \/ UNCHANGED Contract!contractVars
  BY <1>5, WorkerImplements
<1>6. ASSUME NEW w \in Workers, LookupFails(w) \/ CompleteFails(w) \/ WorkerStops(w)
      PROVE  UNCHANGED Contract!contractVars
  BY <1>6, ContractStutters DEF LookupFails, CompleteFails, WorkerStops, Settled
<1>7. ASSUME NEW s \in Subscriptions, LeaseRunsOut(s) PROVE UNCHANGED Contract!contractVars
  BY <1>7, ContractStutters DEF LeaseRunsOut, Settled
<1>8. CASE UNCHANGED vars
  BY <1>8, ContractStutters DEF vars, Settled
<1> QED
  BY <1>1, <1>2, <1>3, <1>4, <1>5, <1>6, <1>7, <1>8 DEF Next

\* Reconciliation implements its contract: what stands for an organization
\* never goes back, a replaced subscription never returns, and notifications
\* are settled by state as new as they are.
THEOREM ReconciliationImplementsContract == Spec => ImplementsContract
<1>1. Init => Contract!Init
  <2> SUFFICES ASSUME Init PROVE Contract!Init
    OBVIOUS
  <2>1. about = [e \in Events |-> Contract!Nowhere]
    BY DEF Init, about, SubOf, Contract!Nowhere
  <2>2. answer = [e \in Events |-> "unseen"]
    BY DEF Init, answer
  <2>3. standing = [o \in Orgs |-> Contract!Nowhere]
    BY DEF Init, standing, Contract!Nowhere
  <2>4. retired = {}
    BY DEF Init, retired
  <2> QED
    BY <2>1, <2>2, <2>3, <2>4 DEF Contract!Init
<1> QED
  BY <1>1, NextImplements, InvariantHolds, PTL DEF Spec, ImplementsContract, Contract!Spec
=============================================================================
