----------------------------- MODULE InfraRunner -----------------------------
(***************************************************************************)
(* Applying approved infrastructure plans to one provider target.  A run   *)
(* is one call of applyPlan: it reserves the target in the control store,  *)
(* creates each resource of its operation's plan through a provider that   *)
(* is not idempotent and may answer late or never, binds the identity by   *)
(* compare-and-swap and journals what it does, so that a later run of the  *)
(* operation can resume.                                                   *)
(*                                                                         *)
(* A run's name is its holder and stands for its fencing token: it always  *)
(* uses the last token it was given, and only it was given that one.  The  *)
(* order of a plan's resources is left open.  No run is given              *)
(* --allow-duplicate, and resources declare no plan and no credentials.    *)
(***************************************************************************)
EXTENDS Naturals, Sequences, FiniteSets

CONSTANTS
    Operations,
    Resources,
    Plan,        \* Plan[op]: the resources op was approved to create
    Runs,
    OperationOf, \* OperationOf[r]: the operation r applies or resumes
    MaxCalls,    \* creates sent to the provider
    MaxFaults,   \* runs that stop, answers lost and leases that lapse
    Nothing

CallIds == 1..MaxCalls
CallRow == [op : Operations, resource : Resources, at : {"sent", "made", "refused"}]
ReservationRow == [holder : Runs, live : BOOLEAN, uncertain : BOOLEAN, inflight : {0} \cup CallIds]
Bound == [id : CallIds, by : Operations]

ASSUME InfraAssumption ==
    /\ Plan \in [Operations -> SUBSET Resources]
    /\ OperationOf \in [Runs -> Operations]
    /\ MaxCalls \in Nat \ {0} /\ MaxFaults \in Nat
    /\ Nothing \notin Resources \cup ReservationRow \cup Bound

VARIABLES
    calls,       \* the creates sent so far, in order
    reservation, \* the reservations row of the target
    binding,     \* the binding's resources in the last committed generation
    generation,
    started,     \* started[op]: resources with an intent or bound event
    completed,   \* completed[op]: resources with a completed event
    run,         \* run[r]: where applyPlan is, and what it read
    faults,
    stray        \* calls whose mark a run removed that could not know of them

storeVars == <<reservation, binding, generation, started, completed>>
vars == <<calls, storeVars, run, stray, faults>>

BindingType == [Resources -> Bound \cup {Nothing}]
Unbound == [q \in Resources |-> Nothing]
Idle == [pc |-> "idle", todo |-> {}, on |-> Nothing, unknown |-> {}, seen |-> {}, complete |-> FALSE,
         confirmed |-> FALSE, upto |-> 0, base |-> Unbound, generation |-> 0, call |-> 0]
Ended == [Idle EXCEPT !.pc = "ended"]

RunRow ==
    [pc : {"idle", "observe", "resume", "reserve", "reconcile", "again", "doubt", "check", "intent",
           "begin", "wait", "retry", "bind", "commit", "record", "release", "giveup", "ended"},
     todo : SUBSET Resources,                 \* pending, after the resource in hand
     on : Resources \cup {Nothing},           \* the resource in hand
     unknown : SUBSET Resources,              \* started and unfinished, in the journal read
     seen : SUBSET CallIds, complete : BOOLEAN, \* the observation: what it listed, and whether all
     confirmed : BOOLEAN,                     \* --confirm-absent
     upto : 0..MaxCalls,                      \* the calls begun when the run started
     base : BindingType, generation : Nat,    \* the binding read last
     call : {0} \cup CallIds]                 \* the call that made, or may make, the resource

TypeOK ==
    /\ calls \in Seq(CallRow) /\ Len(calls) <= MaxCalls
    /\ reservation \in ReservationRow \cup {Nothing}
    /\ binding \in BindingType
    /\ generation \in Nat
    /\ started \in [Operations -> SUBSET Resources]
    /\ completed \in [Operations -> SUBSET Resources]
    /\ run \in [Runs -> RunRow]
    /\ stray \subseteq CallIds
    /\ faults \in 0..MaxFaults

Init ==
    /\ calls = <<>>
    /\ reservation = Nothing
    /\ binding = Unbound /\ generation = 0
    /\ started = [op \in Operations |-> {}] /\ completed = started
    /\ run = [r \in Runs |-> Idle]
    /\ stray = {} /\ faults = 0

\* What an observation lists under a resource's name.
Made == {c \in DOMAIN calls : calls[c].at = "made"}
Named(listed, q) == {c \in listed : calls[c].resource = q}
Goto(r, pc) == run' = [run EXCEPT ![r].pc = pc]
Fault == faults < MaxFaults /\ faults' = faults + 1
End(r) == run' = [run EXCEPT ![r] = Ended]

-----------------------------------------------------------------------------
(* The control store *)

Held(r) == reservation # Nothing /\ reservation.holder = r

\* decideReserve: the target is free, the holder's own, or abandoned with nothing
\* in flight; or it is held by another; or else it is uncertain, and marked so.
Renewable(r) == Held(r) /\ ~reservation.uncertain /\ (reservation.live \/ reservation.inflight = 0)
\* Defect: a lapsed lease is taken over whatever was in flight.
AbandonedInFlight(r) ==
    reservation # Nothing /\ ~Held(r) /\ ~reservation.uncertain /\ ~reservation.live
Abandoned(r) ==
    /\ reservation # Nothing /\ ~Held(r) /\ ~reservation.uncertain
    /\ ~reservation.live /\ reservation.inflight = 0
Acquirable(r) == reservation = Nothing \/ Renewable(r) \/ Abandoned(r)
Busy(r) == reservation # Nothing /\ ~Held(r) /\ ~reservation.uncertain /\ reservation.live
Unsure(r) == ~Acquirable(r) /\ ~Busy(r)
Acquire(r) ==
    reservation' = IF reservation # Nothing /\ Held(r)
                     THEN [reservation EXCEPT !.live = TRUE]
                     ELSE [holder |-> r, live |-> TRUE, uncertain |-> FALSE, inflight |-> 0]

\* Defect: an effect begins without its caller's fencing token being the current one.
EffectAllowedUnfenced(r) ==
    reservation # Nothing /\ ~reservation.uncertain /\ reservation.live /\ reservation.inflight = 0
\* assertEffectAllowed
EffectAllowed(r) == Held(r) /\ ~reservation.uncertain /\ reservation.live /\ reservation.inflight = 0
\* completeEffect
Completable(r) == Held(r) /\ reservation.inflight = run[r].call
\* release: refused for another's, an uncertain or an in-flight reservation.
Releasable(r) == Held(r) /\ ~reservation.uncertain /\ reservation.inflight = 0
MarkUncertain(r) == reservation' = IF Held(r) THEN [reservation EXCEPT !.uncertain = TRUE] ELSE reservation

-----------------------------------------------------------------------------
(* A run *)

\* applyPlan reads the binding: only its own operation may have bound resources
\* since the plan.  An operator who confirms that nothing is pending is right then.
Start(r) ==
    /\ run[r].pc = "idle"
    /\ IF \E q \in Resources : binding[q] # Nothing /\ binding[q].by # OperationOf[r] THEN End(r)
         ELSE \E confirmed \in BOOLEAN :
              /\ confirmed => /\ started[OperationOf[r]] # {}
                              /\ \A c \in DOMAIN calls : calls[c].at # "sent"
              /\ run' = [run EXCEPT ![r].pc = "observe", ![r].base = binding, ![r].confirmed = confirmed,
                                    ![r].upto = IF confirmed THEN Len(calls) ELSE 0]
    /\ UNCHANGED <<calls, storeVars, stray, faults>>

\* The provider lists what it has made.
Observe(r) ==
    /\ run[r].pc = "observe"
    /\ run' = [run EXCEPT ![r].pc = "resume", ![r].seen = Made] \/ End(r)
    /\ UNCHANGED <<calls, storeVars, stray, faults>>

\* resumeContext: an unbound resource of the name blocks the plan, unless the
\* journal says that this operation may have made it.  A listing with anything
\* pending is incomplete, which only matters to a resume.
Resume(r) ==
    LET op == OperationOf[r]
        unknown == started[op] \ completed[op]
        pending == Plan[op] \ completed[op]
        blocked == \E q \in pending \ unknown : run[r].base[q] = Nothing /\ Named(run[r].seen, q) # {}
    IN  /\ run[r].pc = "resume"
        /\ IF blocked \/ pending = {} THEN End(r)
             ELSE \E complete \in BOOLEAN :
                  /\ complete \/ unknown # {}
                  /\ run' = [run EXCEPT ![r].pc = "reserve", ![r].unknown = unknown, ![r].todo = pending,
                                        ![r].complete = complete]
        /\ UNCHANGED <<calls, storeVars, stray, faults>>

\* The resource an interrupted attempt of the operation left: bound by it, or listed.
Earlier(r, q) ==
    IF q \notin run[r].unknown THEN {}
    ELSE IF run[r].base[q] # Nothing /\ run[r].base[q].by = OperationOf[r] THEN {run[r].base[q].id}
    ELSE Named(run[r].seen, q)

\* executeCreate with the reservation: an earlier attempt is finished, or cannot be
\* ruled out, or there was none.
Proceed(r, q) ==
    LET at(pc, c) == [run EXCEPT ![r].pc = pc, ![r].on = q, ![r].todo = @ \ {q}, ![r].call = c]
    IN  \/ \E c \in Earlier(r, q) : run' = at("bind", c)
        \/ /\ Earlier(r, q) = {}
           /\ run' = at(IF q \in run[r].unknown /\ ~run[r].complete THEN "doubt" ELSE "check", 0)

\* An uncertain target is reconciled when the listing shows an unbound resource of the
\* name, or shows none and the operator vouches that no request can complete.
Reconcilable(r, q) ==
    LET match == Named(run[r].seen, q)
        bound == {run[r].base[p].id : p \in {p \in Resources : run[r].base[p] # Nothing}}
    IN  IF q \notin run[r].unknown THEN {}
        ELSE IF match # {} THEN match \ bound
        ELSE IF run[r].complete /\ run[r].confirmed THEN {0} ELSE {}

Reserve(r, q) ==
    /\ run[r].pc = "reserve" /\ q \in run[r].todo
    /\ \/ Acquirable(r) /\ Acquire(r) /\ Proceed(r, q)
       \/ Busy(r) /\ End(r) /\ UNCHANGED reservation
       \/ /\ Unsure(r)
          /\ reservation' = [reservation EXCEPT !.uncertain = TRUE]
          /\ \/ \E c \in Reconcilable(r, q) :
                  run' = [run EXCEPT ![r].pc = "reconcile", ![r].on = q, ![r].todo = @ \ {q}, ![r].call = c]
             \/ Reconcilable(r, q) = {} /\ End(r)
    /\ UNCHANGED <<calls, binding, generation, started, completed, stray, faults>>

\* reconcile deletes whatever reservation is there.  Its call is stray when the run
\* identified another call's resource, or was vouched for before the call was sent.
Reconcile(r) ==
    /\ run[r].pc = "reconcile"
    /\ reservation' = Nothing
    /\ stray' = stray \cup
         {c \in DOMAIN calls : /\ reservation # Nothing /\ reservation.inflight = c
                               /\ c # run[r].call /\ (run[r].call = 0 => c > run[r].upto)}
    /\ Goto(r, "again")
    /\ UNCHANGED <<calls, binding, generation, started, completed, faults>>

\* The second reserve, after reconciliation or between attempts; any answer but
\* "acquired" ends the run.
Goon(r) == IF run[r].pc = "again" /\ run[r].call # 0 THEN "bind" ELSE "check"
ReserveAgain(r) ==
    /\ run[r].pc \in {"again", "retry"}
    /\ \/ Acquirable(r) /\ Acquire(r) /\ run' = [run EXCEPT ![r].pc = Goon(r)]
       \/ Busy(r) /\ End(r) /\ UNCHANGED reservation
       \/ Unsure(r) /\ End(r) /\ reservation' = [reservation EXCEPT !.uncertain = TRUE]
    /\ UNCHANGED <<calls, binding, generation, started, completed, stray, faults>>

Doubt(r) ==
    /\ run[r].pc = "doubt"
    /\ MarkUncertain(r) /\ End(r)
    /\ UNCHANGED <<calls, binding, generation, started, completed, stray, faults>>

\* The last-moment check for a resource of the name.
Check(r) ==
    /\ run[r].pc = "check"
    /\ \/ Named(Made, run[r].on) = {} /\ Goto(r, "intent")
       \/ Goto(r, "giveup")
    /\ UNCHANGED <<calls, storeVars, stray, faults>>

Intent(r) ==
    /\ run[r].pc = "intent"
    /\ started' = [started EXCEPT ![OperationOf[r]] = @ \cup {run[r].on}]
    /\ Goto(r, "begin")
    /\ UNCHANGED <<calls, reservation, binding, generation, completed, stray, faults>>

\* beginEffect, then the call leaves; a refused begin throws out of the run.
Begin(r) ==
    /\ run[r].pc = "begin"
    /\ \/ /\ EffectAllowed(r) /\ Len(calls) < MaxCalls
          /\ reservation' = [reservation EXCEPT !.inflight = Len(calls) + 1]
          /\ calls' = Append(calls, [op |-> OperationOf[r], resource |-> run[r].on, at |-> "sent"])
          /\ run' = [run EXCEPT ![r].pc = "wait", ![r].call = Len(calls) + 1]
       \/ ~EffectAllowed(r) /\ End(r) /\ UNCHANGED <<calls, reservation>>
    /\ UNCHANGED <<binding, generation, started, completed, stray, faults>>

\* The provider carries the create out, or refuses or never gets it, at its own time.
Provide(c) ==
    /\ c \in DOMAIN calls /\ calls[c].at = "sent"
    /\ \E at \in {"made", "refused"} : calls' = [calls EXCEPT ![c].at = at]
    /\ UNCHANGED <<storeVars, run, stray, faults>>

\* A definite answer completes the effect: made (with or without an identity in the
\* answer), or refused, which a run tries again or gives up on.
Answer(r) ==
    /\ run[r].pc = "wait"
    /\ \/ /\ Completable(r)
          /\ reservation' = [reservation EXCEPT !.inflight = 0]
          /\ \/ calls[run[r].call].at = "made" /\ \E pc \in {"bind", "doubt"} : Goto(r, pc)
             \/ calls[run[r].call].at = "refused" /\ \E pc \in {"retry", "giveup"} : Goto(r, pc)
       \/ /\ ~Completable(r)
          /\ calls[run[r].call].at # "sent"
          /\ End(r) /\ UNCHANGED reservation
    /\ UNCHANGED <<calls, binding, generation, started, completed, stray, faults>>

\* mutate times out or loses the answer: the effect stays in flight.
AnswerLost(r) ==
    /\ run[r].pc = "wait"
    /\ Goto(r, "doubt")
    /\ Fault
    /\ UNCHANGED <<calls, storeVars, stray>>

\* finishCreate
Bind(r) ==
    LET bound == binding[run[r].on]
        next == IF bound = Nothing THEN "commit" ELSE IF bound.id = run[r].call THEN "record" ELSE "doubt"
    IN  /\ run[r].pc = "bind"
        /\ run' = [run EXCEPT ![r].pc = next, ![r].base = binding, ![r].generation = generation]
        /\ UNCHANGED <<calls, storeVars, stray, faults>>

\* Defect: a binding is committed over a newer generation.
CommitOver(r) ==
    LET next == [run[r].base EXCEPT ![run[r].on] = [id |-> run[r].call, by |-> OperationOf[r]]]
    IN  /\ run[r].pc = "commit"
        /\ binding' = next /\ generation' = generation + 1
        /\ run' = [run EXCEPT ![r].pc = "record", ![r].base = next]
        /\ UNCHANGED <<calls, reservation, started, completed, stray, faults>>

\* Defect: a commit that lost its generation is taken for done.
CommitIgnored(r) ==
    /\ run[r].pc = "commit"
    /\ IF generation = run[r].generation
         THEN /\ binding' = [run[r].base EXCEPT ![run[r].on] = [id |-> run[r].call, by |-> OperationOf[r]]]
              /\ generation' = generation + 1
         ELSE UNCHANGED <<binding, generation>>
    /\ Goto(r, "record")
    /\ UNCHANGED <<calls, reservation, started, completed, stray, faults>>

\* commitGeneration writes the whole binding; a conflict throws out of the run.
Commit(r) ==
    LET next == [run[r].base EXCEPT ![run[r].on] = [id |-> run[r].call, by |-> OperationOf[r]]]
    IN  /\ run[r].pc = "commit"
        /\ \/ /\ generation = run[r].generation
              /\ binding' = next /\ generation' = generation + 1
              /\ run' = [run EXCEPT ![r].pc = "record", ![r].base = next]
           \/ generation # run[r].generation /\ End(r) /\ UNCHANGED <<binding, generation>>
        /\ UNCHANGED <<calls, reservation, started, completed, stray, faults>>

Record(r) ==
    /\ run[r].pc = "record"
    /\ started' = [started EXCEPT ![OperationOf[r]] = @ \cup {run[r].on}]
    /\ completed' = [completed EXCEPT ![OperationOf[r]] = @ \cup {run[r].on}]
    /\ Goto(r, "release")
    /\ UNCHANGED <<calls, reservation, binding, generation, stray, faults>>

\* The release after a bound resource, and the one a run gives up with.
Release(r) ==
    /\ run[r].pc \in {"release", "giveup"}
    /\ reservation' = IF Releasable(r) THEN Nothing ELSE reservation
    /\ IF run[r].pc = "release" /\ (Releasable(r) \/ reservation = Nothing) /\ run[r].todo # {}
         THEN run' = [run EXCEPT ![r].pc = "reserve", ![r].on = Nothing, ![r].call = 0]
         ELSE End(r)
    /\ UNCHANGED <<calls, binding, generation, started, completed, stray, faults>>

RunStops(r) ==
    /\ run[r].pc \notin {"idle", "ended"}
    /\ End(r)
    /\ Fault
    /\ UNCHANGED <<calls, storeVars, stray>>

LeaseLapses ==
    /\ reservation # Nothing /\ reservation.live
    /\ reservation' = [reservation EXCEPT !.live = FALSE]
    /\ Fault
    /\ UNCHANGED <<calls, binding, generation, started, completed, run, stray>>

-----------------------------------------------------------------------------
RunStep(r) ==
    \/ Start(r) \/ Observe(r) \/ Resume(r)
    \/ \E q \in Resources : Reserve(r, q)
    \/ Reconcile(r) \/ ReserveAgain(r) \/ Doubt(r)
    \/ Check(r) \/ Intent(r) \/ Begin(r) \/ Answer(r) \/ AnswerLost(r)
    \/ Bind(r) \/ Commit(r) \/ Record(r) \/ Release(r)
    \/ RunStops(r)

Next ==
    \/ \E r \in Runs : RunStep(r)
    \/ \E c \in CallIds : Provide(c)
    \/ LeaseLapses

Spec == Init /\ [][Next]_vars

-----------------------------------------------------------------------------
\* Types, and that a create that may still be carried out is marked in flight in the reservation, so
\* no other create of the target can begin, unless a reconciliation that could not
\* know of it took the mark away (rules.ts, decideReserve and assertEffectAllowed).
Fenced ==
    \A c \in DOMAIN calls : calls[c].at = "sent" =>
        \/ c \in stray
        \/ reservation # Nothing /\ reservation.inflight = c
InfraInv == TypeOK /\ Fenced

\* The provider makes a second resource of a name only around a stray call, whoever
\* stopped, timed out, lost its lease or resumed (the last-moment check of
\* executeCreate is made good by the fencing token).
NoDuplicate ==
    \A c, d \in Made : c # d /\ calls[c].resource = calls[d].resource => {c, d} \cap stray # {}

\* What the journal calls completed is bound to a resource the provider made, and
\* what was made and is not bound is listed in its operation's journal as unfinished,
\* so that a resume finds it (resumeContext).
NothingLost ==
    /\ \A op \in Operations : \A q \in completed[op] : binding[q] # Nothing
    /\ \A q \in Resources : binding[q] # Nothing => binding[q].id \in Named(Made, q)
    /\ \A c \in Made : calls[c].resource \in started[calls[c].op]

\* A committed binding is never replaced or dropped: of two runs that commit from the
\* same generation one fails (commitGeneration).
BindingStays ==
    [][\A q \in Resources : binding[q] # Nothing => binding'[q] = binding[q]]_vars

\* However runs interleave, stop and resume, what they do to the journal, the provider
\* and the binding is what the contract allows: only approved and journaled resources
\* are made, once but for stray calls, and bound for good (executeCreate, finishCreate).
Contract == INSTANCE InfraContract WITH
    Creates <- CallIds, journal <- started, bound <- binding, done <- completed, excused <- stray,
    made <- {[id |-> c, op |-> calls[c].op, resource |-> calls[c].resource] : c \in Made}
ImplementsContract == Contract!Spec
=============================================================================
