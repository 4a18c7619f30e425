--------------------------- MODULE WebhookDelivery ---------------------------
(***************************************************************************)
(* Native webhook deliveries of one tenant: projected from a committed     *)
(* event, woken through a Queue, claimed under capacity limits, sent,      *)
(* settled by whoever still holds the lease, replayed by an operator,      *)
(* stopped when the payload is erased and expired when the event is past   *)
(* its replay window.                                                      *)
(*                                                                         *)
(* A worker's name is its lease token: its run makes one claim, so no      *)
(* claim is confused with a later one of the same worker.  A row's time    *)
(* (next_attempt_at, or leased_until while it is leased) is only ahead or  *)
(* not.                                                                    *)
(***************************************************************************)
EXTENDS Naturals, FiniteSets

CONSTANTS
    Messages,     \* committed public events, with the message projected from each
    Endpoints,
    Subscribed,   \* the <<message, endpoint>> pairs with a subscription
    Replays,      \* ids for replays
    Workers,
    MaxAttempts,  \* maxAttempts of settleNativeWebhookAttempt
    MaxTenant,    \* maxActivePerTenant
    MaxEndpoint,  \* maxActivePerEndpoint
    MaxFaults,    \* stops, overrun leases and disabled endpoints
    Nothing

Deliveries == Subscribed \cup Replays

ASSUME WebhookAssumption ==
    /\ Subscribed \subseteq Messages \X Endpoints
    /\ Nothing \notin Deliveries \cup Workers
    /\ Subscribed \cap Replays = {}
    /\ IsFiniteSet(Deliveries)
    /\ MaxAttempts \in Nat \ {0} /\ MaxTenant \in Nat \ {0} /\ MaxEndpoint \in Nat \ {0}
    /\ MaxFaults \in Nat

VARIABLES
    inWindow,   \* messages whose event is inside the replay window
    message,    \* message[m]: the webhook_message row
    enabled,    \* the active endpoints
    root,       \* root[d]: the original delivery d is, or replays
    delivery,   \* delivery[d]: the webhook_delivery row
    worker,     \* worker[w]: where runNativeWebhookWakeup is, and its delivery
    claiming,   \* the worker that holds the tenant's advisory lock
    replaying,  \* sources of replays that passed their first checks
    faults

rowVars == <<message, root, delivery>>
runVars == <<worker, claiming>>
vars == <<inWindow, rowVars, enabled, runVars, replaying, faults>>

Terminal == {"succeeded", "dead", "exhausted"}
Active == {"pending", "leased", "retry"}
DeliveryState ==
    [state : {"absent"} \cup Active \cup Terminal,
     ahead : BOOLEAN,                    \* its time is still to come
     holder : Workers \cup {Nothing},    \* leaseToken
     attempts : 0..MaxAttempts]
WorkerState == [pc : {"idle", "expire", "claim", "lease", "load", "settle"},
                on : Deliveries \cup {Nothing}]

TypeOK ==
    /\ inWindow \subseteq Messages
    /\ message \in [Messages -> {"absent", "suppressed", "ready", "redacted"}]
    /\ enabled \subseteq Endpoints
    /\ root \in [Deliveries -> Subscribed \cup {Nothing}]
    /\ delivery \in [Deliveries -> DeliveryState]
    /\ worker \in [Workers -> WorkerState]
    /\ claiming \in Workers \cup {Nothing}
    /\ replaying \subseteq Deliveries
    /\ faults \in 0..MaxFaults

Absent == [state |-> "absent", ahead |-> FALSE, holder |-> Nothing, attempts |-> 0]
Idle == [pc |-> "idle", on |-> Nothing]

Init ==
    /\ inWindow = Messages
    /\ message = [m \in Messages |-> "absent"]
    /\ enabled = Endpoints
    /\ root = [d \in Deliveries |-> IF d \in Subscribed THEN d ELSE Nothing]
    /\ delivery = [d \in Deliveries |-> Absent]
    /\ replaying = {}
    /\ worker = [w \in Workers |-> Idle] /\ claiming = Nothing
    /\ faults = 0

Exists(d) == delivery[d].state # "absent"
MessageOf(d) == root[d][1]
EndpointOf(d) == root[d][2]
Of(m) == {d \in Deliveries : Exists(d) /\ MessageOf(d) = m}
Due(d) == delivery[d].state \in Active /\ ~delivery[d].ahead
Leased(d) == delivery[d].state = "leased" /\ delivery[d].ahead
Fault == faults < MaxFaults /\ faults' = faults + 1

-----------------------------------------------------------------------------
(* Projection, and what happens to endpoints and events *)

Pending == [state |-> "pending", ahead |-> FALSE, holder |-> Nothing, attempts |-> 0]

\* projectCommittedWebhook: the message and one delivery for each subscribed
\* active endpoint commit together, or a suppressed message alone.
Project(m) ==
    /\ m \in inWindow /\ message[m] = "absent"
    /\ \/ /\ message' = [message EXCEPT ![m] = "ready"]
          /\ delivery' = [d \in Deliveries |->
               IF d \in Subscribed /\ d[1] = m /\ d[2] \in enabled THEN Pending ELSE delivery[d]]
       \/ message' = [message EXCEPT ![m] = "suppressed"] /\ UNCHANGED delivery
    /\ UNCHANGED <<inWindow, enabled, root, runVars, replaying, faults>>

EventAges(m) ==
    /\ m \in inWindow
    /\ inWindow' = inWindow \ {m}
    /\ UNCHANGED <<enabled, rowVars, runVars, replaying, faults>>

\* setWebhookEndpointState and disableWebhookEndpoint wait for a claim that
\* holds the endpoint's row.
SetEndpoint(ep) ==
    /\ claiming # Nothing => EndpointOf(worker[claiming].on) # ep
    /\ IF ep \in enabled THEN enabled' = enabled \ {ep} /\ Fault
       ELSE enabled' = enabled \cup {ep} /\ UNCHANGED faults
    /\ UNCHANGED <<inWindow, rowVars, runVars, replaying>>

\* A retry comes due, or a lease runs out: a fault while its holder works.
TimePasses(d) ==
    /\ delivery[d].ahead
    /\ delivery' = [delivery EXCEPT ![d].ahead = FALSE]
    /\ IF \E w \in Workers : worker[w].on = d /\ delivery[d].holder = w THEN Fault ELSE UNCHANGED faults
    /\ UNCHANGED <<inWindow, message, enabled, root, runVars, replaying>>

-----------------------------------------------------------------------------
(* runNativeWebhookWakeup *)

Goto(w, pc) == worker' = [worker EXCEPT ![w].pc = pc]
End(w) == worker' = [worker EXCEPT ![w] = Idle]

\* resolveNativeWebhookWork.  A wake-up may be sent again, be delivered again
\* or be left over, so any delivery may be woken at any time; a run for one
\* that has ended by then changes nothing and is left out.
Wake(w, d) ==
    /\ worker[w].pc = "idle" /\ delivery[d].state \in Active
    /\ MessageOf(d) \in inWindow => EndpointOf(d) \in enabled
    /\ worker' = [worker EXCEPT ![w] =
         [pc |-> IF MessageOf(d) \in inWindow THEN "claim" ELSE "expire", on |-> d]]
    /\ UNCHANGED <<inWindow, enabled, rowVars, claiming, replaying, faults>>

Settleable(d) == delivery[d].state \in {"pending", "retry"} \/ (delivery[d].state = "leased" /\ ~delivery[d].ahead)
Closed(d, state) == [delivery[d] EXCEPT !.state = state, !.ahead = FALSE, !.holder = Nothing]

\* expireNativeWebhookDelivery leaves a live lease to its attempt.
Expire(w) ==
    LET d == worker[w].on IN
    /\ worker[w].pc = "expire"
    /\ delivery' = [delivery EXCEPT ![d] = IF Settleable(d) THEN Closed(d, "exhausted") ELSE @]
    /\ End(w)
    /\ UNCHANGED <<inWindow, enabled, message, root, claiming, replaying, faults>>

Live == {d \in Deliveries : Leased(d)}
LiveOn(ep) == {d \in Live : EndpointOf(d) = ep}

\* Defect: claims count without the tenant's lock.
ClaimUnlocked(w) ==
    LET d == worker[w].on IN
    /\ worker[w].pc = "claim"
    /\ Due(d) /\ EndpointOf(d) \in enabled
    /\ Cardinality(Live) < MaxTenant /\ Cardinality(LiveOn(EndpointOf(d))) < MaxEndpoint
    /\ Goto(w, "lease") /\ claiming' = w
    /\ UNCHANGED <<inWindow, enabled, rowVars, replaying, faults>>

\* claimNativeWebhookDelivery up to its update: under the tenant's lock, the
\* delivery must be due, its endpoint active, and there must be room; without
\* room the wake-up is retried later.
Claim(w) ==
    LET d == worker[w].on IN
    /\ worker[w].pc = "claim" /\ claiming = Nothing
    /\ \/ /\ Due(d) /\ EndpointOf(d) \in enabled
          /\ IF Cardinality(Live) < MaxTenant /\ Cardinality(LiveOn(EndpointOf(d))) < MaxEndpoint
             THEN Goto(w, "lease") /\ claiming' = w
             ELSE End(w) /\ UNCHANGED claiming
       \/ /\ ~Due(d) \/ EndpointOf(d) \notin enabled
          /\ End(w) /\ UNCHANGED claiming
    /\ UNCHANGED <<inWindow, enabled, rowVars, replaying, faults>>

\* Defect: the update does not look at the row again.
LeaseUnchecked(w) ==
    /\ worker[w].pc = "lease"
    /\ delivery' = [delivery EXCEPT ![worker[w].on].state = "leased", ![worker[w].on].ahead = TRUE,
                                    ![worker[w].on].holder = w]
    /\ Goto(w, "load") /\ claiming' = Nothing
    /\ UNCHANGED <<inWindow, enabled, message, root, replaying, faults>>

\* The claim's update, on the condition that the row is still due, and commit.
Lease(w) ==
    LET d == worker[w].on IN
    /\ worker[w].pc = "lease"
    /\ \/ /\ Due(d)
          /\ delivery' = [delivery EXCEPT ![d].state = "leased", ![d].ahead = TRUE, ![d].holder = w]
          /\ Goto(w, "load")
       \/ ~Due(d) /\ End(w) /\ UNCHANGED delivery
    /\ claiming' = Nothing
    /\ UNCHANGED <<inWindow, enabled, message, root, replaying, faults>>

Holds(w) == Leased(worker[w].on) /\ delivery[worker[w].on].holder = w

\* loadNativeWebhookAttempt: the payload, only for the live lease's holder.
Load(w) ==
    LET d == worker[w].on IN
    /\ worker[w].pc = "load"
    /\ IF Holds(w) /\ EndpointOf(d) \in enabled /\ message[MessageOf(d)] = "ready"
       THEN Goto(w, "settle") ELSE End(w)
    /\ UNCHANGED <<inWindow, enabled, rowVars, claiming, replaying, faults>>

Verdicts(d) == {"succeeded", "dead", IF delivery[d].attempts + 1 >= MaxAttempts THEN "exhausted" ELSE "retry"}

\* settleNativeWebhookAttempt: the response counts only under the live lease.
Settle(w) ==
    LET d == worker[w].on IN
    /\ worker[w].pc = "settle"
    /\ \/ /\ Holds(w)
          /\ \E state \in Verdicts(d) :
               delivery' = [delivery EXCEPT ![d] =
                 [state |-> state, ahead |-> state = "retry", holder |-> Nothing, attempts |-> @.attempts + 1]]
       \/ ~Holds(w) /\ UNCHANGED delivery
    /\ End(w)
    /\ UNCHANGED <<inWindow, enabled, message, root, claiming, replaying, faults>>

\* The isolate is evicted, or a call throws: a transaction ends, a lease stays.
WorkerStops(w) ==
    /\ worker[w].pc # "idle" /\ Fault
    /\ worker' = [worker EXCEPT ![w] = Idle]
    /\ claiming' = IF claiming = w THEN Nothing ELSE claiming
    /\ UNCHANGED <<inWindow, enabled, rowVars, replaying>>

-----------------------------------------------------------------------------
(* Recovery, retention, replay *)

\* expireUnprovenNativeWebhookDeliveries.
SweepExpires ==
    LET unproven == {d \in Deliveries : Settleable(d) /\ MessageOf(d) \notin inWindow} IN
    /\ unproven # {}
    /\ delivery' = [d \in Deliveries |-> IF d \in unproven THEN Closed(d, "exhausted") ELSE delivery[d]]
    /\ UNCHANGED <<inWindow, enabled, message, root, runVars, replaying, faults>>

\* Defect: a lease that ran out is not stopped with the payload.
RedactLeavesLeases(m) ==
    /\ message[m] = "ready" /\ \A d \in Of(m) : ~Leased(d)
    /\ message' = [message EXCEPT ![m] = "redacted"]
    /\ delivery' = [d \in Deliveries |->
         IF d \in Of(m) /\ delivery[d].state \in {"pending", "retry"} THEN Closed(d, "dead") ELSE delivery[d]]
    /\ UNCHANGED <<inWindow, enabled, root, runVars, replaying, faults>>

\* redactExpiredWebhookPayloads of one message: not under a live lease, and
\* not while a replay holds one of its rows.
Redact(m) ==
    /\ message[m] = "ready" /\ \A d \in Of(m) : ~Leased(d) /\ d \notin replaying
    /\ message' = [message EXCEPT ![m] = "redacted"]
    /\ delivery' = [d \in Deliveries |->
         IF d \in Of(m) /\ delivery[d].state \in Active THEN Closed(d, "dead") ELSE delivery[d]]
    /\ UNCHANGED <<inWindow, enabled, root, runVars, replaying, faults>>

ReplaysOf(d) == {r \in Replays : Exists(r) /\ root[r] = root[d]}

\* A replay of d, up to the query for a replay that succeeded: d must have
\* failed for good, its payload be kept and its endpoint active.
ReplayChecks(d) ==
    /\ delivery[d].state \in {"dead", "exhausted"} /\ d \notin replaying
    /\ message[MessageOf(d)] = "ready" /\ EndpointOf(d) \in enabled
    /\ \A r \in ReplaysOf(d) : delivery[r].state # "succeeded"
    /\ replaying' = replaying \cup {d}
    /\ UNCHANGED <<inWindow, enabled, rowVars, runVars, faults>>

\* The rest of it: an active replay is returned (the unique index on active
\* replays backs the query), an event past its window refused, and otherwise
\* a new delivery inserted.
ReplayInserts(d) ==
    /\ d \in replaying /\ replaying' = replaying \ {d}
    /\ \/ /\ MessageOf(d) \in inWindow /\ \A r \in ReplaysOf(d) : delivery[r].state \notin Active
          /\ \E r \in Replays :
               /\ ~Exists(r)
               /\ root' = [root EXCEPT ![r] = root[d]]
               /\ delivery' = [delivery EXCEPT ![r] = Pending]
       \/ /\ MessageOf(d) \notin inWindow \/ (\E r \in ReplaysOf(d) : delivery[r].state \in Active)
                                          \/ \A r \in Replays : Exists(r)
          /\ UNCHANGED <<root, delivery>>
    /\ UNCHANGED <<inWindow, enabled, message, runVars, faults>>

-----------------------------------------------------------------------------
WorkerStep(w) == Expire(w) \/ Claim(w) \/ Lease(w) \/ Load(w) \/ Settle(w)

Next ==
    \/ \E m \in Messages : Project(m) \/ EventAges(m) \/ Redact(m)
    \/ \E ep \in Endpoints : SetEndpoint(ep)
    \/ \E d \in Deliveries : TimePasses(d) \/ ReplayChecks(d) \/ ReplayInserts(d)
    \/ SweepExpires
    \/ \E w \in Workers : WorkerStep(w) \/ WorkerStops(w) \/ \E d \in Deliveries : Wake(w, d)

Spec == Init /\ [][Next]_vars

-----------------------------------------------------------------------------
(* Properties *)

\* However claims, settlements, sweeps and time interleave, live leases never
\* exceed the tenant's capacity nor an endpoint's: the claim counts under the
\* tenant's advisory lock, since an endpoint's row lock is not enough.
WithinCapacity ==
    /\ Cardinality(Live) <= MaxTenant
    /\ \A ep \in Endpoints : Cardinality(LiveOn(ep)) <= MaxEndpoint

WebhookInv == TypeOK /\ WithinCapacity

\* A delivery that ended never changes again, whatever claim, attempt, sweep
\* or retention was under way when it ended.
TerminalStays ==
    [][\A d \in Deliveries : delivery[d].state \in Terminal => delivery'[d] = delivery[d]]_vars

\* A delivery has at most one active replay, and only failed ones are replayed.
OneActiveReplay ==
    \A d \in Subscribed :
        /\ \A r, q \in ReplaysOf(d) :
             delivery[r].state \in Active /\ delivery[q].state \in Active => r = q
        /\ ReplaysOf(d) # {} => delivery[d].state \in {"dead", "exhausted"}

\* Once a payload is erased, or was never kept, nothing of the message is
\* still to be sent.
ErasedIsStopped ==
    \A d \in Deliveries :
        delivery[d].state \in Active => message[MessageOf(d)] = "ready"

\* Workers, sweeps and operators hold what they read across statements, and a
\* late one acts on a delivery another has moved on; still the deliveries
\* implement the abstract ones: each attempt and each answer is one the
\* contract allows, in the order it allows.
PhaseOf(row) ==
    IF row.state \notin Active THEN row.state
    ELSE IF ~row.ahead THEN "waiting"
    ELSE IF row.state = "leased" THEN "attempting" ELSE "resting"
standing == [d \in Deliveries |-> [phase |-> PhaseOf(delivery[d]), tries |-> delivery[d].attempts]]

Contract == INSTANCE WebhookContract WITH Originals <- Subscribed, origin <- root
ImplementsContract == Contract!Spec
=============================================================================
