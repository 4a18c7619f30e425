----------------------- MODULE WebhookDeliveryProofs -----------------------
(***************************************************************************)
(* Proofs about webhook deliveries for every number of messages,           *)
(* endpoints, replays and workers, and for every capacity.                 *)
(***************************************************************************)
EXTENDS WebhookDelivery, FiniteSetTheorems, TLAPS

-----------------------------------------------------------------------------
(* The inductive invariant *)

\* A row stands for one original delivery, whose message was projected; an
\* active one can still be attempted, and a replay's original failed.
RowOK(d) ==
    /\ delivery[d].ahead => delivery[d].state \in {"leased", "retry"}
    /\ d \in Subscribed => root[d] = d
    /\ Exists(d) => root[d] \in Subscribed /\ message[MessageOf(d)] \in {"ready", "redacted"}
    /\ delivery[d].state \in Active => /\ message[MessageOf(d)] = "ready"
                                       /\ delivery[d].attempts < MaxAttempts
    /\ d \in Replays /\ Exists(d) => delivery[root[d]].state \in {"dead", "exhausted"}

RowsInv == \A d \in Deliveries : RowOK(d)

ReplayingInv ==
    \A d \in replaying : delivery[d].state \in {"dead", "exhausted"} /\ message[MessageOf(d)] = "ready"

OneActive ==
    \A r, q \in Replays :
        /\ delivery[r].state \in Active /\ delivery[q].state \in Active
        /\ root[r] = root[q]
        => r = q

\* A worker that counted and has not written yet holds the tenant's lock, and
\* there is still room for its lease.
ClaimOK(w) ==
    /\ worker[w].pc # "idle" => worker[w].on \in Deliveries /\ Exists(worker[w].on)
    /\ worker[w].pc = "lease" =>
         /\ claiming = w
         /\ Cardinality(Live) < MaxTenant
         /\ Cardinality(LiveOn(EndpointOf(worker[w].on))) < MaxEndpoint

ClaimsInv == \A w \in Workers : ClaimOK(w)

IInv == TypeOK /\ RowsInv /\ ReplayingInv /\ OneActive /\ ClaimsInv /\ WithinCapacity

-----------------------------------------------------------------------------
(* Frames: what a step of each kind keeps *)

\* An active row goes on or ends; any other keeps its value.
Moved(d) ==
    \/ delivery'[d] = delivery[d]
    \/ /\ delivery[d].state \in Active
       /\ delivery'[d].state \in Active \cup Terminal
       /\ delivery'[d].ahead => delivery'[d].state \in {"leased", "retry"}
       /\ delivery'[d].state \in Active => delivery'[d].attempts < MaxAttempts

LEMMA LiveFinite ==
    /\ IsFiniteSet(Live) /\ Cardinality(Live) \in Nat
    /\ \A ep : IsFiniteSet(LiveOn(ep)) /\ Cardinality(LiveOn(ep)) \in Nat
<1>1. Live \subseteq Deliveries /\ \A ep : LiveOn(ep) \subseteq Deliveries
  BY DEF Live, LiveOn
<1> QED
  BY <1>1, FS_Subset, FS_CardinalityType, WebhookAssumption

\* Steps that move rows keep every fact about rows.
LEMMA RowsMove ==
    ASSUME IInv, root' = root, \A d \in Deliveries : Moved(d),
           \A m \in Messages : message[m] \in {"ready", "redacted"} => message'[m] \in {"ready", "redacted"},
           \A d \in Deliveries : delivery'[d].state \in Active => message'[root[d][1]] = "ready",
           \A d \in replaying' : \/ d \in replaying /\ message'[root[d][1]] = "ready"
                                 \/ /\ d \in Deliveries /\ delivery[d].state \in {"dead", "exhausted"}
                                    /\ message'[root[d][1]] = "ready"
    PROVE  /\ RowsInv' /\ ReplayingInv' /\ OneActive'
           /\ \A d \in Deliveries : Exists(d) => Exists(d)'
<1>1. ASSUME NEW d \in Deliveries
      PROVE  /\ Exists(d)' <=> Exists(d)
             /\ delivery'[d].state \in Active => delivery[d].state \in Active
             /\ delivery[d].state \in {"dead", "exhausted"} => delivery'[d] = delivery[d]
  BY DEF Moved, Exists, Active, Terminal
<1>2. ASSUME NEW d \in Deliveries PROVE RowOK(d)'
  <2>1. RowOK(d) /\ Moved(d)
    BY DEF IInv, RowsInv
  <2>2. Exists(d) => root[d] \in Deliveries /\ root[d][1] \in Messages
    BY <2>1, WebhookAssumption DEF RowOK, Deliveries
  <2>3. delivery'[d].ahead => delivery'[d].state \in {"leased", "retry"}
    BY <2>1 DEF RowOK, Moved
  <2>4. Exists(d)' => root'[d] \in Subscribed /\ message'[root'[d][1]] \in {"ready", "redacted"}
    BY <2>1, <2>2, <1>1 DEF RowOK, MessageOf
  <2>5. delivery'[d].state \in Active => delivery'[d].attempts < MaxAttempts
    BY <2>1 DEF RowOK, Moved
  <2>6. d \in Replays /\ Exists(d)' => delivery'[root'[d]].state \in {"dead", "exhausted"}
    BY <2>1, <2>2, <1>1 DEF RowOK
  <2> QED
    BY <2>1, <2>3, <2>4, <2>5, <2>6 DEF RowOK, MessageOf
<1>3. ReplayingInv'
  <2> SUFFICES ASSUME NEW d \in replaying'
               PROVE  delivery'[d].state \in {"dead", "exhausted"} /\ message'[root'[d][1]] = "ready"
    BY DEF ReplayingInv, MessageOf
  <2>1. d \in Deliveries /\ delivery[d].state \in {"dead", "exhausted"} /\ message'[root[d][1]] = "ready"
    BY DEF IInv, ReplayingInv, TypeOK
  <2> QED
    BY <2>1, <1>1
<1>4. OneActive'
  BY <1>1 DEF IInv, OneActive, Deliveries
<1> QED
  BY <1>1, <1>2, <1>3, <1>4 DEF RowsInv

\* Steps that start no lease keep the capacity, and the claim that counted.
LEMMA LeasesShrink ==
    ASSUME IInv, \A d \in Deliveries : Exists(d) => Exists(d)' /\ root'[d] = root[d],
           \A d \in Deliveries : Leased(d)' => Leased(d)
    PROVE  /\ WithinCapacity'
           /\ \A w \in Workers :
                worker'[w] = worker[w] /\ claiming' = claiming => ClaimOK(w)'
<1>1. ASSUME NEW d \in Deliveries, Leased(d)' PROVE Leased(d) /\ root'[d] = root[d]
  BY <1>1 DEF Leased, Exists
<1>2. Live' \subseteq Live /\ \A ep : LiveOn(ep)' \subseteq LiveOn(ep)
  BY <1>1 DEF Live, LiveOn, EndpointOf
<1>3. /\ Cardinality(Live') <= Cardinality(Live) /\ Cardinality(Live') \in Nat
      /\ \A ep : Cardinality(LiveOn(ep)') <= Cardinality(LiveOn(ep)) /\ Cardinality(LiveOn(ep)') \in Nat
  BY <1>2, LiveFinite, FS_Subset, FS_CardinalityType
<1>4. WithinCapacity'
  BY <1>3, LiveFinite, WebhookAssumption DEF IInv, WithinCapacity
<1>5. ASSUME NEW w \in Workers, worker'[w] = worker[w], claiming' = claiming PROVE ClaimOK(w)'
  <2>1. ClaimOK(w)
    BY DEF IInv, ClaimsInv
  <2>2. worker'[w].pc # "idle" =>
          /\ worker'[w].on \in Deliveries /\ delivery'[worker'[w].on].state # "absent"
          /\ root'[worker'[w].on] = root[worker[w].on]
    BY <2>1, <1>5 DEF ClaimOK, Exists
  <2>3. worker'[w].pc = "lease" =>
          /\ claiming' = w
          /\ Cardinality(Live') < MaxTenant
          /\ \A ep : ep = root[worker[w].on][2] => Cardinality(LiveOn(ep)') < MaxEndpoint
    BY <2>1, <1>3, <1>5, LiveFinite, WebhookAssumption DEF ClaimOK, EndpointOf
  <2>4. worker'[w].pc = "lease" =>
          Cardinality({d \in Live' : root'[d][2] = root'[worker'[w].on][2]}) < MaxEndpoint
    BY <2>2, <2>3 DEF LiveOn, EndpointOf
  <2> QED
    BY <2>2, <2>3, <2>4 DEF ClaimOK, LiveOn, EndpointOf, Exists
<1> QED
  BY <1>4, <1>5

Final == \A d \in Deliveries : delivery[d].state \in Terminal => delivery'[d] = delivery[d]

\* What a worker does next is about a row, and no lease in preparation but its
\* own ends or starts.
WorkerMoves ==
    \A w \in Workers :
        \/ worker'[w] = worker[w] /\ claiming' = claiming
        \/ /\ worker'[w].pc # "lease"
           /\ worker'[w].pc # "idle" => /\ worker'[w].on \in Deliveries
                                        /\ Exists(worker'[w].on)

LEMMA Step ==
    ASSUME IInv, TypeOK', root' = root, \A d \in Deliveries : Moved(d),
           \A m \in Messages : message[m] \in {"ready", "redacted"} => message'[m] \in {"ready", "redacted"},
           \A d \in Deliveries : delivery'[d].state \in Active => message'[root[d][1]] = "ready",
           \A d \in replaying' : \/ d \in replaying /\ message'[root[d][1]] = "ready"
                                 \/ /\ d \in Deliveries /\ delivery[d].state \in {"dead", "exhausted"}
                                    /\ message'[root[d][1]] = "ready",
           \A d \in Deliveries : Leased(d)' => Leased(d),
           WorkerMoves
    PROVE  IInv' /\ Final
<1>1. /\ RowsInv' /\ ReplayingInv' /\ OneActive'
      /\ \A d \in Deliveries : Exists(d) => Exists(d)'
  BY RowsMove
<1>2. /\ WithinCapacity'
      /\ \A w \in Workers : worker'[w] = worker[w] /\ claiming' = claiming => ClaimOK(w)'
  BY <1>1, LeasesShrink
<1>3. ASSUME NEW w \in Workers PROVE ClaimOK(w)'
  <2>1. CASE worker'[w] = worker[w] /\ claiming' = claiming
    BY <2>1, <1>2
  <2>2. CASE /\ worker'[w].pc # "lease"
             /\ worker'[w].pc # "idle" => worker'[w].on \in Deliveries /\ Exists(worker'[w].on)
    <3>1. worker'[w].pc # "idle" => delivery'[worker'[w].on].state # "absent"
      BY <2>2, <1>1 DEF Exists
    <3> QED
      BY <2>2, <3>1 DEF ClaimOK, Exists
  <2> QED
    BY <2>1, <2>2 DEF WorkerMoves
<1>4. Final
  BY DEF Final, Moved, Active, Terminal
<1> QED
  BY <1>1, <1>2, <1>3, <1>4 DEF IInv, ClaimsInv

\* A step that leaves the rows and the replays alone.
LEMMA RowsStill ==
    ASSUME IInv, TypeOK', UNCHANGED rowVars, WorkerMoves,
           \A d \in replaying' : \/ d \in replaying
                                 \/ /\ d \in Deliveries /\ delivery[d].state \in {"dead", "exhausted"}
                                    /\ message[MessageOf(d)] = "ready"
    PROVE  IInv' /\ Final
<1>1. root' = root /\ message' = message /\ delivery' = delivery
  BY DEF rowVars
<1>2. \A d \in Deliveries : Moved(d) /\ (Leased(d)' => Leased(d))
  BY <1>1 DEF Moved, Leased
<1>3. \A d \in Deliveries : delivery'[d].state \in Active => message'[root[d][1]] = "ready"
  BY <1>1 DEF IInv, RowsInv, RowOK, MessageOf
<1>4. \A d \in replaying' : \/ d \in replaying /\ message'[root[d][1]] = "ready"
                            \/ /\ d \in Deliveries /\ delivery[d].state \in {"dead", "exhausted"}
                               /\ message'[root[d][1]] = "ready"
  BY <1>1 DEF IInv, ReplayingInv, MessageOf
<1> QED
  BY <1>1, <1>2, <1>3, <1>4, Step

\* A step that moves rows under unchanged messages and replays, and starts no
\* lease.
LEMMA MessagesStill ==
    ASSUME IInv, TypeOK', root' = root, message' = message, replaying' = replaying,
           \A d \in Deliveries : Moved(d) /\ (Leased(d)' => Leased(d)), WorkerMoves
    PROVE  IInv' /\ Final
<1>1. \A d \in Deliveries : delivery'[d].state \in Active => message'[root[d][1]] = "ready"
  BY DEF IInv, RowsInv, RowOK, MessageOf, Moved
<1>2. \A d \in replaying' : d \in replaying /\ message'[root[d][1]] = "ready"
  BY DEF IInv, ReplayingInv, MessageOf
<1> QED
  BY <1>1, <1>2, Step

-----------------------------------------------------------------------------
(* The steps that leave the rows alone *)

LEMMA EventAgesStep ==
    ASSUME IInv, NEW m \in Messages, EventAges(m)
    PROVE  IInv' /\ Final
<1>1. TypeOK'
  BY DEF EventAges, IInv, TypeOK, rowVars, runVars
<1> QED
  BY <1>1, RowsStill DEF EventAges, rowVars, runVars, WorkerMoves

LEMMA SetEndpointStep ==
    ASSUME IInv, NEW ep \in Endpoints, SetEndpoint(ep)
    PROVE  IInv' /\ Final
<1>1. TypeOK'
  BY WebhookAssumption DEF SetEndpoint, Fault, IInv, TypeOK, rowVars, runVars
<1> QED
  BY <1>1, RowsStill DEF SetEndpoint, rowVars, runVars, WorkerMoves

LEMMA ReplayChecksStep ==
    ASSUME IInv, NEW d \in Deliveries, ReplayChecks(d)
    PROVE  IInv' /\ Final
<1>1. TypeOK'
  BY DEF ReplayChecks, IInv, TypeOK, rowVars, runVars
<1> QED
  BY <1>1, RowsStill DEF ReplayChecks, rowVars, runVars, WorkerMoves

LEMMA WorkerStopsStep ==
    ASSUME IInv, NEW w \in Workers, WorkerStops(w)
    PROVE  IInv' /\ Final
<1>1. TypeOK'
  BY WebhookAssumption DEF WorkerStops, Fault, IInv, TypeOK, rowVars, Idle, WorkerState
<1>2. WorkerMoves
  <2> SUFFICES ASSUME NEW v \in Workers
               PROVE  \/ worker'[v] = worker[v] /\ claiming' = claiming
                      \/ worker'[v].pc # "lease" /\ (worker'[v].pc # "idle" =>
                           worker'[v].on \in Deliveries /\ Exists(worker'[v].on))
    BY DEF WorkerMoves
  <2>1. CASE v = w
    BY <2>1 DEF WorkerStops, IInv, TypeOK, Idle
  <2>2. CASE v # w
    BY <2>2 DEF WorkerStops, IInv, TypeOK, ClaimsInv, ClaimOK
  <2> QED
    BY <2>1, <2>2
<1> QED
  BY <1>1, <1>2, RowsStill DEF WorkerStops, rowVars

LEMMA WakeStep ==
    ASSUME IInv, NEW w \in Workers, NEW d \in Deliveries, Wake(w, d)
    PROVE  IInv' /\ Final
<1>1. TypeOK'
  BY DEF Wake, IInv, TypeOK, rowVars, WorkerState
<1>2. WorkerMoves
  BY DEF Wake, IInv, TypeOK, WorkerMoves, Exists, Active
<1> QED
  BY <1>1, <1>2, RowsStill DEF Wake, rowVars

LEMMA LoadStep ==
    ASSUME IInv, NEW w \in Workers, Load(w)
    PROVE  IInv' /\ Final
<1>1. TypeOK'
  BY DEF Load, Goto, End, IInv, TypeOK, rowVars, WorkerState, Idle
<1>2. WorkerMoves
  BY DEF Load, Goto, End, IInv, TypeOK, WorkerMoves, WorkerState, Idle, ClaimsInv, ClaimOK
<1> QED
  BY <1>1, <1>2, RowsStill DEF Load, rowVars

\* A claim that found room, under the lock nobody else then holds.
LEMMA ClaimStep ==
    ASSUME IInv, NEW w \in Workers, Claim(w)
    PROVE  IInv' /\ Final
<1> DEFINE d == worker[w].on
<1>1. TypeOK'
  BY DEF Claim, Goto, End, IInv, TypeOK, rowVars, WorkerState, Idle
<1>2. CASE End(w) /\ UNCHANGED claiming
  <2>1. WorkerMoves
    BY <1>2 DEF End, IInv, TypeOK, WorkerMoves, Idle
  <2> QED
    BY <1>1, <2>1, RowsStill DEF Claim, rowVars
<1>3. CASE /\ Goto(w, "lease") /\ claiming' = w
           /\ Cardinality(Live) < MaxTenant /\ Cardinality(LiveOn(EndpointOf(d))) < MaxEndpoint
  <2>1. UNCHANGED rowVars /\ UNCHANGED replaying
    BY DEF Claim
  <2>2. RowsInv' /\ ReplayingInv' /\ OneActive' /\ WithinCapacity' /\ Final
    BY <2>1 DEF IInv, rowVars, RowsInv, RowOK, Exists, MessageOf, EndpointOf, ReplayingInv, OneActive,
                WithinCapacity, Live, LiveOn, Leased, Final
  <2>3. ASSUME NEW v \in Workers PROVE ClaimOK(v)'
    <3>1. CASE v = w
      <4>1. /\ worker'[w].pc = "lease" /\ worker'[w].on = d
            /\ d \in Deliveries /\ delivery'[d].state # "absent"
        BY <1>3, <2>1 DEF Goto, IInv, TypeOK, WorkerState, rowVars, Claim, ClaimsInv, ClaimOK, Exists
      <4>2. Live' = Live /\ \A ep : LiveOn(ep)' = LiveOn(ep)
        BY <2>1 DEF rowVars, Live, LiveOn, Leased, EndpointOf
      <4>3. Cardinality({x \in Live' : root'[x][2] = root'[d][2]}) < MaxEndpoint
        BY <1>3, <2>1, <4>2 DEF LiveOn, EndpointOf, rowVars
      <4> HIDE DEF d
      <4> QED
        BY <1>3, <3>1, <4>1, <4>2, <4>3 DEF ClaimOK, LiveOn, EndpointOf, Exists
    <3>2. CASE v # w
      <4>1. worker'[v] = worker[v] /\ worker[v].pc # "lease" /\ claiming = Nothing
        BY <3>2, <1>3, WebhookAssumption DEF Goto, IInv, TypeOK, ClaimsInv, ClaimOK, Claim
      <4> QED
        BY <4>1, <2>1 DEF IInv, ClaimsInv, ClaimOK, Exists, rowVars
    <3> QED
      BY <3>1, <3>2
  <2> QED
    BY <1>1, <2>2, <2>3 DEF IInv, ClaimsInv
<1> QED
  BY <1>2, <1>3 DEF Claim

-----------------------------------------------------------------------------
(* The steps that move rows *)

LEMMA TimePassesStep ==
    ASSUME IInv, NEW d \in Deliveries, TimePasses(d)
    PROVE  IInv' /\ Final
<1>1. TypeOK'
  <2>1. delivery' = [delivery EXCEPT ![d] = [delivery[d] EXCEPT !.ahead = FALSE]]
    BY DEF TimePasses
  <2>2. delivery \in [Deliveries -> DeliveryState] /\ [delivery[d] EXCEPT !.ahead = FALSE] \in DeliveryState
    BY DEF IInv, TypeOK, DeliveryState
  <2>3. delivery' \in [Deliveries -> DeliveryState]
    BY <2>1, <2>2
  <2> QED
    BY <2>3, WebhookAssumption DEF TimePasses, Fault, IInv, TypeOK, runVars
<1>2. ASSUME NEW e \in Deliveries PROVE Moved(e) /\ (Leased(e)' => Leased(e))
  <2>1. delivery \in [Deliveries -> DeliveryState] /\ RowOK(d)
    BY DEF IInv, TypeOK, RowsInv
  <2>2. CASE e = d
    <3>1. /\ delivery'[d].state = delivery[d].state /\ delivery'[d].attempts = delivery[d].attempts
          /\ delivery'[d].ahead = FALSE
      BY <2>1 DEF TimePasses, DeliveryState
    <3> QED
      BY <2>1, <2>2, <3>1 DEF Moved, Leased, RowOK, TimePasses, Active
  <2>3. CASE e # d
    BY <2>1, <2>3 DEF TimePasses, Moved, Leased
  <2> QED
    BY <2>2, <2>3
<1>3. root' = root /\ message' = message /\ replaying' = replaying
  BY DEF TimePasses
<1>4. WorkerMoves
  BY DEF TimePasses, runVars, WorkerMoves
<1> QED
  BY <1>1, <1>2, <1>3, <1>4, MessagesStill

\* The one worker whose run ends.
LEMMA EndMoves ==
    ASSUME IInv, NEW w \in Workers, End(w), claiming' = claiming
    PROVE  WorkerMoves
BY DEF End, IInv, TypeOK, WorkerMoves, Idle

\* Closing a settleable row ends it.
LEMMA ClosedMoves ==
    ASSUME IInv, NEW d \in Deliveries, NEW state \in Terminal, Settleable(d),
           delivery'[d] = Closed(d, state)
    PROVE  Moved(d) /\ ~Leased(d)' /\ delivery'[d] \in DeliveryState
<1>1. delivery[d] \in DeliveryState
  BY DEF IInv, TypeOK
<1>2. delivery'[d].state = state /\ delivery'[d].ahead = FALSE
  BY <1>1 DEF Closed, DeliveryState
<1>3. delivery'[d] \in DeliveryState
  BY <1>1 DEF Closed, DeliveryState
<1> QED
  BY <1>2, <1>3 DEF Moved, Settleable, Leased, Active, Terminal

LEMMA ExpireStep ==
    ASSUME IInv, NEW w \in Workers, Expire(w)
    PROVE  IInv' /\ Final
<1> DEFINE d == worker[w].on
<1>1. d \in Deliveries /\ delivery \in [Deliveries -> DeliveryState]
  BY DEF Expire, IInv, TypeOK, ClaimsInv, ClaimOK
<1>2. delivery' = [delivery EXCEPT ![d] = IF Settleable(d) THEN Closed(d, "exhausted") ELSE @]
  BY DEF Expire
<1> HIDE DEF d
<1>3. ASSUME NEW e \in Deliveries
      PROVE  Moved(e) /\ (Leased(e)' => Leased(e)) /\ delivery'[e] \in DeliveryState
  <2>1. CASE e = d /\ Settleable(d)
    BY <1>1, <1>2, <2>1, ClosedMoves DEF Terminal
  <2>2. CASE ~(e = d /\ Settleable(d))
    BY <1>1, <1>2, <2>2 DEF Moved, Leased
  <2> QED
    BY <2>1, <2>2
<1>4. delivery' \in [Deliveries -> DeliveryState]
  BY <1>1, <1>2, <1>3
<1>5. TypeOK'
  BY <1>4 DEF Expire, End, Idle, IInv, TypeOK, WorkerState
<1>6. root' = root /\ message' = message /\ replaying' = replaying
  BY DEF Expire
<1>7. WorkerMoves
  BY EndMoves DEF Expire
<1> QED
  BY <1>3, <1>5, <1>6, <1>7, MessagesStill

LEMMA SweepExpiresStep ==
    ASSUME IInv, SweepExpires
    PROVE  IInv' /\ Final
<1> DEFINE unproven == {d \in Deliveries : Settleable(d) /\ MessageOf(d) \notin inWindow}
<1>1. /\ delivery \in [Deliveries -> DeliveryState]
      /\ delivery' = [d \in Deliveries |-> IF d \in unproven THEN Closed(d, "exhausted") ELSE delivery[d]]
  BY DEF SweepExpires, IInv, TypeOK
<1>2. \A d \in unproven : Settleable(d)
  OBVIOUS
<1> HIDE DEF unproven
<1>3. ASSUME NEW e \in Deliveries
      PROVE  Moved(e) /\ (Leased(e)' => Leased(e)) /\ delivery'[e] \in DeliveryState
  <2>1. CASE e \in unproven
    BY <1>1, <1>2, <2>1, ClosedMoves DEF Terminal
  <2>2. CASE e \notin unproven
    BY <1>1, <2>2 DEF Moved, Leased
  <2> QED
    BY <2>1, <2>2
<1>4. delivery' \in [Deliveries -> DeliveryState]
  BY <1>1, <1>3
<1>5. TypeOK'
  BY <1>4 DEF SweepExpires, IInv, TypeOK, runVars
<1>6. root' = root /\ message' = message /\ replaying' = replaying /\ WorkerMoves
  BY DEF SweepExpires, runVars, WorkerMoves
<1> QED
  BY <1>3, <1>5, <1>6, MessagesStill

LEMMA SettleStep ==
    ASSUME IInv, NEW w \in Workers, Settle(w)
    PROVE  IInv' /\ Final
<1>0. PICK d \in Deliveries : d = worker[w].on
  BY DEF Settle, IInv, TypeOK, ClaimsInv, ClaimOK
<1>1. /\ d \in Deliveries /\ delivery \in [Deliveries -> DeliveryState]
      /\ delivery[d] \in DeliveryState /\ RowOK(d)
  BY DEF IInv, TypeOK, RowsInv
<1>2. WorkerMoves
  BY EndMoves DEF Settle
<1>3. root' = root /\ message' = message /\ replaying' = replaying
  BY DEF Settle
<1>4. CASE UNCHANGED delivery
  <2>1. TypeOK'
    BY <1>4 DEF Settle, End, Idle, IInv, TypeOK, WorkerState
  <2> QED
    BY <1>2, <1>3, <1>4, <2>1, MessagesStill DEF Moved, Leased
<1>5. ASSUME Holds(w), NEW state \in Verdicts(d),
             delivery' = [delivery EXCEPT ![d] =
               [state |-> state, ahead |-> state = "retry", holder |-> Nothing, attempts |-> @.attempts + 1]]
      PROVE  IInv' /\ Final
  <2> DEFINE more == delivery[d].attempts + 1
  <2>1. /\ delivery[d].state = "leased" /\ delivery[d].attempts < MaxAttempts /\ delivery[d].attempts \in Nat
        /\ more \in 0..MaxAttempts
        /\ state \in {"succeeded", "dead", "exhausted", "retry"}
        /\ state = "retry" => more < MaxAttempts
    BY <1>0, <1>1, <1>5, WebhookAssumption DEF Holds, Leased, RowOK, DeliveryState, Verdicts, Active
  <2>2. delivery'[d] = [state |-> state, ahead |-> state = "retry", holder |-> Nothing, attempts |-> more]
    BY <1>1, <1>5
  <2> HIDE DEF more
  <2> DEFINE after == delivery'[d]
  <2>a. /\ after.state = state /\ after.ahead = (state = "retry") /\ after.holder = Nothing /\ after.attempts = more
        /\ after = [state |-> state, ahead |-> state = "retry", holder |-> Nothing, attempts |-> more]
    BY <2>2
  <2>b. after \in DeliveryState
    BY <2>1, <2>a DEF DeliveryState, Active, Terminal
  <2>c. Moved(d)
    BY <2>1, <2>a DEF Moved, Active, Terminal
  <2>d. ~Leased(d)'
    BY <2>1, <2>a DEF Leased
  <2>3. Moved(d) /\ ~Leased(d)' /\ delivery'[d] \in DeliveryState
    BY <2>b, <2>c, <2>d
  <2>4. ASSUME NEW e \in Deliveries, e # d PROVE delivery'[e] = delivery[e]
    BY <1>1, <1>5, <2>4
  <2>5. ASSUME NEW e \in Deliveries PROVE Moved(e) /\ (Leased(e)' => Leased(e))
    <3>1. CASE e = d
      BY <2>3, <3>1
    <3>2. CASE e # d
      BY <2>4, <3>2 DEF Moved, Leased
    <3> QED
      BY <3>1, <3>2
  <2>6. delivery' \in [Deliveries -> DeliveryState]
    BY <1>1, <1>5, <2>3, <2>4
  <2>7. TypeOK'
    BY <2>6 DEF Settle, End, Idle, IInv, TypeOK, WorkerState
  <2> QED
    BY <1>2, <1>3, <2>5, <2>7, MessagesStill
<1> QED
  BY <1>0, <1>4, <1>5 DEF Settle

LEMMA RedactStep ==
    ASSUME IInv, NEW m \in Messages, Redact(m)
    PROVE  IInv' /\ Final
<1>1. /\ delivery \in [Deliveries -> DeliveryState] /\ message \in [Messages -> {"absent", "suppressed", "ready", "redacted"}]
      /\ message' = [message EXCEPT ![m] = "redacted"] /\ message[m] = "ready"
      /\ delivery' = [d \in Deliveries |->
           IF d \in Of(m) /\ delivery[d].state \in Active THEN Closed(d, "dead") ELSE delivery[d]]
      /\ \A d \in Of(m) : ~Leased(d) /\ d \notin replaying
  BY DEF Redact, IInv, TypeOK
<1>2. ASSUME NEW d \in Deliveries, d \in Of(m), delivery[d].state \in Active PROVE Settleable(d)
  BY <1>1, <1>2 DEF Settleable, Leased, Active, IInv, TypeOK, DeliveryState
<1>3. ASSUME NEW e \in Deliveries
      PROVE  Moved(e) /\ (Leased(e)' => Leased(e)) /\ delivery'[e] \in DeliveryState
  <2>1. CASE e \in Of(m) /\ delivery[e].state \in Active
    BY <1>1, <1>2, <2>1, ClosedMoves DEF Terminal
  <2>2. CASE ~(e \in Of(m) /\ delivery[e].state \in Active)
    BY <1>1, <2>2 DEF Moved, Leased
  <2> QED
    BY <2>1, <2>2
<1>4. delivery' \in [Deliveries -> DeliveryState]
  BY <1>1, <1>3
<1>5. TypeOK'
  BY <1>4, <1>1 DEF Redact, IInv, TypeOK, runVars
<1>6. \A n \in Messages : message[n] \in {"ready", "redacted"} => message'[n] \in {"ready", "redacted"}
  BY <1>1
<1>7. ASSUME NEW d \in Deliveries, delivery'[d].state \in Active PROVE message'[root[d][1]] = "ready"
  <2>1. delivery[d].state \in Active /\ d \notin Of(m)
    BY <1>1, <1>7 DEF Closed, Active, IInv, TypeOK, DeliveryState
  <2>2. root[d][1] # m /\ message[root[d][1]] = "ready" /\ root[d][1] \in Messages
    BY <2>1, WebhookAssumption DEF Of, Exists, Active, MessageOf, IInv, RowsInv, RowOK
  <2> QED
    BY <2>2, <1>1
<1>8. ASSUME NEW d \in replaying' PROVE d \in replaying /\ message'[root[d][1]] = "ready"
  <2>1. d \in replaying /\ d \in Deliveries /\ d \notin Of(m) /\ Exists(d) /\ message[root[d][1]] = "ready"
    BY <1>1 DEF Redact, IInv, ReplayingInv, TypeOK, Exists, MessageOf
  <2>2. root[d][1] # m /\ root[d][1] \in Messages
    BY <2>1, WebhookAssumption DEF Of, MessageOf, IInv, RowsInv, RowOK
  <2> QED
    BY <2>1, <2>2, <1>1
<1>9. root' = root /\ WorkerMoves
  BY DEF Redact, runVars, WorkerMoves
<1> QED
  BY <1>3, <1>5, <1>6, <1>7, <1>8, <1>9, Step

\* A claim's write fills the room it counted, whoever else's leases ended since.
LEMMA LeaseStep ==
    ASSUME IInv, NEW w \in Workers, Lease(w)
    PROVE  IInv' /\ Final
<1>0. PICK d \in Deliveries : d = worker[w].on
  BY DEF Lease, IInv, TypeOK, ClaimsInv, ClaimOK
<1>1. /\ delivery \in [Deliveries -> DeliveryState] /\ delivery[d] \in DeliveryState
      /\ claiming = w /\ claiming' = Nothing /\ ClaimOK(w)
  BY <1>0 DEF Lease, IInv, TypeOK, ClaimsInv, ClaimOK
<1>2. root' = root /\ message' = message /\ replaying' = replaying
  BY DEF Lease
<1>3. \A v \in Workers : v # w => worker'[v] = worker[v] /\ worker[v].pc # "lease"
  BY <1>1 DEF Lease, Goto, End, IInv, TypeOK, ClaimsInv, ClaimOK
<1>4. /\ worker' \in [Workers -> WorkerState] /\ worker'[w].pc # "lease"
      /\ worker'[w].pc # "idle" => worker'[w].on = d
  BY <1>0 DEF Lease, Goto, End, IInv, TypeOK, WorkerState, Idle
<1>5. ASSUME NEW v \in Workers
      PROVE  worker'[v].pc # "lease" /\ (worker'[v].pc # "idle" => worker'[v].on \in Deliveries /\ Exists(worker'[v].on))
  <2>1. CASE v = w
    BY <1>0, <1>1, <1>4, <2>1 DEF ClaimOK, Lease
  <2>2. CASE v # w
    BY <1>3, <2>2 DEF IInv, ClaimsInv, ClaimOK
  <2> QED
    BY <2>1, <2>2
<1>6. CASE UNCHANGED delivery
  <2>1. TypeOK'
    BY <1>4, <1>6 DEF Lease, IInv, TypeOK
  <2>2. WorkerMoves
    BY <1>5 DEF WorkerMoves
  <2> QED
    BY <1>2, <1>6, <2>1, <2>2, MessagesStill DEF Moved, Leased
<1>7. CASE Due(d) /\ delivery' = [delivery EXCEPT ![d].state = "leased", ![d].ahead = TRUE, ![d].holder = w]
  <2>1. /\ delivery'[d].state = "leased" /\ delivery'[d].attempts = delivery[d].attempts
        /\ delivery'[d] \in DeliveryState
        /\ delivery[d].state \in Active /\ delivery[d].attempts < MaxAttempts
    BY <1>1, <1>7 DEF Due, DeliveryState, Active, IInv, RowsInv, RowOK
  <2>2. \A e \in Deliveries : e # d => delivery'[e] = delivery[e]
    BY <1>1, <1>7
  <2>3. \A e \in Deliveries : Moved(e)
    BY <2>1, <2>2 DEF Moved, Active
  <2>4. delivery' \in [Deliveries -> DeliveryState]
    BY <1>1, <1>7, <2>1, <2>2
  <2>5. TypeOK'
    BY <1>4, <2>4 DEF Lease, IInv, TypeOK
  <2>6. RowsInv' /\ ReplayingInv' /\ OneActive' /\ \A e \in Deliveries : Exists(e) => Exists(e)'
    <3>1. \A e \in Deliveries : delivery'[e].state \in Active => message'[root[e][1]] = "ready"
      BY <1>2, <2>3 DEF IInv, RowsInv, RowOK, MessageOf, Moved
    <3>2. \A e \in replaying' : e \in replaying /\ message'[root[e][1]] = "ready"
      BY <1>2 DEF IInv, ReplayingInv, MessageOf
    <3> QED
      BY <1>2, <2>3, <3>1, <3>2, RowsMove
  <2>7. WithinCapacity'
    <3>1. /\ Live' \subseteq Live \cup {d}
          /\ \A ep : LiveOn(ep)' \subseteq IF ep = root[d][2] THEN LiveOn(ep) \cup {d} ELSE LiveOn(ep)
      BY <1>2, <2>2 DEF Live, LiveOn, Leased, EndpointOf
    <3>2. /\ Cardinality(Live) < MaxTenant
          /\ \A ep : ep = root[d][2] => Cardinality(LiveOn(ep)) < MaxEndpoint
      BY <1>0, <1>1 DEF ClaimOK, Lease, EndpointOf
    <3>3. ASSUME NEW S, IsFiniteSet(S), Cardinality(S) \in Nat
          PROVE  /\ Cardinality(S \cup {d}) \in Nat /\ Cardinality(S \cup {d}) <= Cardinality(S) + 1
                 /\ IsFiniteSet(S \cup {d})
      BY <3>3, FS_AddElement
    <3>4. Cardinality(Live') <= MaxTenant
      <4>1. /\ Cardinality(Live \cup {d}) <= Cardinality(Live) + 1
            /\ Cardinality(Live \cup {d}) \in Nat /\ IsFiniteSet(Live \cup {d})
        BY <3>3, LiveFinite
      <4>2. Cardinality(Live') \in Nat /\ Cardinality(Live') <= Cardinality(Live \cup {d})
        BY <3>1, <4>1, FS_Subset, FS_CardinalityType
      <4> QED
        BY <3>2, <4>1, <4>2, LiveFinite, WebhookAssumption
    <3>5. ASSUME NEW ep \in Endpoints PROVE Cardinality(LiveOn(ep)') <= MaxEndpoint
      <4>1. CASE ep = root[d][2]
        <5>1. LiveOn(ep)' \subseteq LiveOn(ep) \cup {d} /\ Cardinality(LiveOn(ep)) < MaxEndpoint
          BY <3>1, <3>2, <4>1
        <5>2. /\ Cardinality(LiveOn(ep) \cup {d}) <= Cardinality(LiveOn(ep)) + 1
              /\ Cardinality(LiveOn(ep) \cup {d}) \in Nat /\ IsFiniteSet(LiveOn(ep) \cup {d})
          BY <3>3, LiveFinite
        <5>3. Cardinality(LiveOn(ep)') \in Nat /\ Cardinality(LiveOn(ep)') <= Cardinality(LiveOn(ep) \cup {d})
          BY <5>1, <5>2, FS_Subset, FS_CardinalityType
        <5> QED
          BY <5>1, <5>2, <5>3, LiveFinite, WebhookAssumption
      <4>2. CASE ep # root[d][2]
        <5>1. LiveOn(ep)' \subseteq LiveOn(ep) /\ Cardinality(LiveOn(ep)) <= MaxEndpoint
          BY <3>1, <4>2 DEF IInv, WithinCapacity
        <5> QED
          BY <5>1, LiveFinite, FS_Subset, FS_CardinalityType, WebhookAssumption
      <4> QED
        BY <4>1, <4>2
    <3> QED
      BY <3>4, <3>5 DEF WithinCapacity
  <2>8. ClaimsInv'
    <3> SUFFICES ASSUME NEW v \in Workers PROVE ClaimOK(v)'
      BY DEF ClaimsInv
    <3>1. worker'[v].pc # "idle" => worker'[v].on \in Deliveries /\ delivery'[worker'[v].on].state # "absent"
      BY <1>5, <2>6 DEF Exists
    <3> QED
      BY <1>5, <3>1 DEF ClaimOK, Exists
  <2>9. Final
    BY <2>3 DEF Final, Moved, Active, Terminal
  <2> QED
    BY <2>5, <2>6, <2>7, <2>8, <2>9 DEF IInv
<1> QED
  BY <1>0, <1>6, <1>7 DEF Lease

LEMMA ProjectStep ==
    ASSUME IInv, NEW m \in Messages, Project(m)
    PROVE  IInv' /\ Final
<1>1. /\ message \in [Messages -> {"absent", "suppressed", "ready", "redacted"}] /\ message[m] = "absent"
      /\ delivery \in [Deliveries -> DeliveryState]
      /\ root' = root /\ replaying' = replaying /\ worker' = worker /\ claiming' = claiming
  BY DEF Project, runVars, IInv, TypeOK
<1>2. ASSUME NEW d \in Deliveries, Exists(d) PROVE root[d][1] # m /\ root[d][1] \in Messages
  BY <1>1, <1>2, WebhookAssumption DEF IInv, RowsInv, RowOK, MessageOf
<1>3. WorkerMoves
  BY <1>1 DEF WorkerMoves
<1>4. CASE message' = [message EXCEPT ![m] = "suppressed"] /\ UNCHANGED delivery
  <2>1. TypeOK'
    BY <1>1, <1>4 DEF Project, runVars, IInv, TypeOK
  <2>2. \A d \in Deliveries : Moved(d) /\ (Leased(d)' => Leased(d))
    BY <1>4 DEF Moved, Leased
  <2>3. \A d \in Deliveries : delivery'[d].state \in Active => message'[root[d][1]] = "ready"
    BY <1>1, <1>2, <1>4 DEF IInv, RowsInv, RowOK, MessageOf, Exists, Active
  <2>4. \A d \in replaying' : d \in replaying /\ message'[root[d][1]] = "ready"
    BY <1>1, <1>2, <1>4 DEF IInv, TypeOK, ReplayingInv, MessageOf, Exists
  <2>5. \A n \in Messages : message[n] \in {"ready", "redacted"} => message'[n] \in {"ready", "redacted"}
    BY <1>1, <1>4
  <2> QED
    BY <1>1, <1>3, <2>1, <2>2, <2>3, <2>4, <2>5, Step
<1>5. CASE /\ message' = [message EXCEPT ![m] = "ready"]
           /\ delivery' = [d \in Deliveries |->
                IF d \in Subscribed /\ d[1] = m /\ d[2] \in enabled THEN Pending ELSE delivery[d]]
  <2> DEFINE new == {d \in Subscribed : d[1] = m /\ d[2] \in enabled}
  <2>1. /\ Pending \in DeliveryState /\ Pending.state = "pending" /\ ~Pending.ahead /\ Pending.attempts < MaxAttempts
    BY WebhookAssumption DEF Pending, DeliveryState, Active
  <2>2. /\ \A d \in Deliveries : d \in new => delivery'[d] = Pending
        /\ \A d \in Deliveries : d \notin new => delivery'[d] = delivery[d]
        /\ \A d \in new : d \in Deliveries /\ d \in Subscribed /\ d[1] = m /\ d \notin Replays
    BY <1>5, WebhookAssumption DEF Deliveries
  <2> HIDE DEF new
  <2>3. \A d \in Deliveries : Exists(d) => d \notin new
    BY <1>2, <2>2 DEF IInv, RowsInv, RowOK
  <2>4. \A n \in Messages : n # m => message'[n] = message[n]
    BY <1>1, <1>5
  <2>5. message'[m] = "ready"
    BY <1>1, <1>5
  <2>6. ASSUME NEW d \in Deliveries PROVE RowOK(d)'
    <3>1. RowOK(d)
      BY DEF IInv, RowsInv
    <3>2. CASE d \in new
      BY <1>1, <2>1, <2>2, <2>5, <3>1, <3>2 DEF RowOK, Exists, MessageOf
    <3>3. CASE d \notin new
      <4>1. Exists(d) => root[d] \in Deliveries /\ message'[root[d][1]] = message[root[d][1]]
        BY <1>2, <2>4, <3>1 DEF RowOK, Deliveries
      <4>2. d \in Replays /\ Exists(d) => delivery'[root[d]].state \in {"dead", "exhausted"}
        BY <2>2, <2>3, <3>1, <4>1 DEF RowOK, Exists
      <4> QED
        BY <1>1, <2>2, <3>1, <3>3, <4>1, <4>2 DEF RowOK, Exists, MessageOf, Active
    <3> QED
      BY <3>2, <3>3
  <2>7. \A d \in Deliveries : Exists(d) => delivery'[d] = delivery[d] /\ Exists(d)' /\ root'[d] = root[d]
    BY <1>1, <2>2, <2>3 DEF Exists
  <2>8. ReplayingInv'
    BY <1>1, <1>2, <2>4, <2>7 DEF IInv, TypeOK, ReplayingInv, MessageOf, Exists
  <2>9. OneActive'
    BY <1>1, <2>2 DEF IInv, OneActive, Deliveries
  <2>10. \A d \in Deliveries : Leased(d)' => Leased(d)
    BY <2>1, <2>2 DEF Leased
  <2>11. WithinCapacity' /\ ClaimsInv'
    BY <1>1, <2>7, <2>10, LeasesShrink DEF ClaimsInv
  <2>12. delivery' \in [Deliveries -> DeliveryState]
    BY <1>1, <1>5, <2>1
  <2>13. TypeOK'
    BY <1>1, <1>5, <2>12 DEF Project, runVars, IInv, TypeOK
  <2>14. Final
    BY <2>7 DEF Final, Terminal, Exists
  <2> QED
    BY <2>6, <2>8, <2>9, <2>11, <2>13, <2>14 DEF IInv, RowsInv
<1> QED
  BY <1>4, <1>5 DEF Project

LEMMA ReplayInsertsStep ==
    ASSUME IInv, NEW d \in Deliveries, ReplayInserts(d)
    PROVE  IInv' /\ Final
<1>1. /\ delivery \in [Deliveries -> DeliveryState] /\ root \in [Deliveries -> Subscribed \cup {Nothing}]
      /\ d \in replaying /\ replaying' = replaying \ {d} /\ replaying \subseteq Deliveries
      /\ message' = message /\ worker' = worker /\ claiming' = claiming
  BY DEF ReplayInserts, runVars, IInv, TypeOK
<1>2. CASE UNCHANGED <<root, delivery>>
  <2>1. TypeOK'
    BY <1>1, <1>2 DEF ReplayInserts, runVars, IInv, TypeOK
  <2> QED
    BY <1>1, <1>2, <2>1, RowsStill DEF rowVars, WorkerMoves
<1>3. ASSUME NEW r \in Replays, ~Exists(r), \A q \in ReplaysOf(d) : delivery[q].state \notin Active,
             root' = [root EXCEPT ![r] = root[d]], delivery' = [delivery EXCEPT ![r] = Pending]
      PROVE  IInv' /\ Final
  <2>1. /\ Pending \in DeliveryState /\ Pending.state = "pending" /\ ~Pending.ahead /\ Pending.attempts < MaxAttempts
    BY WebhookAssumption DEF Pending, DeliveryState, Active
  <2>2. r \in Deliveries /\ r \notin Subscribed
    BY WebhookAssumption DEF Deliveries
  <2>3. root'[r] = root[d] /\ delivery'[r] = Pending
    BY <1>1, <1>3, <2>2
  <2>4. \A e \in Deliveries : e # r => root'[e] = root[e] /\ delivery'[e] = delivery[e]
    BY <1>1, <1>3
  <2>5. /\ delivery[d].state \in {"dead", "exhausted"} /\ message[root[d][1]] = "ready" /\ Exists(d)
        /\ root[d] \in Subscribed /\ root[d] \in Deliveries /\ root[d] # r
        /\ delivery[root[d]].state \in {"dead", "exhausted"}
    BY <1>1, <2>2 DEF IInv, ReplayingInv, MessageOf, Exists, RowsInv, RowOK, Deliveries
  <2>6. ASSUME NEW e \in Deliveries PROVE RowOK(e)'
    <3>1. RowOK(e)
      BY DEF IInv, RowsInv
    <3>2. CASE e = r
      BY <1>1, <2>1, <2>2, <2>3, <2>4, <2>5, <3>2 DEF RowOK, Exists, MessageOf
    <3>3. CASE e # r
      <4>1. Exists(e) => root[e] \in Deliveries /\ root[e] # r
        BY <2>2, <3>1 DEF RowOK, Deliveries
      <4> QED
        BY <1>1, <2>4, <3>1, <3>3, <4>1 DEF RowOK, Exists, MessageOf, Active
    <3> QED
      BY <3>2, <3>3
  <2>7. \A e \in Deliveries : Exists(e) => delivery'[e] = delivery[e] /\ Exists(e)' /\ root'[e] = root[e]
    BY <1>3, <2>4 DEF Exists
  <2>8. ReplayingInv'
    BY <1>1, <2>7 DEF IInv, ReplayingInv, MessageOf, Exists
  <2>9. \A q \in Replays : q # r /\ delivery[q].state \in Active => root[q] # root[d]
    BY <1>3 DEF ReplaysOf, Exists, Active
  <2>10. OneActive'
    BY <2>3, <2>4, <2>9 DEF IInv, OneActive, Deliveries
  <2>11. \A e \in Deliveries : Leased(e)' => Leased(e)
    BY <2>1, <2>3, <2>4 DEF Leased
  <2>12. WithinCapacity' /\ ClaimsInv'
    BY <1>1, <2>7, <2>11, LeasesShrink DEF ClaimsInv
  <2>13. TypeOK'
    BY <1>1, <1>3, <2>1, <2>5 DEF ReplayInserts, runVars, IInv, TypeOK
  <2>14. Final
    BY <2>7 DEF Final, Terminal, Exists
  <2> QED
    BY <2>6, <2>8, <2>10, <2>12, <2>13, <2>14 DEF IInv, RowsInv
<1> QED
  BY <1>2, <1>3 DEF ReplayInserts

-----------------------------------------------------------------------------
(* The theorems *)

LEMMA InitHolds == Init => IInv
<1> SUFFICES ASSUME Init PROVE IInv
  OBVIOUS
<1>1. TypeOK
  BY WebhookAssumption DEF Init, TypeOK, Deliveries, DeliveryState, WorkerState, Absent, Idle
<1>2. \A d \in Deliveries : ~Exists(d) /\ delivery[d].state \notin Active /\ ~Leased(d) /\ ~delivery[d].ahead
  BY DEF Init, Exists, Absent, Active, Leased
<1>3. RowsInv /\ ReplayingInv /\ OneActive
  BY <1>2 DEF Init, RowsInv, RowOK, ReplayingInv, OneActive, Deliveries
<1>4. ClaimsInv
  BY DEF Init, ClaimsInv, ClaimOK, Idle
<1>5. Live = {} /\ \A ep : LiveOn(ep) = {}
  BY <1>2 DEF Live, LiveOn
<1>6. WithinCapacity
  BY <1>5, FS_EmptySet, WebhookAssumption DEF WithinCapacity
<1> QED
  BY <1>1, <1>3, <1>4, <1>6 DEF IInv

LEMMA StepHolds == IInv /\ [Next]_vars => IInv' /\ Final
<1> SUFFICES ASSUME IInv, [Next]_vars PROVE IInv' /\ Final
  OBVIOUS
<1>1. CASE UNCHANGED vars
  <2>1. TypeOK'
    BY <1>1 DEF vars, rowVars, runVars, IInv, TypeOK
  <2> QED
    BY <1>1, <2>1, RowsStill DEF vars, rowVars, runVars, WorkerMoves
<1>2. ASSUME NEW m \in Messages, Project(m) \/ EventAges(m) \/ Redact(m) PROVE IInv' /\ Final
  BY <1>2, ProjectStep, EventAgesStep, RedactStep
<1>3. ASSUME NEW ep \in Endpoints, SetEndpoint(ep) PROVE IInv' /\ Final
  BY <1>3, SetEndpointStep
<1>4. ASSUME NEW d \in Deliveries, TimePasses(d) \/ ReplayChecks(d) \/ ReplayInserts(d) PROVE IInv' /\ Final
  BY <1>4, TimePassesStep, ReplayChecksStep, ReplayInsertsStep
<1>5. CASE SweepExpires
  BY <1>5, SweepExpiresStep
<1>6. ASSUME NEW w \in Workers, WorkerStep(w) \/ WorkerStops(w) \/ \E d \in Deliveries : Wake(w, d)
      PROVE  IInv' /\ Final
  BY <1>6, ExpireStep, ClaimStep, LeaseStep, LoadStep, SettleStep, WorkerStopsStep, WakeStep DEF WorkerStep
<1> QED
  BY <1>1, <1>2, <1>3, <1>4, <1>5, <1>6 DEF Next

\* claimNativeWebhookDelivery never grants a lease past the tenant's or the
\* endpoint's capacity, however claims, settlements and sweeps interleave.
THEOREM CapacityHolds == Spec => []WebhookInv
<1>1. IInv => WebhookInv
  BY DEF IInv, WebhookInv
<1> QED
  BY <1>1, InitHolds, StepHolds, PTL DEF Spec

\* replayTenantWebhookDelivery leaves one active replay of an original, and
\* only of one that failed.
THEOREM ReplaysAreExclusive == Spec => []OneActiveReplay
<1>1. IInv => OneActiveReplay
  <2> SUFFICES ASSUME IInv, NEW d \in Subscribed
               PROVE  /\ \A r, q \in ReplaysOf(d) :
                           delivery[r].state \in Active /\ delivery[q].state \in Active => r = q
                      /\ ReplaysOf(d) # {} => delivery[d].state \in {"dead", "exhausted"}
    BY DEF OneActiveReplay
  <2>1. \A r \in ReplaysOf(d) : r \in Replays /\ Exists(r) /\ root[r] = d
    BY DEF ReplaysOf, IInv, RowsInv, RowOK, Deliveries
  <2>2. \A r \in ReplaysOf(d) : delivery[root[r]].state \in {"dead", "exhausted"}
    BY <2>1 DEF IInv, RowsInv, RowOK, Deliveries
  <2> QED
    BY <2>1, <2>2 DEF IInv, OneActive
<1> QED
  BY <1>1, InitHolds, StepHolds, PTL DEF Spec

\* redactExpiredWebhookPayloads leaves nothing to be sent of what it erased.
THEOREM ErasureStops == Spec => []ErasedIsStopped
<1>1. IInv => ErasedIsStopped
  BY DEF IInv, RowsInv, RowOK, ErasedIsStopped
<1> QED
  BY <1>1, InitHolds, StepHolds, PTL DEF Spec

\* No late settlement, claim, expiry or erasure changes a delivery that ended.
THEOREM EndIsFinal == Spec => TerminalStays
<1>1. IInv /\ [Next]_vars => [\A d \in Deliveries : delivery[d].state \in Terminal => delivery'[d] = delivery[d]]_vars
  BY StepHolds DEF Final
<1> QED
  BY <1>1, InitHolds, StepHolds, PTL DEF Spec, TerminalStays

-----------------------------------------------------------------------------
(* The deliveries implement the contract *)

\* What the contract sees of a row.
LEMMA StandingOf ==
    ASSUME NEW d \in Deliveries
    PROVE  /\ standing[d] = [phase |-> PhaseOf(delivery[d]), tries |-> delivery[d].attempts]
           /\ standing'[d] = [phase |-> PhaseOf(delivery'[d]), tries |-> delivery'[d].attempts]
           /\ Contract!Phase(d) = PhaseOf(delivery[d])
BY DEF standing, Contract!Phase, PhaseOf

\* Rows that move between phases, no answer counted, are a move of the contract.
LEMMA RowsMoveStanding ==
    ASSUME root' = root, NEW D, NEW from, NEW to,
           \A d \in Deliveries :
              \/ delivery'[d] = delivery[d]
              \/ /\ d \in D /\ PhaseOf(delivery[d]) \in from /\ PhaseOf(delivery'[d]) \in to
                 /\ delivery'[d].attempts = delivery[d].attempts
    PROVE  Contract!Move(D, from, to)
<1> DEFINE moved(d) ==
      IF d \in D /\ Contract!Phase(d) \in from /\ standing'[d].phase \in to
      THEN [standing[d] EXCEPT !.phase = standing'[d].phase] ELSE standing[d]
<1>1. ASSUME NEW d \in Deliveries PROVE standing'[d] = moved(d)
  <2>1. CASE delivery'[d] = delivery[d]
    BY <2>1, StandingOf
  <2>2. CASE /\ d \in D /\ PhaseOf(delivery[d]) \in from /\ PhaseOf(delivery'[d]) \in to
             /\ delivery'[d].attempts = delivery[d].attempts
    <3>1. /\ standing[d] = [phase |-> PhaseOf(delivery[d]), tries |-> delivery[d].attempts]
          /\ standing'[d] = [phase |-> PhaseOf(delivery'[d]), tries |-> delivery[d].attempts]
          /\ Contract!Phase(d) \in from /\ standing'[d].phase \in to
      BY <2>2, StandingOf
    <3>2. [standing[d] EXCEPT !.phase = standing'[d].phase] = standing'[d]
      BY <3>1
    <3> QED
      BY <2>2, <3>1, <3>2
  <2> QED
    BY <2>1, <2>2
<1>2. standing' = [d \in Deliveries |-> standing'[d]]
  BY DEF standing
<1> QED
  BY <1>1, <1>2 DEF Contract!Move

\* A delivery not created yet had no answer.
Fresh == \A d \in Deliveries : delivery[d].state = "absent" => delivery[d].attempts = 0

\* A row's phase, by its state and time.
LEMMA PhaseIs ==
    ASSUME IInv, NEW d \in Deliveries
    PROVE  /\ delivery[d].state \notin Active => PhaseOf(delivery[d]) = delivery[d].state
           /\ PhaseOf(delivery[d]) = "attempting" <=> Leased(d)
           /\ Due(d) => PhaseOf(delivery[d]) = "waiting"
           /\ Settleable(d) => PhaseOf(delivery[d]) \in {"waiting", "resting"}
           /\ delivery[d].ahead => PhaseOf(delivery[d]) \in {"resting", "attempting"}
           /\ PhaseOf(delivery[d]) \in Contract!Open <=> delivery[d].state \in Active
BY DEF IInv, TypeOK, DeliveryState, RowsInv, RowOK, PhaseOf, Leased, Due, Settleable,
   Active, Terminal, Contract!Open

\* A step that leaves rows and originals alone is no step of the contract.
LEMMA StandingStill ==
    ASSUME UNCHANGED <<delivery, root>>
    PROVE  UNCHANGED <<standing, root>>
BY DEF standing, PhaseOf

\* Closing settleable rows stops them.
LEMMA ClosingStops ==
    ASSUME IInv, root' = root, NEW D, NEW state \in {"dead", "exhausted"},
           \A d \in D : Settleable(d),
           delivery' = [d \in Deliveries |-> IF d \in D THEN Closed(d, state) ELSE delivery[d]]
    PROVE  Contract!Stop
<1>1. ASSUME NEW d \in Deliveries, d \in D
      PROVE  /\ PhaseOf(delivery[d]) \in {"waiting", "resting"}
             /\ PhaseOf(delivery'[d]) \in {"dead", "exhausted"}
             /\ delivery'[d].attempts = delivery[d].attempts
  <2>1. /\ Settleable(d) /\ delivery[d] \in DeliveryState
        /\ delivery'[d] = Closed(d, state)
    BY <1>1 DEF IInv, TypeOK
  <2>2. delivery'[d].state = state /\ delivery'[d].attempts = delivery[d].attempts
    BY <2>1 DEF Closed, DeliveryState
  <2> QED
    BY <1>1, <2>1, <2>2, PhaseIs DEF PhaseOf, Active
<1>2. \A d \in Deliveries \ D : delivery'[d] = delivery[d]
  OBVIOUS
<1> QED
  BY <1>1, <1>2, RowsMoveStanding DEF Contract!Stop
\* Projection creates deliveries that were not there.
LEMMA ProjectCreates ==
    ASSUME IInv, Fresh, NEW m \in Messages, Project(m)
    PROVE  Contract!Create \/ UNCHANGED <<delivery, root>>
<1>1. CASE UNCHANGED delivery
  BY <1>1 DEF Project
<1>2. CASE delivery' = [d \in Deliveries |->
             IF d \in Subscribed /\ d[1] = m /\ d[2] \in enabled THEN Pending ELSE delivery[d]]
  <2>1. ASSUME NEW d \in Deliveries, d \in Subscribed, d[1] = m
        PROVE  delivery[d].state = "absent" /\ delivery[d].attempts = 0
    <3>1. root[d] = d /\ message[m] = "absent"
      BY <2>1 DEF Project, IInv, RowsInv, RowOK
    <3>2. ~Exists(d)
      BY <2>1, <3>1 DEF IInv, RowsInv, RowOK, MessageOf
    <3> QED
      BY <3>2 DEF Exists, Fresh
  <2>2. ASSUME NEW d \in Deliveries
        PROVE  \/ delivery'[d] = delivery[d]
               \/ /\ d \in Subscribed /\ PhaseOf(delivery[d]) \in {"absent"}
                  /\ PhaseOf(delivery'[d]) \in {"waiting"}
                  /\ delivery'[d].attempts = delivery[d].attempts
    <3>1. CASE d \in Subscribed /\ d[1] = m /\ d[2] \in enabled
      BY <1>2, <2>1, <3>1 DEF PhaseOf, Pending, Active
    <3>2. CASE ~(d \in Subscribed /\ d[1] = m /\ d[2] \in enabled)
      BY <1>2, <3>2
    <3> QED
      BY <3>1, <3>2
  <2>3. root' = root
    BY DEF Project
  <2> QED
    BY <2>2, <2>3, RowsMoveStanding DEF Contract!Create
<1> QED
  BY <1>1, <1>2 DEF Project

\* Time brings a rest or a lease to its end.
LEMMA TimeComesDue ==
    ASSUME IInv, NEW d \in Deliveries, TimePasses(d)
    PROVE  Contract!ComesDue(d)
<1>1. /\ delivery[d] \in DeliveryState /\ delivery[d].ahead
      /\ delivery' = [delivery EXCEPT ![d].ahead = FALSE] /\ root' = root
      /\ delivery \in [Deliveries -> DeliveryState]
  BY DEF TimePasses, IInv, TypeOK
<1>2. delivery[d].state \in {"leased", "retry"} /\ PhaseOf(delivery[d]) \in {"resting", "attempting"}
  BY <1>1, PhaseIs DEF IInv, RowsInv, RowOK
<1>3. delivery'[d] = [delivery[d] EXCEPT !.ahead = FALSE]
  BY <1>1
<1>4. /\ delivery'[d].state = delivery[d].state /\ delivery'[d].ahead = FALSE
      /\ delivery'[d].attempts = delivery[d].attempts
  BY <1>1, <1>3 DEF DeliveryState
<1>5. PhaseOf(delivery'[d]) = "waiting"
  BY <1>2, <1>4 DEF PhaseOf, Active
<1>6. \A e \in Deliveries : e # d => delivery'[e] = delivery[e]
  BY <1>1
<1> QED
  BY <1>1, <1>2, <1>4, <1>5, <1>6, RowsMoveStanding DEF Contract!ComesDue

\* The worker's expiry, the sweep and the erasure stop deliveries no one is
\* attempting.
LEMMA ExpireStops ==
    ASSUME IInv, NEW w \in Workers, Expire(w)
    PROVE  Contract!Stop
<1> DEFINE D == IF Settleable(worker[w].on) THEN {worker[w].on} ELSE {}
<1>1. /\ worker[w].on \in Deliveries /\ delivery \in [Deliveries -> DeliveryState]
      /\ root' = root
  BY DEF Expire, IInv, TypeOK, ClaimsInv, ClaimOK
<1>2. delivery' = [d \in Deliveries |-> IF d \in D THEN Closed(d, "exhausted") ELSE delivery[d]]
  BY <1>1 DEF Expire
<1>3. \A d \in D : Settleable(d)
  OBVIOUS
<1> HIDE DEF D
<1> QED
  BY <1>1, <1>2, <1>3, ClosingStops

LEMMA SweepStops ==
    ASSUME IInv, SweepExpires
    PROVE  Contract!Stop
<1> DEFINE D == {d \in Deliveries : Settleable(d) /\ MessageOf(d) \notin inWindow}
<1>1. delivery' = [d \in Deliveries |-> IF d \in D THEN Closed(d, "exhausted") ELSE delivery[d]]
  BY DEF SweepExpires
<1>2. root' = root /\ \A d \in D : Settleable(d)
  BY DEF SweepExpires
<1> HIDE DEF D
<1> QED
  BY <1>1, <1>2, ClosingStops

LEMMA RedactStops ==
    ASSUME IInv, NEW m \in Messages, Redact(m)
    PROVE  Contract!Stop
<1> DEFINE D == {d \in Of(m) : delivery[d].state \in Active}
<1>1. delivery' = [d \in Deliveries |-> IF d \in D THEN Closed(d, "dead") ELSE delivery[d]]
  BY DEF Redact, Of
<1>2. root' = root /\ \A d \in D : Settleable(d)
  BY DEF Redact, Of, Settleable, Leased, Active, IInv, TypeOK, DeliveryState
<1> HIDE DEF D
<1> QED
  BY <1>1, <1>2, ClosingStops
\* The contract counts as this module does.
LEMMA ContractCardinality == \A S : Contract!Cardinality(S) = Cardinality(S)
BY Zenon DEF Contract!Cardinality, Cardinality

\* A claim's write is an attempt there is room for.
LEMMA LeaseAttempts ==
    ASSUME IInv, NEW w \in Workers, Lease(w)
    PROVE  UNCHANGED <<delivery, root>> \/ \E d \in Deliveries : Contract!Attempt(d)
<1>0. PICK d \in Deliveries : d = worker[w].on
  BY DEF Lease, IInv, TypeOK, ClaimsInv, ClaimOK
<1>1. CASE UNCHANGED delivery
  BY <1>1 DEF Lease
<1>2. CASE Due(d) /\ delivery' = [delivery EXCEPT ![d].state = "leased", ![d].ahead = TRUE, ![d].holder = w]
  <2>1. delivery[d] \in DeliveryState /\ delivery \in [Deliveries -> DeliveryState] /\ root' = root
    BY DEF Lease, IInv, TypeOK
  <2>2. /\ delivery'[d].state = "leased" /\ delivery'[d].ahead = TRUE
        /\ delivery'[d].attempts = delivery[d].attempts
    BY <1>2, <2>1 DEF DeliveryState
  <2>3. PhaseOf(delivery[d]) = "waiting" /\ PhaseOf(delivery'[d]) = "attempting"
    BY <1>2, <2>2, PhaseIs DEF PhaseOf, Active
  <2>4. \A e \in Deliveries : e # d => delivery'[e] = delivery[e]
    BY <1>2, <2>1
  <2>5. Contract!Move({d}, {"waiting"}, {"attempting"})
    BY <2>1, <2>2, <2>3, <2>4, RowsMoveStanding
  <2>6. /\ Contract!Attempted = Live
        /\ {e \in Contract!Attempted : root[e][2] = root[d][2]} = LiveOn(EndpointOf(d))
    BY PhaseIs, StandingOf DEF Contract!Attempted, Live, LiveOn, EndpointOf
  <2>7. Cardinality(Live) < MaxTenant /\ Cardinality(LiveOn(EndpointOf(d))) < MaxEndpoint
    BY <1>0 DEF Lease, IInv, ClaimsInv, ClaimOK
  <2>8. /\ Cardinality(Contract!Attempted) < MaxTenant
        /\ Cardinality({e \in Contract!Attempted : root[e][2] = root[d][2]}) < MaxEndpoint
    BY <2>6, <2>7
  <2> QED
    BY <2>5, <2>8, ContractCardinality DEF Contract!Attempt
<1> QED
  BY <1>0, <1>1, <1>2 DEF Lease

\* A settlement under a live lease is an answer within the attempts allowed.
LEMMA SettleAnswers ==
    ASSUME IInv, NEW w \in Workers, Settle(w)
    PROVE  UNCHANGED <<delivery, root>> \/ \E d \in Deliveries : Contract!Answer(d)
<1>0. PICK d \in Deliveries : d = worker[w].on
  BY DEF Settle, IInv, TypeOK, ClaimsInv, ClaimOK
<1>1. CASE UNCHANGED delivery
  BY <1>1 DEF Settle
<1>2. ASSUME Holds(w), NEW state \in Verdicts(d),
             delivery' = [delivery EXCEPT ![d] =
               [state |-> state, ahead |-> state = "retry", holder |-> Nothing, attempts |-> @.attempts + 1]]
      PROVE  Contract!Answer(d)
  <2> DEFINE tries == delivery[d].attempts + 1
             row == [state |-> state, ahead |-> state = "retry", holder |-> Nothing, attempts |-> tries]
             to == {"succeeded", "dead", IF tries = MaxAttempts THEN "exhausted" ELSE "resting"}
  <2>1. /\ delivery[d] \in DeliveryState /\ delivery \in [Deliveries -> DeliveryState] /\ root' = root
        /\ Leased(d) /\ RowOK(d)
    BY <1>0, <1>2 DEF Settle, IInv, TypeOK, RowsInv, Holds
  <2>2. tries \in Nat /\ tries <= MaxAttempts
    BY <2>1, WebhookAssumption DEF Leased, RowOK, DeliveryState, Active
  <2>3. delivery' = [delivery EXCEPT ![d] = row]
    BY <1>2, <2>1
  <2>4. PhaseOf(row) \in to
    <3>1. CASE state \in {"succeeded", "dead"}
      BY <3>1 DEF PhaseOf, Active
    <3>2. CASE state = "exhausted" /\ tries = MaxAttempts
      BY <3>2 DEF PhaseOf, Active
    <3>3. CASE state = "retry" /\ tries # MaxAttempts
      <4>1. row.state = "retry" /\ row.ahead = TRUE
        BY <3>3
      <4>2. PhaseOf(row) = "resting"
        BY <4>1 DEF PhaseOf, Active
      <4> QED
        BY <3>3, <4>2
    <3> QED
      BY <1>2, <2>2, <3>1, <3>2, <3>3, WebhookAssumption DEF Verdicts
  <2>5. row.attempts = tries
    OBVIOUS
  <2> HIDE DEF tries, row, to
  <2>6. ASSUME NEW e \in Deliveries
        PROVE  standing'[e] = IF e = d THEN [phase |-> PhaseOf(row), tries |-> tries] ELSE standing[e]
    BY <2>1, <2>3, <2>5, StandingOf
  <2>7. standing' = [standing EXCEPT ![d] = [phase |-> PhaseOf(row), tries |-> tries]]
    <3>1. standing' = [e \in Deliveries |-> standing'[e]] /\ standing = [e \in Deliveries |-> standing[e]]
      BY DEF standing
    <3> QED
      BY <2>6, <3>1
  <2>8. Contract!Phase(d) = "attempting" /\ standing[d].tries + 1 = tries
    <3>1. PhaseOf(delivery[d]) = "attempting"
      BY <1>0, <2>1, PhaseIs
    <3>2. standing[d] = [phase |-> PhaseOf(delivery[d]), tries |-> delivery[d].attempts]
      BY <1>0, StandingOf
    <3>3. standing[d].tries = delivery[d].attempts
      BY <3>2
    <3> QED
      BY <1>0, <3>1, <3>3, StandingOf DEF tries
  <2> QED
    BY <2>1, <2>2, <2>4, <2>7, <2>8 DEF Contract!Answer, to
<1> QED
  BY <1>0, <1>1, <1>2 DEF Settle

\* An inserted replay stands for an original that failed and that no other
\* replay is under way for.
LEMMA ReplayReplays ==
    ASSUME IInv, Fresh, NEW source \in Deliveries, ReplayInserts(source)
    PROVE  \/ UNCHANGED <<delivery, root>>
           \/ \E r \in Deliveries \ Subscribed, d \in Subscribed : Contract!Replay(r, d)
<1>1. CASE UNCHANGED <<delivery, root>>
  BY <1>1
<1>2. ASSUME \A q \in ReplaysOf(source) : delivery[q].state \notin Active,
             NEW r \in Replays, ~Exists(r),
             root' = [root EXCEPT ![r] = root[source]],
             delivery' = [delivery EXCEPT ![r] = Pending]
      PROVE  \E d \in Subscribed : Contract!Replay(r, d)
  <2>1. PICK d \in Subscribed : d = root[source]
    BY DEF ReplayInserts, IInv, ReplayingInv, RowsInv, RowOK, Exists
  <2>2. delivery[d].state \in {"dead", "exhausted"}
    <3>1. delivery[source].state \in {"dead", "exhausted"}
      BY DEF ReplayInserts, IInv, ReplayingInv
    <3> QED
      BY <2>1, <3>1 DEF Deliveries, Exists, IInv, RowsInv, RowOK
  <2>3. r \in Deliveries /\ d \in Deliveries /\ delivery \in [Deliveries -> DeliveryState]
    BY <2>1 DEF Deliveries, IInv, TypeOK
  <2>4. Contract!Phase(r) = "absent" /\ Contract!Phase(d) \in {"dead", "exhausted"}
    BY <1>2, <2>2, <2>3, PhaseIs, StandingOf DEF Exists, Active
  <2>5. ASSUME NEW q \in Deliveries \ {d}, root[q] = d
        PROVE  Contract!Phase(q) \notin Contract!Open
    <3>1. q \in Replays
      BY <2>5 DEF Deliveries, IInv, RowsInv, RowOK
    <3>2. delivery[q].state \notin Active
      BY <1>2, <2>1, <2>5, <3>1 DEF ReplaysOf, Exists, Active
    <3> QED
      BY <3>2, PhaseIs, StandingOf
  <2>6. standing' = [standing EXCEPT ![r].phase = "waiting"]
    <3>1. standing[r] = [phase |-> "absent", tries |-> 0]
      <4>1. delivery[r].state = "absent" /\ delivery[r].attempts = 0 /\ PhaseOf(delivery[r]) = "absent"
        BY <1>2, <2>3, <2>4, StandingOf DEF Fresh, Exists
      <4> QED
        BY <2>3, <4>1, StandingOf
    <3>2. delivery'[r] = Pending /\ \A e \in Deliveries \ {r} : delivery'[e] = delivery[e]
      BY <1>2, <2>3
    <3>3. standing'[r] = [phase |-> "waiting", tries |-> 0]
      <4>1. PhaseOf(Pending) = "waiting" /\ Pending.attempts = 0
        BY DEF Pending, PhaseOf, Active
      <4> QED
        BY <2>3, <3>2, <4>1, StandingOf
    <3>4. \A e \in Deliveries \ {r} : standing'[e] = standing[e]
      BY <3>2, StandingOf
    <3>5. standing' = [e \in Deliveries |-> standing'[e]] /\ standing = [e \in Deliveries |-> standing[e]]
      BY DEF standing
    <3> QED
      BY <2>3, <3>1, <3>3, <3>4, <3>5
  <2> QED
    BY <1>2, <2>1, <2>4, <2>5, <2>6 DEF Contract!Replay
<1>3. Replays \subseteq Deliveries \ Subscribed
  BY WebhookAssumption DEF Deliveries
<1> QED
  BY <1>1, <1>2, <1>3 DEF ReplayInserts

\* Every step is a step of the contract, or none.
LEMMA StepImplements ==
    ASSUME IInv, Fresh, [Next]_vars
    PROVE  [Contract!Next]_<<standing, root>>
<1>1. CASE UNCHANGED <<delivery, root>>
  BY <1>1, StandingStill
<1>2. CASE UNCHANGED vars \/ \E ep \in Endpoints : SetEndpoint(ep)
  BY <1>1, <1>2 DEF vars, rowVars, SetEndpoint
<1>3. ASSUME NEW m \in Messages, Project(m) \/ EventAges(m) \/ Redact(m)
      PROVE  [Contract!Next]_<<standing, root>>
  BY <1>1, <1>3, ProjectCreates, RedactStops DEF EventAges, rowVars, Contract!Next
<1>4. ASSUME NEW d \in Deliveries, TimePasses(d) \/ ReplayChecks(d) \/ ReplayInserts(d)
      PROVE  [Contract!Next]_<<standing, root>>
  BY <1>1, <1>4, TimeComesDue, ReplayReplays DEF ReplayChecks, rowVars, Contract!Next
<1>5. CASE SweepExpires
  BY <1>5, SweepStops DEF Contract!Next
<1>6. ASSUME NEW w \in Workers, WorkerStep(w)
      PROVE  [Contract!Next]_<<standing, root>>
  BY <1>1, <1>6, ExpireStops, LeaseAttempts, SettleAnswers
  DEF WorkerStep, Claim, Load, rowVars, Contract!Next
<1>7. ASSUME NEW w \in Workers, WorkerStops(w) \/ \E d \in Deliveries : Wake(w, d)
      PROVE  [Contract!Next]_<<standing, root>>
  BY <1>1, <1>7 DEF WorkerStops, Wake, rowVars
<1> QED
  BY <1>2, <1>3, <1>4, <1>5, <1>6, <1>7 DEF Next
\* No step of the contract takes a delivery back to absent.
LEMMA ContractKeepsFresh ==
    ASSUME Fresh, [Contract!Next]_<<standing, root>>
    PROVE  Fresh'
<1> DEFINE fresh(row) == row.phase = "absent" => row.tries = 0
<1>1. ASSUME NEW d \in Deliveries PROVE fresh(standing[d])
  <2>1. PhaseOf(delivery[d]) = "absent" => delivery[d].attempts = 0
    BY DEF Fresh, PhaseOf, Active
  <2>2. standing[d] = [phase |-> PhaseOf(delivery[d]), tries |-> delivery[d].attempts]
    BY StandingOf
  <2> QED
    BY <2>1, <2>2
<1>2. standing = [d \in Deliveries |-> standing[d]]
  BY DEF standing
<1>3. ASSUME NEW D, NEW from, NEW to, "absent" \notin to, Contract!Move(D, from, to),
             NEW d \in Deliveries
      PROVE  fresh(standing'[d])
  <2>1. \/ standing'[d] = standing[d]
        \/ standing'[d].phase \in to
    BY <1>3 DEF Contract!Move
  <2> QED
    BY <1>1, <1>3, <2>1
<1>4. ASSUME NEW e \in Deliveries, Contract!Answer(e), NEW d \in Deliveries
      PROVE  fresh(standing'[d])
  BY <1>1, <1>2, <1>4 DEF Contract!Answer
<1>5. ASSUME NEW r \in Deliveries, NEW o, Contract!Replay(r, o), NEW d \in Deliveries
      PROVE  fresh(standing'[d])
  <2>1. CASE d = r
    <3>1. standing'[r] = [standing[r] EXCEPT !.phase = "waiting"]
      BY <1>2, <1>5 DEF Contract!Replay
    <3>2. standing[r] = [phase |-> PhaseOf(delivery[r]), tries |-> delivery[r].attempts]
      BY StandingOf
    <3> QED
      BY <2>1, <3>1, <3>2
  <2>2. CASE d # r
    BY <1>1, <1>2, <1>5, <2>2 DEF Contract!Replay
  <2> QED
    BY <2>1, <2>2
<1>6. ASSUME NEW d \in Deliveries
      PROVE  fresh(standing'[d])
  <2>1. CASE UNCHANGED standing
    BY <1>1, <2>1
  <2>2. CASE Contract!Create \/ Contract!Stop \/ \E e \in Deliveries : Contract!ComesDue(e) \/ Contract!Attempt(e)
    BY <1>3, <2>2 DEF Contract!Create, Contract!Stop, Contract!ComesDue, Contract!Attempt
  <2> QED
    BY <1>4, <1>5, <2>1, <2>2 DEF Contract!Next
<1>7. \A d \in Deliveries : delivery'[d].state = "absent" => PhaseOf(delivery'[d]) = "absent"
  BY DEF PhaseOf, Active
<1> HIDE DEF fresh
<1>8. ASSUME NEW d \in Deliveries, delivery'[d].state = "absent"
      PROVE  delivery'[d].attempts = 0
  <2>1. standing'[d] = [phase |-> PhaseOf(delivery'[d]), tries |-> delivery'[d].attempts]
    BY StandingOf
  <2> QED
    BY <1>6, <1>7, <1>8, <2>1 DEF fresh
<1> QED
  BY <1>8 DEF Fresh

\* The webhook deliveries implement the abstract ones: each attempt finds the
\* delivery due and has room at the tenant and the endpoint, each answer counts
\* once and against MaxAttempts, what ended stays as it is, and an original
\* has one replay at a time.
THEOREM DeliveriesImplementContract == Spec => ImplementsContract
<1>1. Init => Contract!Init /\ Fresh
  <2> SUFFICES ASSUME Init PROVE Contract!Init /\ Fresh
    OBVIOUS
  <2>1. \A d \in Deliveries : delivery[d] = Absent
    BY DEF Init
  <2>2. PhaseOf(Absent) = "absent" /\ Absent.attempts = 0
    BY DEF Absent, PhaseOf, Active
  <2>3. standing = [d \in Deliveries |-> [phase |-> "absent", tries |-> 0]]
    BY <2>1, <2>2 DEF standing
  <2> QED
    BY <2>1, <2>2, <2>3 DEF Init, Contract!Init, Fresh
<1>2. IInv /\ Fresh /\ [Next]_vars => Fresh' /\ [Contract!Next]_<<standing, root>>
  BY StepImplements, ContractKeepsFresh
<1> QED
  BY <1>1, <1>2, InitHolds, StepHolds, PTL DEF Spec, ImplementsContract, Contract!Spec, Contract!contractVars
=============================================================================
