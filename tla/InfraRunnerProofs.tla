------------------------- MODULE InfraRunnerProofs -------------------------
(***************************************************************************)
(* Proofs about the infrastructure runner for every set of operations,     *)
(* plans, resources and runs, and every number of creates and faults.      *)
(***************************************************************************)
EXTENDS InfraRunner, SequenceTheorems, TLAPS

-----------------------------------------------------------------------------
(* The inductive invariant *)

Handling == {"reconcile", "again", "doubt", "check", "intent", "begin", "wait", "retry",
             "bind", "commit", "record", "release", "giveup"}

\* What a run read was so, and stays so unless it is what the run will compare.
RunOK(r) == LET c == run[r] IN
    /\ c.seen \subseteq Made
    /\ \A q \in Resources : c.base[q] # Nothing => c.base[q].id \in Named(Made, q)
    /\ \A d \in 1..c.upto : d \in DOMAIN calls /\ calls[d].at # "sent"
    /\ c.pc \in Handling => c.on \in Resources
    /\ c.pc \in {"bind", "commit"} => c.call \in Named(Made, c.on)
    /\ c.pc \in {"reconcile", "again"} /\ c.call # 0 => c.call \in Named(Made, c.on)
    /\ c.pc = "wait" => c.call \in DOMAIN calls /\ calls[c.call].resource = c.on
    /\ c.pc = "begin" => c.on \in started[OperationOf[r]]
    /\ c.pc = "commit" => /\ c.generation <= generation
                          /\ c.base[c.on] = Nothing
                          /\ c.generation = generation => c.base = binding
    /\ c.pc = "record" => binding[c.on] # Nothing

\* A run that holds the target since its last check has nothing in flight, and any
\* resource of the name that appeared since is a stray call's.
HoldOK(r) == LET c == run[r] IN
    /\ c.pc \in {"idle", "observe", "resume", "reserve", "reconcile", "again"} => ~Held(r)
    /\ Held(r) /\ c.pc \in {"check", "intent", "begin", "retry"} => reservation.inflight = 0
    /\ Held(r) /\ c.pc \in {"intent", "begin"} => Named(Made, c.on) \subseteq stray

\* Each call is in its operation's journal, and of the calls for a resource all but the
\* last were refused or are stray.
CallsOK ==
    /\ \A c \in DOMAIN calls : calls[c].resource \in started[calls[c].op]
    /\ \A c, d \in DOMAIN calls :
         c < d /\ calls[c].resource = calls[d].resource => calls[c].at = "refused" \/ c \in stray

StoreOK ==
    /\ \A op \in Operations : \A q \in completed[op] : binding[q] # Nothing
    /\ \A q \in Resources : binding[q] # Nothing => binding[q].id \in Named(Made, q)

RunsOK == \A r \in Runs : RunOK(r) /\ HoldOK(r)

IInv == TypeOK /\ Fenced /\ CallsOK /\ StoreOK /\ RunsOK

-----------------------------------------------------------------------------
(* What no step undoes *)

Later ==
    /\ \A c \in DOMAIN calls :
         /\ c \in DOMAIN calls'
         /\ calls'[c].resource = calls[c].resource
         /\ calls'[c].op = calls[c].op
         /\ calls[c].at # "sent" => calls'[c].at = calls[c].at
    /\ \A op \in Operations : started[op] \subseteq started'[op]
    /\ \A q \in Resources : binding[q] # Nothing => binding'[q] = binding[q]
    /\ generation' >= generation
    /\ generation' = generation => binding' = binding

\* A call's position is a positive number, and its row has the parts of one.
LEMMA CallsFacts ==
    ASSUME TypeOK
    PROVE  /\ DOMAIN calls = 1..Len(calls) /\ Len(calls) \in Nat
           /\ DOMAIN calls \subseteq CallIds
           /\ \A c \in DOMAIN calls : calls[c] \in CallRow
           /\ Made \subseteq DOMAIN calls
BY InfraAssumption DEF TypeOK, Made, CallIds

\* The resources of a name, before and after a step.
LEMMA MadeGrows ==
    ASSUME Later
    PROVE  /\ Made \subseteq Made'
           /\ \A q : Named(Made, q) \subseteq Named(Made, q)'
BY DEF Later, Made, Named

LEMMA RunKept ==
    ASSUME IInv, Later, generation \in Nat, generation' \in Nat,
           NEW r \in Runs, run'[r] = run[r]
    PROVE  RunOK(r)'
<1>1. RunOK(r) /\ run[r] \in RunRow
  BY DEF IInv, RunsOK, TypeOK
<1>2. /\ run[r].base \in BindingType /\ run[r].generation \in Nat /\ OperationOf[r] \in Operations
      /\ run[r].pc \in Handling => run[r].on \in Resources
  BY <1>1, InfraAssumption DEF RunRow, RunOK
<1>3. run[r].seen \subseteq Made'
  BY <1>1, MadeGrows DEF RunOK
<1>4. \A q \in Resources : run[r].base[q] # Nothing => run[r].base[q].id \in Named(Made, q)'
  BY <1>1, MadeGrows DEF RunOK
<1>5. \A d \in 1..run[r].upto : d \in DOMAIN calls' /\ calls'[d].at # "sent"
  BY <1>1 DEF RunOK, Later
<1>6. /\ run[r].pc \in {"bind", "commit"} => run[r].call \in Named(Made, run[r].on)'
      /\ run[r].pc \in {"reconcile", "again"} /\ run[r].call # 0 => run[r].call \in Named(Made, run[r].on)'
  BY <1>1, MadeGrows DEF RunOK
<1>7. run[r].pc = "wait" => run[r].call \in DOMAIN calls' /\ calls'[run[r].call].resource = run[r].on
  BY <1>1 DEF RunOK, Later
<1>8. run[r].pc = "begin" => run[r].on \in started'[OperationOf[r]]
  BY <1>1, <1>2 DEF RunOK, Later
<1>9. run[r].pc = "commit" => /\ run[r].generation <= generation'
                              /\ run[r].base[run[r].on] = Nothing
                              /\ run[r].generation = generation' => run[r].base = binding'
  <2>1. SUFFICES ASSUME run[r].pc = "commit"
                 PROVE  /\ run[r].generation <= generation'
                        /\ run[r].base[run[r].on] = Nothing
                        /\ run[r].generation = generation' => run[r].base = binding'
    OBVIOUS
  <2>2. /\ run[r].generation <= generation
        /\ run[r].base[run[r].on] = Nothing
        /\ run[r].generation = generation => run[r].base = binding
    BY <1>1, <2>1 DEF RunOK
  <2> QED
    BY <1>2, <2>2 DEF Later
<1>10. run[r].pc = "record" => binding'[run[r].on] # Nothing
  BY <1>1, <1>2 DEF RunOK, Later, Handling
<1> QED
  BY <1>2, <1>3, <1>4, <1>5, <1>6, <1>7, <1>8, <1>9, <1>10 DEF RunOK

\* A step leaves what a run holds alone, or takes the target from it; and what
\* appeared was in flight or is stray.
Left(r) == Held(r)' => Held(r) /\ reservation'.inflight = reservation.inflight
Known ==
    \A d \in Made' : \/ d \in Made \/ d \in stray'
                     \/ d \in CallIds /\ reservation # Nothing /\ reservation.inflight = d

LEMMA HoldKept ==
    ASSUME IInv, Later, Known, stray \subseteq stray', NEW r \in Runs, run'[r] = run[r], Left(r)
    PROVE  HoldOK(r)'
<1>1. HoldOK(r)
  BY DEF IInv, RunsOK
<1>2. run[r].pc \in {"idle", "observe", "resume", "reserve", "reconcile", "again"} => ~Held(r)'
  BY <1>1 DEF HoldOK, Left
<1>3. Held(r)' /\ run[r].pc \in {"check", "intent", "begin", "retry"} => reservation'.inflight = 0
  BY <1>1 DEF HoldOK, Left
<1>4. ASSUME Held(r)', run[r].pc \in {"intent", "begin"}, NEW d \in Named(Made, run[r].on)'
      PROVE  d \in stray'
  <2>1. Held(r) /\ reservation.inflight = 0 /\ Named(Made, run[r].on) \subseteq stray
    BY <1>1, <1>4 DEF HoldOK, Left
  <2>2. d \in Made' /\ calls'[d].resource = run[r].on
    BY <1>4 DEF Named
  <2>3. CASE d \in Made
    <3>1. calls[d].resource = run[r].on
      BY <2>2, <2>3 DEF Later, Made
    <3> QED
      BY <2>1, <2>3, <3>1 DEF Named
  <2>4. d \in CallIds => d # 0
    BY DEF CallIds
  <2> QED
    BY <2>1, <2>2, <2>3, <2>4 DEF Known
<1> QED
  BY <1>2, <1>3, <1>4 DEF HoldOK

\* A step of one run keeps what holds of the others.
LEMMA RunsKept ==
    ASSUME IInv, Later, Known, stray \subseteq stray', generation \in Nat, generation' \in Nat,
           NEW r \in Runs, \A s \in Runs \ {r} : run'[s] = run[s] /\ Left(s),
           RunOK(r)', HoldOK(r)'
    PROVE  RunsOK'
<1>1. ASSUME NEW s \in Runs PROVE RunOK(s)' /\ HoldOK(s)'
  <2>1. CASE s = r
    BY <2>1
  <2>2. CASE s # r
    <3>1. run'[s] = run[s] /\ Left(s)
      BY <2>2
    <3> QED
      BY <3>1, RunKept, HoldKept
  <2> QED
    BY <2>1, <2>2
<1> QED
  BY <1>1 DEF RunsOK

\* A run that ended knows nothing and holds nothing.
LEMMA EndedRow == Ended \in RunRow /\ Idle \in RunRow
<1>1. Unbound \in BindingType
  BY DEF Unbound, BindingType
<1>2. 0 \in 0..MaxCalls
  BY InfraAssumption
<1> QED
  BY <1>1, <1>2 DEF Ended, Idle, RunRow

LEMMA EndedOK ==
    ASSUME NEW r \in Runs, run'[r] = Ended
    PROVE  RunOK(r)' /\ HoldOK(r)'
<1>1. /\ run'[r].pc = "ended" /\ run'[r].seen = {} /\ run'[r].upto = 0
      /\ \A q \in Resources : run'[r].base[q] = Nothing
  BY DEF Ended, Idle, Unbound
<1> QED
  BY <1>1 DEF RunOK, HoldOK, Handling

-----------------------------------------------------------------------------
(* Steps that change only the run *)

Quiet == UNCHANGED <<calls, storeVars, stray>>

LEMMA QuietKeeps ==
    ASSUME IInv, Quiet, faults' \in 0..MaxFaults, NEW r \in Runs, run' \in [Runs -> RunRow],
           \A s \in Runs \ {r} : run'[s] = run[s], RunOK(r)', HoldOK(r)'
    PROVE  IInv'
<1> USE DEF Quiet, storeVars
<1>1. TypeOK'
  BY DEF IInv, TypeOK
<1>2. Fenced' /\ CallsOK' /\ StoreOK'
  BY DEF IInv, Fenced, CallsOK, StoreOK, Made, Named
<1>3. generation \in Nat /\ generation' \in Nat
  BY DEF IInv, TypeOK
<1>4. Later
  BY <1>3 DEF Later
<1>5. Known /\ \A s \in Runs : Left(s)
  BY DEF Known, Left, Held, Made
<1>6. RunsOK'
  BY <1>3, <1>4, <1>5, RunsKept
<1> QED
  BY <1>1, <1>2, <1>6 DEF IInv

LEMMA QuietEnd ==
    ASSUME IInv, Quiet, faults' \in 0..MaxFaults, NEW r \in Runs, End(r)
    PROVE  IInv'
<1>1. run' \in [Runs -> RunRow] /\ run'[r] = Ended /\ \A s \in Runs \ {r} : run'[s] = run[s]
  BY EndedRow DEF End, IInv, TypeOK
<1> QED
  BY <1>1, EndedOK, QuietKeeps

\* The facts a step of a run starts from.
LEMMA RunFacts ==
    ASSUME IInv, NEW r \in Runs
    PROVE  /\ TypeOK /\ RunOK(r) /\ HoldOK(r) /\ run[r] \in RunRow
           /\ run \in [Runs -> RunRow] /\ OperationOf[r] \in Operations
           /\ faults \in 0..MaxFaults
BY InfraAssumption DEF IInv, RunsOK, TypeOK

\* A step that only moves a run on, or changes what it remembers.
LEMMA StartInv ==
    ASSUME IInv, NEW r \in Runs, Start(r)
    PROVE  IInv'
<1>0. TypeOK /\ RunOK(r) /\ HoldOK(r) /\ run[r] \in RunRow /\ run \in [Runs -> RunRow]
  BY RunFacts
<1>1. Quiet /\ faults' \in 0..MaxFaults /\ run[r].pc = "idle"
  BY RunFacts DEF Quiet, Start
<1>2. CASE End(r)
  BY <1>1, <1>2, QuietEnd
<1>3. CASE ~End(r)
  <2>1. PICK confirmed \in BOOLEAN :
           /\ confirmed => \A c \in DOMAIN calls : calls[c].at # "sent"
           /\ run' = [run EXCEPT ![r].pc = "observe", ![r].base = binding, ![r].confirmed = confirmed,
                                 ![r].upto = IF confirmed THEN Len(calls) ELSE 0]
    BY <1>3 DEF Start
  <2> DEFINE upto == IF confirmed THEN Len(calls) ELSE 0
  <2>2. upto \in 0..MaxCalls /\ \A d \in 1..upto : d \in DOMAIN calls /\ calls[d].at # "sent"
    <3>1. CASE confirmed
      BY <1>0, <2>1, <3>1, CallsFacts DEF TypeOK
    <3>2. CASE ~confirmed
      BY <3>2, InfraAssumption
    <3> QED
      BY <3>1, <3>2
  <2>3. run' = [run EXCEPT ![r].pc = "observe", ![r].base = binding, ![r].confirmed = confirmed,
                           ![r].upto = upto]
    BY <2>1
  <2> HIDE DEF upto
  <2>4. run'[r] = [run[r] EXCEPT !.pc = "observe", !.base = binding, !.confirmed = confirmed, !.upto = upto]
    BY <1>0, <2>3
  <2>5. run' \in [Runs -> RunRow] /\ \A s \in Runs \ {r} : run'[s] = run[s]
    BY <1>0, <2>2, <2>3 DEF RunRow, TypeOK
  <2>6. run'[r].pc = "observe" /\ run'[r].seen = run[r].seen /\ run'[r].base = binding /\ run'[r].upto = upto
    BY <1>0, <2>4 DEF RunRow
  <2>7. RunOK(r)'
    <3>1. run'[r].seen \subseteq Made'
      BY <1>0, <1>1, <2>6 DEF RunOK, Made, Quiet
    <3>2. \A q \in Resources : run'[r].base[q] # Nothing => run'[r].base[q].id \in Named(Made, q)'
      BY <1>1, <2>6 DEF IInv, StoreOK, Made, Named, Quiet
    <3>3. \A d \in 1..run'[r].upto : d \in DOMAIN calls' /\ calls'[d].at # "sent"
      BY <1>1, <2>2, <2>6 DEF Quiet
    <3> QED
      BY <2>6, <3>1, <3>2, <3>3 DEF RunOK, Handling
  <2>8. HoldOK(r)'
    BY <1>0, <1>1, <2>6 DEF HoldOK, Held, Quiet, storeVars
  <2> QED
    BY <1>1, <2>5, <2>7, <2>8, QuietKeeps
<1> QED
  BY <1>2, <1>3

LEMMA ObserveInv ==
    ASSUME IInv, NEW r \in Runs, Observe(r)
    PROVE  IInv'
<1> USE DEF Observe
<1>0. TypeOK /\ RunOK(r) /\ HoldOK(r) /\ run[r] \in RunRow /\ run \in [Runs -> RunRow]
  BY RunFacts
<1>1. Quiet /\ faults' \in 0..MaxFaults
  BY RunFacts DEF Quiet
<1>2. CASE End(r)
  BY <1>1, <1>2, QuietEnd
<1>3. CASE run' = [run EXCEPT ![r].pc = "resume", ![r].seen = Made]
  <2>1. run'[r] = [run[r] EXCEPT !.pc = "resume", !.seen = Made]
    BY <1>0, <1>3
  <2>2. run' \in [Runs -> RunRow] /\ \A s \in Runs \ {r} : run'[s] = run[s]
    BY <1>0, <1>3, CallsFacts DEF RunRow
  <2>3. /\ run'[r].pc = "resume" /\ run'[r].seen = Made /\ run'[r].base = run[r].base
        /\ run'[r].upto = run[r].upto
    BY <1>0, <2>1 DEF RunRow
  <2>4. RunOK(r)'
    BY <1>0, <1>1, <2>3 DEF RunOK, Handling, Made, Named, Quiet
  <2>5. HoldOK(r)'
    BY <1>0, <1>1, <2>3 DEF HoldOK, Held, Quiet, storeVars
  <2> QED
    BY <1>1, <2>2, <2>4, <2>5, QuietKeeps
<1> QED
  BY <1>2, <1>3

LEMMA ResumeInv ==
    ASSUME IInv, NEW r \in Runs, Resume(r)
    PROVE  IInv'
<1>0. TypeOK /\ RunOK(r) /\ HoldOK(r) /\ run[r] \in RunRow /\ run \in [Runs -> RunRow]
  BY RunFacts
<1>1. Quiet /\ faults' \in 0..MaxFaults
  BY RunFacts DEF Quiet, Resume
<1>2. CASE End(r)
  BY <1>1, <1>2, QuietEnd
<1>3. CASE ~End(r)
  <2> DEFINE unknown == started[OperationOf[r]] \ completed[OperationOf[r]]
             pending == Plan[OperationOf[r]] \ completed[OperationOf[r]]
  <2>1. PICK complete \in BOOLEAN :
           run' = [run EXCEPT ![r].pc = "reserve", ![r].unknown = unknown, ![r].todo = pending,
                              ![r].complete = complete]
    BY <1>3 DEF Resume
  <2>2. unknown \subseteq Resources /\ pending \subseteq Resources
    BY <1>0, RunFacts, InfraAssumption DEF TypeOK
  <2> HIDE DEF unknown, pending
  <2>3. run'[r] = [run[r] EXCEPT !.pc = "reserve", !.unknown = unknown, !.todo = pending,
                                 !.complete = complete]
    BY <1>0, <2>1
  <2>4. run' \in [Runs -> RunRow] /\ \A s \in Runs \ {r} : run'[s] = run[s]
    BY <1>0, <2>1, <2>2 DEF RunRow
  <2>5. /\ run'[r].pc = "reserve" /\ run'[r].seen = run[r].seen /\ run'[r].base = run[r].base
        /\ run'[r].upto = run[r].upto
    BY <1>0, <2>3 DEF RunRow
  <2>6. RunOK(r)'
    BY <1>0, <1>1, <2>5 DEF RunOK, Handling, Made, Named, Quiet
  <2>7. run[r].pc = "resume"
    BY DEF Resume
  <2>8. HoldOK(r)'
    BY <1>0, <1>1, <2>5, <2>7 DEF HoldOK, Held, Quiet, storeVars
  <2> QED
    BY <1>1, <2>4, <2>6, <2>8, QuietKeeps
<1> QED
  BY <1>2, <1>3

LEMMA CheckInv ==
    ASSUME IInv, NEW r \in Runs, Check(r)
    PROVE  IInv'
<1>0. TypeOK /\ RunOK(r) /\ HoldOK(r) /\ run[r] \in RunRow /\ run \in [Runs -> RunRow]
  BY RunFacts
<1>1. Quiet /\ faults' \in 0..MaxFaults /\ run[r].pc = "check"
  BY RunFacts DEF Quiet, Check
<1>2. PICK pc \in {"intent", "giveup"} :
         Goto(r, pc) /\ (pc = "intent" => Named(Made, run[r].on) = {})
  BY DEF Check
<1>3. run'[r] = [run[r] EXCEPT !.pc = pc]
  BY <1>0, <1>2 DEF Goto
<1>4. run' \in [Runs -> RunRow] /\ \A s \in Runs \ {r} : run'[s] = run[s]
  BY <1>0, <1>2 DEF RunRow, Goto
<1>5. /\ run'[r].pc = pc /\ run'[r].seen = run[r].seen /\ run'[r].base = run[r].base
      /\ run'[r].upto = run[r].upto /\ run'[r].on = run[r].on
  BY <1>0, <1>3 DEF RunRow
<1>6. RunOK(r)'
  BY <1>0, <1>1, <1>2, <1>5 DEF RunOK, Handling, Made, Named, Quiet
<1>7. HoldOK(r)'
  <2>1. Held(r)' = Held(r) /\ reservation' = reservation /\ \A q : Named(Made, q)' = Named(Made, q)
    BY <1>1 DEF Held, Quiet, storeVars, Named, Made
  <2>2. Held(r) => reservation.inflight = 0
    BY <1>0, <1>1 DEF HoldOK
  <2>3. pc = "intent" => Named(Made, run[r].on)' = {}
    BY <1>2, <1>5, <2>1
  <2> QED
    BY <1>5, <2>1, <2>2, <2>3 DEF HoldOK
<1> QED
  BY <1>1, <1>4, <1>6, <1>7, QuietKeeps

LEMMA AnswerLostInv ==
    ASSUME IInv, NEW r \in Runs, AnswerLost(r)
    PROVE  IInv'
<1>0. TypeOK /\ RunOK(r) /\ HoldOK(r) /\ run[r] \in RunRow /\ run \in [Runs -> RunRow]
  BY RunFacts
<1>1. Quiet /\ faults' \in 0..MaxFaults /\ run[r].pc = "wait" /\ Goto(r, "doubt")
  BY RunFacts, InfraAssumption DEF Quiet, AnswerLost, Fault
<1>2. run'[r] = [run[r] EXCEPT !.pc = "doubt"]
  BY <1>0, <1>1 DEF Goto
<1>3. run' \in [Runs -> RunRow] /\ \A s \in Runs \ {r} : run'[s] = run[s]
  BY <1>0, <1>1 DEF RunRow, Goto
<1>4. /\ run'[r].pc = "doubt" /\ run'[r].seen = run[r].seen /\ run'[r].base = run[r].base
      /\ run'[r].upto = run[r].upto /\ run'[r].on = run[r].on
  BY <1>0, <1>2 DEF RunRow
<1>5. RunOK(r)' /\ HoldOK(r)'
  BY <1>0, <1>1, <1>4 DEF RunOK, HoldOK, Handling, Made, Named, Quiet
<1> QED
  BY <1>1, <1>3, <1>5, QuietKeeps

LEMMA BindInv ==
    ASSUME IInv, NEW r \in Runs, Bind(r)
    PROVE  IInv'
<1>0. TypeOK /\ RunOK(r) /\ HoldOK(r) /\ run[r] \in RunRow /\ run \in [Runs -> RunRow]
  BY RunFacts
<1>1. Quiet /\ faults' \in 0..MaxFaults /\ run[r].pc = "bind"
  BY RunFacts DEF Quiet, Bind
<1>2. PICK pc \in {"commit", "record", "doubt"} :
         /\ run' = [run EXCEPT ![r].pc = pc, ![r].base = binding, ![r].generation = generation]
         /\ pc = "commit" => binding[run[r].on] = Nothing
         /\ pc = "record" => binding[run[r].on] # Nothing
  BY DEF Bind
<1>3. run'[r] = [run[r] EXCEPT !.pc = pc, !.base = binding, !.generation = generation]
  BY <1>0, <1>2
<1>4. run' \in [Runs -> RunRow] /\ \A s \in Runs \ {r} : run'[s] = run[s]
  BY <1>0, <1>2 DEF RunRow, TypeOK
<1>5. /\ run'[r].pc = pc /\ run'[r].seen = run[r].seen /\ run'[r].base = binding
      /\ run'[r].generation = generation
      /\ run'[r].upto = run[r].upto /\ run'[r].on = run[r].on /\ run'[r].call = run[r].call
  BY <1>0, <1>3 DEF RunRow
<1>6. RunOK(r)'
  <2>1. /\ calls' = calls /\ binding' = binding /\ generation' = generation
        /\ Made' = Made /\ \A q : Named(Made, q)' = Named(Made, q)
    BY <1>1 DEF Quiet, storeVars, Made, Named
  <2>2. run'[r].seen \subseteq Made'
    BY <1>0, <1>5, <2>1 DEF RunOK
  <2>3. \A q \in Resources : run'[r].base[q] # Nothing => run'[r].base[q].id \in Named(Made, q)'
    BY <1>5, <2>1 DEF IInv, StoreOK
  <2>4. \A d \in 1..run'[r].upto : d \in DOMAIN calls' /\ calls'[d].at # "sent"
    BY <1>0, <1>5, <2>1 DEF RunOK
  <2>5. run[r].on \in Resources /\ run[r].call \in Named(Made, run[r].on)
    BY <1>0, <1>1 DEF RunOK, Handling
  <2>6. (run[r].on \in Resources /\ run[r].call \in Named(Made, run[r].on))'
    BY <1>5, <2>1, <2>5
  <2>7. run'[r].generation <= generation' /\ run'[r].base = binding'
    BY <1>0, <1>5, <2>1 DEF TypeOK
  <2>8. /\ run'[r].pc = "commit" => run'[r].base[run'[r].on] = Nothing
        /\ run'[r].pc = "record" => binding'[run'[r].on] # Nothing
    BY <1>2, <1>5, <2>1
  <2> QED
    BY <1>5, <2>2, <2>3, <2>4, <2>6, <2>7, <2>8 DEF RunOK
<1>7. HoldOK(r)'
  BY <1>5 DEF HoldOK
<1> QED
  BY <1>1, <1>4, <1>6, <1>7, QuietKeeps

-----------------------------------------------------------------------------
(* Steps that change the reservation, or add to a journal *)

LEMMA ReservationFacts ==
    ASSUME TypeOK, reservation # Nothing
    PROVE  /\ reservation \in ReservationRow
           /\ [reservation EXCEPT !.live = TRUE] \in ReservationRow
           /\ [reservation EXCEPT !.live = FALSE] \in ReservationRow
           /\ [reservation EXCEPT !.uncertain = TRUE] \in ReservationRow
           /\ [reservation EXCEPT !.inflight = 0] \in ReservationRow
           /\ \A c \in CallIds : [reservation EXCEPT !.inflight = c] \in ReservationRow
           /\ \A row \in ReservationRow : row # Nothing
BY InfraAssumption DEF TypeOK, ReservationRow

LEMMA ReservationKeeps ==
    ASSUME IInv, UNCHANGED <<calls, binding, generation>>, faults' \in 0..MaxFaults,
           reservation' \in ReservationRow \cup {Nothing},
           started' \in [Operations -> SUBSET Resources],
           \A op \in Operations : started[op] \subseteq started'[op],
           completed' \in [Operations -> SUBSET Resources],
           \A op \in Operations : \A q \in completed'[op] : binding[q] # Nothing,
           stray \subseteq stray', stray' \subseteq CallIds, Fenced',
           NEW r \in Runs, run' \in [Runs -> RunRow],
           \A s \in Runs \ {r} : run'[s] = run[s] /\ Left(s), RunOK(r)', HoldOK(r)'
    PROVE  IInv'
<1>1. TypeOK'
  BY DEF IInv, TypeOK
<1>2. CallsOK'
  <2>1. \A c \in DOMAIN calls' : calls'[c].resource \in started'[calls'[c].op]
    <3>1. ASSUME NEW c \in DOMAIN calls PROVE calls[c].resource \in started'[calls[c].op]
      <4>1. calls[c].op \in Operations
        BY CallsFacts DEF IInv, CallRow
      <4> QED
        BY <4>1 DEF IInv, CallsOK
    <3> QED
      BY <3>1
  <2>2. \A c, d \in DOMAIN calls' :
          c < d /\ calls'[c].resource = calls'[d].resource => calls'[c].at = "refused" \/ c \in stray'
    BY DEF IInv, CallsOK
  <2> QED
    BY <2>1, <2>2 DEF CallsOK
<1>3. StoreOK'
  <2>1. \A q \in Resources : binding'[q] # Nothing => binding'[q].id \in Named(Made, q)'
    BY DEF IInv, StoreOK, Made, Named
  <2> QED
    BY <2>1 DEF StoreOK
<1>4. generation \in Nat /\ generation' \in Nat
  BY DEF IInv, TypeOK
<1>5. Later
  BY <1>4 DEF Later
<1>6. Known
  BY DEF Known, Made
<1>7. RunsOK'
  BY <1>4, <1>5, <1>6, RunsKept
<1> QED
  BY <1>1, <1>2, <1>3, <1>7 DEF IInv

\* Taking the target does not unmark a call, and takes it from everyone else.
LEMMA AcquireFacts ==
    ASSUME IInv, NEW r \in Runs, Acquirable(r), Acquire(r), UNCHANGED <<calls, stray>>
    PROVE  /\ reservation' \in ReservationRow /\ Fenced'
           /\ reservation' # Nothing /\ reservation'.holder = r
           /\ ~Held(r) => reservation'.inflight = 0
           /\ Held(r) => reservation'.inflight = reservation.inflight
           /\ \A s \in Runs \ {r} : Left(s)
<1>0. TypeOK /\ Fenced
  BY DEF IInv
<1>1. CASE Held(r)
  <2>1. reservation # Nothing /\ reservation.holder = r
        /\ reservation' = [reservation EXCEPT !.live = TRUE]
    BY <1>1 DEF Held, Acquire
  <2>2. reservation' \in ReservationRow /\ reservation' # Nothing
    BY <1>0, <2>1, ReservationFacts
  <2>3. reservation'.holder = r /\ reservation'.inflight = reservation.inflight
    BY <1>0, <2>1, ReservationFacts DEF ReservationRow
  <2>4. Fenced'
    BY <1>0, <2>2, <2>3 DEF Fenced
  <2>5. \A s \in Runs \ {r} : Left(s)
    BY <2>3 DEF Left, Held
  <2> QED
    BY <1>1, <2>2, <2>3, <2>4, <2>5
<1>2. CASE ~Held(r)
  <2>1. reservation' = [holder |-> r, live |-> TRUE, uncertain |-> FALSE, inflight |-> 0]
    BY <1>2 DEF Held, Acquire
  <2>2. reservation' \in ReservationRow /\ reservation' # Nothing
    <3>1. reservation' \in ReservationRow
      BY <2>1 DEF ReservationRow
    <3> QED
      BY <3>1, InfraAssumption
  <2>3. reservation = Nothing \/ reservation.inflight = 0
    BY <1>2 DEF Acquirable, Renewable, Abandoned
  <2>4. Fenced'
    <3>1. \A c \in DOMAIN calls : c # 0
      BY <1>0, CallsFacts
    <3> QED
      BY <1>0, <2>3, <3>1 DEF Fenced
  <2>5. \A s \in Runs \ {r} : Left(s)
    BY <2>1 DEF Left, Held
  <2> QED
    BY <1>2, <2>1, <2>2, <2>4, <2>5
<1> QED
  BY <1>1, <1>2

\* Marking the target uncertain changes neither its holder nor what is in flight.
LEMMA UncertainFacts ==
    ASSUME IInv, reservation # Nothing, reservation' = [reservation EXCEPT !.uncertain = TRUE],
           UNCHANGED <<calls, stray>>
    PROVE  /\ reservation' \in ReservationRow /\ Fenced'
           /\ \A s : Held(s)' = Held(s)
           /\ \A s \in Runs : Left(s)
<1>0. TypeOK /\ Fenced
  BY DEF IInv
<1>1. reservation' \in ReservationRow /\ reservation' # Nothing
  BY <1>0, ReservationFacts
<1>2. reservation'.holder = reservation.holder /\ reservation'.inflight = reservation.inflight
  BY <1>0, ReservationFacts DEF ReservationRow
<1> QED
  BY <1>0, <1>1, <1>2 DEF Fenced, Held, Left

\* A run that ends with a reservation that keeps its marks.
LEMMA ReservationEnd ==
    ASSUME IInv, UNCHANGED <<calls, binding, generation, started, completed, stray, faults>>,
           reservation' \in ReservationRow \cup {Nothing}, Fenced',
           NEW r \in Runs, \A s \in Runs \ {r} : Left(s), End(r)
    PROVE  IInv'
<1>1. run' \in [Runs -> RunRow] /\ run'[r] = Ended /\ \A s \in Runs \ {r} : run'[s] = run[s]
  BY EndedRow DEF End, IInv, TypeOK
<1>2. /\ started' \in [Operations -> SUBSET Resources] /\ completed' \in [Operations -> SUBSET Resources]
      /\ faults' \in 0..MaxFaults /\ stray' \subseteq CallIds
      /\ \A op \in Operations : \A q \in completed'[op] : binding[q] # Nothing
  BY DEF IInv, TypeOK, StoreOK
<1> QED
  BY <1>1, <1>2, EndedOK, ReservationKeeps

LEMMA IntentInv ==
    ASSUME IInv, NEW r \in Runs, Intent(r)
    PROVE  IInv'
<1>0. TypeOK /\ RunOK(r) /\ HoldOK(r) /\ run[r] \in RunRow /\ run \in [Runs -> RunRow]
      /\ OperationOf[r] \in Operations
  BY RunFacts
<1>1. /\ run[r].pc = "intent" /\ Goto(r, "begin")
      /\ started' = [started EXCEPT ![OperationOf[r]] = @ \cup {run[r].on}]
      /\ UNCHANGED <<calls, reservation, binding, generation, completed, stray, faults>>
  BY DEF Intent
<1>2. run[r].on \in Resources
  BY <1>0, <1>1 DEF RunOK, Handling
<1>3. run'[r] = [run[r] EXCEPT !.pc = "begin"]
  BY <1>0, <1>1 DEF Goto
<1>4. run' \in [Runs -> RunRow] /\ \A s \in Runs \ {r} : run'[s] = run[s]
  BY <1>0, <1>1 DEF RunRow, Goto
<1>5. /\ run'[r].pc = "begin" /\ run'[r].seen = run[r].seen /\ run'[r].base = run[r].base
      /\ run'[r].upto = run[r].upto /\ run'[r].on = run[r].on
  BY <1>0, <1>3 DEF RunRow
<1>6. /\ started' \in [Operations -> SUBSET Resources]
      /\ \A op \in Operations : started[op] \subseteq started'[op]
      /\ run[r].on \in started'[OperationOf[r]]
  BY <1>0, <1>1, <1>2 DEF TypeOK
<1>7. Made' = Made /\ \A q : Named(Made, q)' = Named(Made, q)
  BY <1>1 DEF Made, Named
<1>8. RunOK(r)'
  BY <1>0, <1>1, <1>2, <1>5, <1>6, <1>7 DEF RunOK, Handling
<1>9. HoldOK(r)'
  BY <1>0, <1>1, <1>5, <1>7 DEF HoldOK, Held
<1>10. /\ completed' \in [Operations -> SUBSET Resources] /\ stray' \subseteq CallIds
       /\ \A op \in Operations : \A q \in completed'[op] : binding[q] # Nothing
       /\ reservation' \in ReservationRow \cup {Nothing} /\ faults' \in 0..MaxFaults
       /\ Fenced' /\ \A s \in Runs : Left(s)
  BY <1>1 DEF IInv, TypeOK, StoreOK, Fenced, Left, Held
<1> QED
  BY <1>1, <1>4, <1>6, <1>8, <1>9, <1>10, ReservationKeeps

LEMMA DoubtInv ==
    ASSUME IInv, NEW r \in Runs, Doubt(r)
    PROVE  IInv'
<1>1. /\ MarkUncertain(r) /\ End(r)
      /\ UNCHANGED <<calls, binding, generation, started, completed, stray, faults>>
  BY DEF Doubt
<1>2. CASE Held(r)
  <2>1. reservation # Nothing /\ reservation' = [reservation EXCEPT !.uncertain = TRUE]
    BY <1>1, <1>2 DEF MarkUncertain, Held
  <2> QED
    BY <1>1, <2>1, UncertainFacts, ReservationEnd
<1>3. CASE ~Held(r)
  <2>1. UNCHANGED reservation
    BY <1>1, <1>3 DEF MarkUncertain
  <2>2. Quiet /\ faults' \in 0..MaxFaults
    BY <1>1, <2>1, RunFacts DEF Quiet, storeVars
  <2> QED
    BY <1>1, <2>2, QuietEnd
<1> QED
  BY <1>2, <1>3

LEMMA ReserveAgainInv ==
    ASSUME IInv, NEW r \in Runs, ReserveAgain(r)
    PROVE  IInv'
<1>0. TypeOK /\ RunOK(r) /\ HoldOK(r) /\ run[r] \in RunRow /\ run \in [Runs -> RunRow]
  BY RunFacts
<1>1. /\ run[r].pc \in {"again", "retry"}
      /\ UNCHANGED <<calls, binding, generation, started, completed, stray, faults>>
  BY DEF ReserveAgain
<1>2. CASE Acquirable(r) /\ Acquire(r) /\ run' = [run EXCEPT ![r].pc = Goon(r)]
  <2>1. /\ reservation' \in ReservationRow /\ Fenced'
        /\ ~Held(r) => reservation'.inflight = 0
        /\ Held(r) => reservation'.inflight = reservation.inflight
        /\ \A s \in Runs \ {r} : Left(s)
    BY <1>1, <1>2, AcquireFacts
  <2>2. reservation'.inflight = 0 \/ Goon(r) = "bind"
    <3>1. Held(r) => run[r].pc = "retry" /\ reservation.inflight = 0
      BY <1>0, <1>1 DEF HoldOK
    <3> QED
      BY <2>1, <3>1
  <2>3. Goon(r) \in {"bind", "check"} /\ (Goon(r) = "bind" => run[r].pc = "again" /\ run[r].call # 0)
    BY DEF Goon
  <2> DEFINE pc == Goon(r)
  <2>4. run' = [run EXCEPT ![r].pc = pc]
    BY <1>2
  <2>5. /\ pc \in {"bind", "check"} /\ (pc = "bind" => run[r].pc = "again" /\ run[r].call # 0)
        /\ reservation'.inflight = 0 \/ pc = "bind"
    BY <2>2, <2>3
  <2> HIDE DEF pc
  <2>6. run'[r] = [run[r] EXCEPT !.pc = pc]
    BY <1>0, <2>4
  <2>7. run' \in [Runs -> RunRow] /\ \A s \in Runs \ {r} : run'[s] = run[s]
    BY <1>0, <2>4, <2>5 DEF RunRow
  <2>8. /\ run'[r].pc = pc /\ run'[r].seen = run[r].seen /\ run'[r].base = run[r].base
        /\ run'[r].upto = run[r].upto /\ run'[r].on = run[r].on /\ run'[r].call = run[r].call
    BY <1>0, <2>6 DEF RunRow
  <2>9. Made' = Made /\ \A q : Named(Made, q)' = Named(Made, q)
    BY <1>1 DEF Made, Named
  <2>10. RunOK(r)'
    BY <1>0, <1>1, <2>5, <2>8, <2>9 DEF RunOK, Handling
  <2>11. HoldOK(r)'
    BY <2>5, <2>8 DEF HoldOK
  <2>12. /\ started' \in [Operations -> SUBSET Resources] /\ completed' \in [Operations -> SUBSET Resources]
         /\ \A op \in Operations : \A q \in completed'[op] : binding[q] # Nothing
         /\ faults' \in 0..MaxFaults /\ stray' \subseteq CallIds
    BY <1>1 DEF IInv, TypeOK, StoreOK
  <2> QED
    BY <1>1, <2>1, <2>7, <2>10, <2>11, <2>12, ReservationKeeps
<1>3. CASE End(r) /\ UNCHANGED reservation
  <2>1. Quiet /\ faults' \in 0..MaxFaults
    BY <1>1, <1>3, RunFacts DEF Quiet, storeVars
  <2> QED
    BY <1>3, <2>1, QuietEnd
<1>4. CASE Unsure(r) /\ End(r) /\ reservation' = [reservation EXCEPT !.uncertain = TRUE]
  <2>1. reservation # Nothing
    BY <1>4 DEF Unsure, Acquirable
  <2> QED
    BY <1>1, <1>4, <2>1, UncertainFacts, ReservationEnd
<1> QED
  BY <1>2, <1>3, <1>4 DEF ReserveAgain

\* What a run takes for its resource was made by the provider under that name.
LEMMA IdentifiedFacts ==
    ASSUME IInv, NEW r \in Runs, NEW q \in Resources
    PROVE  /\ Earlier(r, q) \subseteq Named(Made, q)
           /\ Reconcilable(r, q) \subseteq Named(Made, q) \cup {0}
           /\ Named(Made, q) \subseteq CallIds
<1>1. RunOK(r) /\ TypeOK
  BY RunFacts
<1>2. Named(run[r].seen, q) \subseteq Named(Made, q)
  BY <1>1 DEF RunOK, Named
<1>3. run[r].base[q] # Nothing => run[r].base[q].id \in Named(Made, q)
  BY <1>1 DEF RunOK
<1>4. Earlier(r, q) \subseteq Named(Made, q)
  BY <1>2, <1>3 DEF Earlier
<1>5. Reconcilable(r, q) \subseteq Named(Made, q) \cup {0}
  BY <1>2 DEF Reconcilable
<1>6. Named(Made, q) \subseteq CallIds
  BY <1>1, CallsFacts DEF Named
<1> QED
  BY <1>4, <1>5, <1>6

\* A run that takes a resource in hand.
LEMMA InHand ==
    ASSUME IInv, UNCHANGED <<calls, binding, generation, started>>, NEW r \in Runs,
           NEW q \in Resources, NEW pc \in {"bind", "doubt", "check", "reconcile"}, NEW c,
           run' = [run EXCEPT ![r].pc = pc, ![r].on = q, ![r].todo = @ \ {q}, ![r].call = c],
           c \in Named(Made, q) \/ (c = 0 /\ pc # "bind")
    PROVE  /\ run' \in [Runs -> RunRow] /\ \A s \in Runs \ {r} : run'[s] = run[s]
           /\ run'[r].pc = pc /\ RunOK(r)'
<1>0. TypeOK /\ RunOK(r) /\ run[r] \in RunRow /\ run \in [Runs -> RunRow]
  BY RunFacts
<1>1. c \in {0} \cup CallIds
  BY IdentifiedFacts
<1>2. run'[r] = [run[r] EXCEPT !.pc = pc, !.on = q, !.todo = @ \ {q}, !.call = c]
  BY <1>0
<1>3. run' \in [Runs -> RunRow] /\ \A s \in Runs \ {r} : run'[s] = run[s]
  BY <1>0, <1>1 DEF RunRow
<1>4. /\ run'[r].pc = pc /\ run'[r].seen = run[r].seen /\ run'[r].base = run[r].base
      /\ run'[r].upto = run[r].upto /\ run'[r].on = q /\ run'[r].call = c
  BY <1>0, <1>2 DEF RunRow
<1>5. Made' = Made /\ \A p : Named(Made, p)' = Named(Made, p)
  BY DEF Made, Named
<1>6. (run[r].call \in Named(Made, run[r].on))' \/ (run[r].call = 0 /\ run[r].pc # "bind")'
  BY <1>4, <1>5
<1>7. RunOK(r)'
  BY <1>0, <1>4, <1>5, <1>6 DEF RunOK, Handling
<1> QED
  BY <1>3, <1>4, <1>7

LEMMA ReserveInv ==
    ASSUME IInv, NEW r \in Runs, NEW q \in Resources, Reserve(r, q)
    PROVE  IInv'
<1>0. TypeOK /\ HoldOK(r)
  BY RunFacts
<1>1. /\ run[r].pc = "reserve"
      /\ UNCHANGED <<calls, binding, generation, started, completed, stray, faults>>
  BY DEF Reserve
<1>2. ~Held(r)
  BY <1>0, <1>1 DEF HoldOK
<1>3. /\ started' \in [Operations -> SUBSET Resources] /\ completed' \in [Operations -> SUBSET Resources]
      /\ \A op \in Operations : \A p \in completed'[op] : binding[p] # Nothing
      /\ faults' \in 0..MaxFaults /\ stray' \subseteq CallIds
  BY <1>1 DEF IInv, TypeOK, StoreOK
<1>4. CASE Acquirable(r) /\ Acquire(r) /\ Proceed(r, q)
  <2>1. /\ reservation' \in ReservationRow /\ Fenced' /\ reservation'.inflight = 0
        /\ \A s \in Runs \ {r} : Left(s)
    BY <1>1, <1>2, <1>4, AcquireFacts
  <2>2. PICK pc \in {"bind", "doubt", "check"}, c \in Named(Made, q) \cup {0} :
           /\ run' = [run EXCEPT ![r].pc = pc, ![r].on = q, ![r].todo = @ \ {q}, ![r].call = c]
           /\ c \in Named(Made, q) \/ (c = 0 /\ pc # "bind")
    BY <1>4, IdentifiedFacts DEF Proceed
  <2>3. /\ run' \in [Runs -> RunRow] /\ \A s \in Runs \ {r} : run'[s] = run[s]
        /\ run'[r].pc = pc /\ RunOK(r)'
    BY <1>1, <2>2, InHand
  <2>4. HoldOK(r)'
    BY <2>1, <2>3 DEF HoldOK
  <2> QED
    BY <1>1, <1>3, <2>1, <2>3, <2>4, ReservationKeeps
<1>5. CASE End(r) /\ UNCHANGED reservation
  <2>1. Quiet
    BY <1>1, <1>5 DEF Quiet, storeVars
  <2> QED
    BY <1>3, <1>5, <2>1, QuietEnd
<1>6. CASE Unsure(r) /\ reservation' = [reservation EXCEPT !.uncertain = TRUE]
  <2>1. reservation # Nothing
    BY <1>6 DEF Unsure, Acquirable
  <2>2. /\ reservation' \in ReservationRow /\ Fenced' /\ ~Held(r)'
        /\ \A s \in Runs : Left(s)
    BY <1>1, <1>2, <1>6, <2>1, UncertainFacts
  <2>3. CASE End(r)
    BY <1>1, <2>2, <2>3, ReservationEnd
  <2>4. ASSUME NEW c \in Reconcilable(r, q),
               run' = [run EXCEPT ![r].pc = "reconcile", ![r].on = q, ![r].todo = @ \ {q}, ![r].call = c]
        PROVE  IInv'
    <3>1. c \in Named(Made, q) \/ c = 0
      BY IdentifiedFacts
    <3>2. /\ run' \in [Runs -> RunRow] /\ \A s \in Runs \ {r} : run'[s] = run[s]
          /\ run'[r].pc = "reconcile" /\ RunOK(r)'
      BY <1>1, <2>4, <3>1, InHand
    <3>3. HoldOK(r)'
      BY <2>2, <3>2 DEF HoldOK
    <3> QED
      BY <1>1, <1>3, <2>2, <3>2, <3>3, ReservationKeeps
  <2> QED
    BY <1>4, <1>5, <1>6, <2>3, <2>4 DEF Reserve, Unsure
<1> QED
  BY <1>4, <1>5, <1>6 DEF Reserve

LEMMA ReconcileInv ==
    ASSUME IInv, NEW r \in Runs, Reconcile(r)
    PROVE  IInv'
<1>0. TypeOK /\ RunOK(r) /\ run[r] \in RunRow /\ run \in [Runs -> RunRow]
  BY RunFacts
<1>1. /\ run[r].pc = "reconcile" /\ reservation' = Nothing /\ Goto(r, "again")
      /\ UNCHANGED <<calls, binding, generation, started, completed, faults>>
  BY DEF Reconcile
<1>2. stray' = stray \cup
        {c \in DOMAIN calls : /\ reservation # Nothing /\ reservation.inflight = c
                              /\ c # run[r].call /\ (run[r].call = 0 => c > run[r].upto)}
  BY DEF Reconcile
<1>3. stray \subseteq stray' /\ stray' \subseteq CallIds
  BY <1>0, <1>2, CallsFacts DEF TypeOK
<1>4. Fenced'
  <2>1. ASSUME NEW c \in DOMAIN calls, calls[c].at = "sent", c \notin stray
        PROVE  c \in stray'
    <3>1. reservation # Nothing /\ reservation.inflight = c
      BY <2>1 DEF IInv, Fenced
    <3>2. c # run[r].call
      <4>1. run[r].call = 0 \/ run[r].call \in Made
        BY <1>0, <1>1 DEF RunOK, Named
      <4>2. c # 0 /\ c \notin Made
        BY <1>0, <2>1, CallsFacts DEF Made
      <4> QED
        BY <4>1, <4>2
    <3>3. c > run[r].upto
      <4>1. c \in Nat \ {0} /\ run[r].upto \in Nat
        BY <1>0, <2>1, CallsFacts, InfraAssumption DEF RunRow
      <4>2. c \notin 1..run[r].upto
        BY <1>0, <2>1 DEF RunOK
      <4> QED
        BY <4>1, <4>2
    <3> QED
      BY <1>2, <2>1, <3>1, <3>2, <3>3
  <2> QED
    BY <1>1, <1>3, <2>1 DEF Fenced
<1>5. run'[r] = [run[r] EXCEPT !.pc = "again"]
  BY <1>0, <1>1 DEF Goto
<1>6. run' \in [Runs -> RunRow] /\ \A s \in Runs \ {r} : run'[s] = run[s]
  BY <1>0, <1>1 DEF RunRow, Goto
<1>7. /\ run'[r].pc = "again" /\ run'[r].seen = run[r].seen /\ run'[r].base = run[r].base
      /\ run'[r].upto = run[r].upto /\ run'[r].on = run[r].on /\ run'[r].call = run[r].call
  BY <1>0, <1>5 DEF RunRow
<1>8. Made' = Made /\ \A q : Named(Made, q)' = Named(Made, q)
  BY <1>1 DEF Made, Named
<1>9. RunOK(r)'
  BY <1>0, <1>1, <1>7, <1>8 DEF RunOK, Handling
<1>10. HoldOK(r)' /\ \A s \in Runs : Left(s)
  BY <1>1 DEF HoldOK, Left, Held
<1>11. /\ started' \in [Operations -> SUBSET Resources] /\ completed' \in [Operations -> SUBSET Resources]
       /\ \A op \in Operations : \A q \in completed'[op] : binding[q] # Nothing
       /\ faults' \in 0..MaxFaults
  BY <1>1 DEF IInv, TypeOK, StoreOK
<1> QED
  BY <1>1, <1>3, <1>4, <1>6, <1>9, <1>10, <1>11, ReservationKeeps

LEMMA AnswerInv ==
    ASSUME IInv, NEW r \in Runs, Answer(r)
    PROVE  IInv'
<1>0. TypeOK /\ RunOK(r) /\ run[r] \in RunRow /\ run \in [Runs -> RunRow]
  BY RunFacts
<1>1. run[r].pc = "wait" /\ UNCHANGED <<calls, binding, generation, started, completed, stray, faults>>
  BY DEF Answer
<1>2. CASE End(r) /\ UNCHANGED reservation
  <2>1. Quiet /\ faults' \in 0..MaxFaults
    BY <1>1, <1>2, RunFacts DEF Quiet, storeVars
  <2> QED
    BY <1>2, <2>1, QuietEnd
<1>3. CASE Completable(r) /\ reservation' = [reservation EXCEPT !.inflight = 0]
  <2>1. PICK pc \in {"bind", "doubt", "retry", "giveup"} :
           /\ Goto(r, pc)
           /\ calls[run[r].call].at # "sent"
           /\ pc = "bind" => calls[run[r].call].at = "made"
    BY <1>3 DEF Answer, Completable
  <2>2. reservation # Nothing /\ reservation.holder = r /\ reservation.inflight = run[r].call
    BY <1>3 DEF Completable, Held
  <2>3. /\ reservation' \in ReservationRow /\ reservation' # Nothing
        /\ reservation'.inflight = 0 /\ reservation'.holder = r
    BY <1>0, <1>3, <2>2, ReservationFacts DEF ReservationRow
  <2>4. Fenced'
    BY <1>1, <2>1, <2>2 DEF IInv, Fenced
  <2>5. \A s \in Runs \ {r} : Left(s)
    BY <2>3 DEF Left, Held
  <2>6. run'[r] = [run[r] EXCEPT !.pc = pc]
    BY <1>0, <2>1 DEF Goto
  <2>7. run' \in [Runs -> RunRow] /\ \A s \in Runs \ {r} : run'[s] = run[s]
    BY <1>0, <2>1 DEF RunRow, Goto
  <2>8. /\ run'[r].pc = pc /\ run'[r].seen = run[r].seen /\ run'[r].base = run[r].base
        /\ run'[r].upto = run[r].upto /\ run'[r].on = run[r].on /\ run'[r].call = run[r].call
    BY <1>0, <2>6 DEF RunRow
  <2>9. Made' = Made /\ \A q : Named(Made, q)' = Named(Made, q)
    BY <1>1 DEF Made, Named
  <2>10. pc = "bind" => run[r].call \in Named(Made, run[r].on)
    BY <1>0, <1>1, <2>1 DEF RunOK, Made, Named
  <2>11. RunOK(r)'
    <3>1. run'[r].pc = "bind" => (run[r].call \in Named(Made, run[r].on))'
      BY <2>8, <2>9, <2>10
    <3> QED
      BY <1>0, <1>1, <2>8, <2>9, <3>1 DEF RunOK, Handling
  <2>12. HoldOK(r)'
    BY <2>3, <2>8 DEF HoldOK
  <2>13. /\ started' \in [Operations -> SUBSET Resources] /\ completed' \in [Operations -> SUBSET Resources]
         /\ \A op \in Operations : \A q \in completed'[op] : binding[q] # Nothing
         /\ faults' \in 0..MaxFaults /\ stray' \subseteq CallIds
    BY <1>1 DEF IInv, TypeOK, StoreOK
  <2> QED
    BY <1>1, <2>3, <2>4, <2>5, <2>7, <2>11, <2>12, <2>13, ReservationKeeps
<1> QED
  BY <1>2, <1>3 DEF Answer

LEMMA ReleaseInv ==
    ASSUME IInv, NEW r \in Runs, Release(r)
    PROVE  IInv'
<1>0. TypeOK /\ RunOK(r) /\ run[r] \in RunRow /\ run \in [Runs -> RunRow]
  BY RunFacts
<1>1. /\ reservation' = IF Releasable(r) THEN Nothing ELSE reservation
      /\ UNCHANGED <<calls, binding, generation, started, completed, stray, faults>>
  BY DEF Release
<1>2. /\ reservation' \in ReservationRow \cup {Nothing} /\ Fenced'
      /\ \A s \in Runs : Left(s)
  <2>1. CASE Releasable(r)
    <3>1. \A c \in DOMAIN calls : c # 0
      BY <1>0, CallsFacts
    <3>2. reservation' = Nothing /\ reservation.inflight = 0
      BY <1>1, <2>1 DEF Releasable
    <3> QED
      BY <1>1, <3>1, <3>2 DEF IInv, Fenced, Left, Held
  <2>2. CASE ~Releasable(r)
    BY <1>0, <1>1, <2>2 DEF IInv, Fenced, Left, Held, TypeOK
  <2> QED
    BY <2>1, <2>2
<1>3. CASE End(r)
  BY <1>1, <1>2, <1>3, ReservationEnd
<1>4. CASE /\ Releasable(r) \/ reservation = Nothing
           /\ run' = [run EXCEPT ![r].pc = "reserve", ![r].on = Nothing, ![r].call = 0]
  <2>1. run'[r] = [run[r] EXCEPT !.pc = "reserve", !.on = Nothing, !.call = 0]
    BY <1>0, <1>4
  <2>2. run' \in [Runs -> RunRow] /\ \A s \in Runs \ {r} : run'[s] = run[s]
    BY <1>0, <1>4 DEF RunRow
  <2>3. /\ run'[r].pc = "reserve" /\ run'[r].seen = run[r].seen /\ run'[r].base = run[r].base
        /\ run'[r].upto = run[r].upto
    BY <1>0, <2>1 DEF RunRow
  <2>4. Made' = Made /\ \A q : Named(Made, q)' = Named(Made, q)
    BY <1>1 DEF Made, Named
  <2>5. RunOK(r)'
    BY <1>0, <1>1, <2>3, <2>4 DEF RunOK, Handling
  <2>6. reservation' = Nothing
    BY <1>1, <1>4
  <2>7. HoldOK(r)'
    BY <2>3, <2>6 DEF HoldOK, Held
  <2>8. /\ started' \in [Operations -> SUBSET Resources] /\ completed' \in [Operations -> SUBSET Resources]
        /\ \A op \in Operations : \A q \in completed'[op] : binding[q] # Nothing
        /\ faults' \in 0..MaxFaults /\ stray' \subseteq CallIds
    BY <1>1 DEF IInv, TypeOK, StoreOK
  <2> QED
    BY <1>1, <1>2, <2>2, <2>5, <2>7, <2>8, ReservationKeeps
<1> QED
  BY <1>3, <1>4 DEF Release

-----------------------------------------------------------------------------
(* Steps that change the calls or the binding *)

LEMMA BeginInv ==
    ASSUME IInv, NEW r \in Runs, Begin(r)
    PROVE  IInv'
<1>0. TypeOK /\ RunOK(r) /\ HoldOK(r) /\ run[r] \in RunRow /\ run \in [Runs -> RunRow]
      /\ OperationOf[r] \in Operations /\ Fenced /\ CallsOK
  BY RunFacts DEF IInv
<1>1. /\ run[r].pc = "begin"
      /\ UNCHANGED <<binding, generation, started, completed, stray, faults>>
  BY DEF Begin
<1>2. CASE End(r) /\ UNCHANGED <<calls, reservation>>
  <2>1. Quiet /\ faults' \in 0..MaxFaults
    BY <1>1, <1>2, RunFacts DEF Quiet, storeVars
  <2> QED
    BY <1>2, <2>1, QuietEnd
<1>3. CASE ~(End(r) /\ UNCHANGED <<calls, reservation>>)
  <2> DEFINE n == Len(calls) + 1
             row == [op |-> OperationOf[r], resource |-> run[r].on, at |-> "sent"]
  <2>1. /\ EffectAllowed(r) /\ Len(calls) < MaxCalls
        /\ reservation' = [reservation EXCEPT !.inflight = n]
        /\ calls' = Append(calls, row)
        /\ run' = [run EXCEPT ![r].pc = "wait", ![r].call = n]
    BY <1>3 DEF Begin
  <2>2. run[r].on \in Resources /\ run[r].on \in started[OperationOf[r]]
    BY <1>0, <1>1 DEF RunOK, Handling
  <2>3. row \in CallRow
    BY <1>0, <2>2 DEF CallRow
  <2>4. /\ calls' \in Seq(CallRow) /\ Len(calls') = n
        /\ DOMAIN calls' = 1..n /\ DOMAIN calls = 1..Len(calls) /\ Len(calls) \in Nat
        /\ calls'[n] = row
        /\ \A c \in DOMAIN calls : calls'[c] = calls[c]
    <3>1. calls \in Seq(CallRow)
      BY <1>0 DEF TypeOK
    <3> HIDE DEF row
    <3> QED
      BY <2>1, <2>3, <3>1, AppendProperties
  <2>5. /\ row.op = OperationOf[r] /\ row.resource = run[r].on /\ row.at = "sent"
    OBVIOUS
  <2>6. n \in CallIds /\ n # 0 /\ n \notin DOMAIN calls
    BY <2>1, <2>4, InfraAssumption DEF CallIds
  <2>7. DOMAIN calls' = DOMAIN calls \cup {n} /\ \A c \in DOMAIN calls : c < n
    BY <2>4
  <2> HIDE DEF n, row
  <2>8. /\ reservation # Nothing /\ reservation.holder = r /\ reservation.inflight = 0 /\ Held(r)
    BY <2>1 DEF EffectAllowed, Held
  <2>9. /\ reservation' \in ReservationRow /\ reservation' # Nothing
        /\ reservation'.inflight = n /\ reservation'.holder = r
    BY <1>0, <2>1, <2>6, <2>8, ReservationFacts DEF ReservationRow
  <2>10. Made' = Made /\ \A q : Named(Made, q)' = Named(Made, q)
    <3>1. Made' = Made
      BY <2>4, <2>5, <2>7 DEF Made
    <3>2. \A c \in Made : calls'[c] = calls[c]
      BY <2>4 DEF Made
    <3> QED
      BY <3>1, <3>2 DEF Named
  <2>11. \A c \in DOMAIN calls : calls[c].at = "sent" => c \in stray
    BY <1>0, <2>6, <2>7, <2>8, CallsFacts DEF Fenced
  <2>12. Fenced'
    BY <1>1, <2>4, <2>7, <2>9, <2>11 DEF Fenced
  <2>13. CallsOK'
    <3>1. \A c \in DOMAIN calls' : calls'[c].resource \in started'[calls'[c].op]
      BY <1>0, <1>1, <2>2, <2>4, <2>5, <2>7 DEF CallsOK
    <3>2. ASSUME NEW c \in DOMAIN calls, calls[c].resource = run[r].on
          PROVE  calls[c].at = "refused" \/ c \in stray
      <4>1. calls[c].at \in {"sent", "made", "refused"}
        BY <1>0, CallsFacts DEF CallRow
      <4>2. calls[c].at = "made" => c \in Named(Made, run[r].on)
        BY <3>2 DEF Made, Named
      <4>3. Named(Made, run[r].on) \subseteq stray
        BY <1>0, <1>1, <2>8 DEF HoldOK
      <4> QED
        BY <2>11, <4>1, <4>2, <4>3
    <3>3. ASSUME NEW c \in DOMAIN calls', NEW d \in DOMAIN calls', c < d,
                 calls'[c].resource = calls'[d].resource
          PROVE  calls'[c].at = "refused" \/ c \in stray'
      <4>1. c \in DOMAIN calls
        <5>1. c # n
          BY <2>4, <3>3 DEF n
        <5> QED
          BY <2>7, <5>1
      <4>2. CASE d = n
        BY <1>1, <2>4, <2>5, <3>2, <3>3, <4>1, <4>2
      <4>3. CASE d \in DOMAIN calls
        BY <1>0, <1>1, <2>4, <3>3, <4>1, <4>3 DEF CallsOK
      <4> QED
        BY <2>7, <4>2, <4>3
    <3> QED
      BY <3>1, <3>3 DEF CallsOK
  <2>14. StoreOK'
    BY <1>1, <2>10 DEF IInv, StoreOK
  <2>15. run'[r] = [run[r] EXCEPT !.pc = "wait", !.call = n]
    BY <1>0, <2>1 DEF n
  <2>16. run' \in [Runs -> RunRow] /\ \A s \in Runs \ {r} : run'[s] = run[s]
    <3>1. run' = [run EXCEPT ![r].pc = "wait", ![r].call = n]
      BY <2>1 DEF n
    <3> QED
      BY <1>0, <2>6, <3>1 DEF RunRow
  <2>17. /\ run'[r].pc = "wait" /\ run'[r].seen = run[r].seen /\ run'[r].base = run[r].base
         /\ run'[r].upto = run[r].upto /\ run'[r].on = run[r].on /\ run'[r].call = n
    BY <1>0, <2>15 DEF RunRow
  <2>18. RunOK(r)'
    <3>1. \A d \in 1..run'[r].upto : d \in DOMAIN calls' /\ calls'[d].at # "sent"
      BY <1>0, <2>4, <2>7, <2>17 DEF RunOK
    <3>2. (run[r].call \in DOMAIN calls /\ calls[run[r].call].resource = run[r].on)'
      BY <2>4, <2>5, <2>7, <2>17
    <3> QED
      BY <1>0, <2>2, <2>10, <2>17, <3>1, <3>2 DEF RunOK
  <2>19. HoldOK(r)'
    BY <2>17 DEF HoldOK
  <2>20. TypeOK'
    <3>1. Len(calls') <= MaxCalls
      BY <2>1, <2>4, InfraAssumption DEF n
    <3> QED
      BY <1>0, <1>1, <2>4, <2>9, <2>16, <3>1 DEF TypeOK
  <2>21. \A s \in Runs \ {r} : run'[s] = run[s] /\ Left(s)
    BY <2>9, <2>16 DEF Left, Held
  <2>22. generation \in Nat /\ generation' \in Nat
    BY <1>0, <1>1 DEF TypeOK
  <2>23. Later
    BY <1>1, <2>4, <2>7, <2>22 DEF Later
  <2>24. Known
    BY <2>10 DEF Known
  <2>25. RunsOK'
    BY <1>1, <2>18, <2>19, <2>21, <2>22, <2>23, <2>24, RunsKept
  <2> QED
    BY <2>12, <2>13, <2>14, <2>20, <2>25 DEF IInv
<1> QED
  BY <1>2, <1>3

\* A step that takes no run on keeps what holds of them all.
LEMMA StillRuns ==
    ASSUME IInv, Later, Known, stray \subseteq stray', generation \in Nat, generation' \in Nat,
           UNCHANGED run, \A r \in Runs : Left(r)
    PROVE  RunsOK'
<1>1. ASSUME NEW r \in Runs PROVE RunOK(r)' /\ HoldOK(r)'
  BY RunKept, HoldKept
<1> QED
  BY <1>1 DEF RunsOK

LEMMA ProvideInv ==
    ASSUME IInv, NEW n \in CallIds, Provide(n)
    PROVE  IInv'
<1>0. TypeOK /\ Fenced /\ CallsOK
  BY DEF IInv
<1>1. PICK at \in {"made", "refused"} : calls' = [calls EXCEPT ![n].at = at]
  BY DEF Provide
<1>2. n \in DOMAIN calls /\ calls[n].at = "sent" /\ UNCHANGED <<storeVars, run, stray, faults>>
  BY DEF Provide
<1>3. calls \in Seq(CallRow) /\ calls[n] \in CallRow /\ DOMAIN calls = 1..Len(calls)
  BY <1>0, <1>2, CallsFacts DEF TypeOK
<1> DEFINE row == [calls[n] EXCEPT !.at = at]
<1>4. /\ row \in CallRow /\ row.resource = calls[n].resource /\ row.op = calls[n].op /\ row.at = at
  BY <1>3 DEF CallRow
<1>5. calls' = [calls EXCEPT ![n] = row]
  BY <1>1
<1> HIDE DEF row
<1>6. /\ calls' \in Seq(CallRow) /\ Len(calls') = Len(calls) /\ DOMAIN calls' = DOMAIN calls
      /\ calls'[n] = row /\ \A c \in DOMAIN calls \ {n} : calls'[c] = calls[c]
  BY <1>2, <1>3, <1>4, <1>5, ExceptSeq
<1>7. /\ \A c \in DOMAIN calls : /\ calls'[c].resource = calls[c].resource
                                 /\ calls'[c].op = calls[c].op
                                 /\ calls[c].at # "sent" => calls'[c].at = calls[c].at
                                 /\ calls'[c].at = "sent" => calls[c].at = "sent"
  BY <1>2, <1>4, <1>6
<1>8. TypeOK'
  BY <1>0, <1>2, <1>6 DEF TypeOK, storeVars
<1>9. Fenced'
  BY <1>0, <1>2, <1>6, <1>7 DEF Fenced, storeVars
<1>10. CallsOK'
  <2>1. \A c \in DOMAIN calls' : calls'[c].resource \in started'[calls'[c].op]
    BY <1>0, <1>2, <1>6, <1>7 DEF CallsOK, storeVars
  <2>2. ASSUME NEW c \in DOMAIN calls, NEW d \in DOMAIN calls, c < d,
               calls'[c].resource = calls'[d].resource
        PROVE  calls'[c].at = "refused" \/ c \in stray'
    <3>1. calls[c].at = "refused" \/ c \in stray
      BY <1>0, <1>7, <2>2 DEF CallsOK
    <3> QED
      BY <1>2, <1>7, <3>1
  <2> QED
    BY <1>6, <2>1, <2>2 DEF CallsOK
<1>11. generation \in Nat /\ generation' \in Nat
  BY <1>0, <1>2 DEF TypeOK, storeVars
<1>12. Later
  BY <1>2, <1>6, <1>7, <1>11 DEF Later, storeVars
<1>13. StoreOK'
  BY <1>2, <1>12, MadeGrows DEF IInv, StoreOK, storeVars
<1>14. Known
  <2>1. ASSUME NEW d \in Made', d \notin Made
        PROVE  d = n
    BY <1>6, <2>1 DEF Made
  <2>2. n \in stray \/ (reservation # Nothing /\ reservation.inflight = n)
    BY <1>0, <1>2 DEF Fenced
  <2> QED
    BY <1>2, <2>1, <2>2 DEF Known
<1>15. \A r \in Runs : Left(r)
  BY <1>2 DEF Left, Held, storeVars
<1>16. RunsOK'
  BY <1>2, <1>11, <1>12, <1>14, <1>15, StillRuns
<1> QED
  BY <1>8, <1>9, <1>10, <1>13, <1>16 DEF IInv

LEMMA LeaseLapsesInv ==
    ASSUME IInv, LeaseLapses
    PROVE  IInv'
<1>0. TypeOK /\ Fenced /\ CallsOK /\ StoreOK
  BY DEF IInv
<1>1. /\ reservation # Nothing /\ reservation' = [reservation EXCEPT !.live = FALSE] /\ Fault
      /\ UNCHANGED <<calls, binding, generation, started, completed, run, stray>>
  BY DEF LeaseLapses
<1>2. reservation' \in ReservationRow /\ reservation' # Nothing
  BY <1>0, <1>1, ReservationFacts
<1>3. reservation'.holder = reservation.holder /\ reservation'.inflight = reservation.inflight
  BY <1>0, <1>1, ReservationFacts DEF ReservationRow
<1>4. TypeOK'
  BY <1>0, <1>1, <1>2, InfraAssumption DEF TypeOK, Fault
<1>5. Fenced' /\ CallsOK' /\ StoreOK'
  BY <1>0, <1>1, <1>2, <1>3 DEF Fenced, CallsOK, StoreOK, Made, Named
<1>6. generation \in Nat /\ generation' \in Nat
  BY <1>0, <1>1 DEF TypeOK
<1>7. Later
  BY <1>1, <1>6 DEF Later
<1>8. Known /\ \A r \in Runs : Left(r)
  BY <1>1, <1>2, <1>3 DEF Known, Left, Held, Made
<1>9. RunsOK'
  BY <1>1, <1>6, <1>7, <1>8, StillRuns
<1> QED
  BY <1>4, <1>5, <1>9 DEF IInv

LEMMA RecordInv ==
    ASSUME IInv, NEW r \in Runs, Record(r)
    PROVE  IInv'
<1>0. TypeOK /\ RunOK(r) /\ run[r] \in RunRow /\ run \in [Runs -> RunRow]
      /\ OperationOf[r] \in Operations
  BY RunFacts
<1>1. /\ run[r].pc = "record" /\ Goto(r, "release")
      /\ started' = [started EXCEPT ![OperationOf[r]] = @ \cup {run[r].on}]
      /\ completed' = [completed EXCEPT ![OperationOf[r]] = @ \cup {run[r].on}]
      /\ UNCHANGED <<calls, reservation, binding, generation, stray, faults>>
  BY DEF Record
<1>2. run[r].on \in Resources /\ binding[run[r].on] # Nothing
  BY <1>0, <1>1 DEF RunOK, Handling
<1>3. run'[r] = [run[r] EXCEPT !.pc = "release"]
  BY <1>0, <1>1 DEF Goto
<1>4. run' \in [Runs -> RunRow] /\ \A s \in Runs \ {r} : run'[s] = run[s]
  BY <1>0, <1>1 DEF RunRow, Goto
<1>5. /\ run'[r].pc = "release" /\ run'[r].seen = run[r].seen /\ run'[r].base = run[r].base
      /\ run'[r].upto = run[r].upto /\ run'[r].on = run[r].on
  BY <1>0, <1>3 DEF RunRow
<1>6. /\ started' \in [Operations -> SUBSET Resources] /\ completed' \in [Operations -> SUBSET Resources]
      /\ \A op \in Operations : started[op] \subseteq started'[op]
  BY <1>0, <1>1, <1>2 DEF TypeOK
<1>7. \A op \in Operations : \A q \in completed'[op] : binding[q] # Nothing
  BY <1>0, <1>1, <1>2 DEF IInv, StoreOK, TypeOK
<1>8. Made' = Made /\ \A q : Named(Made, q)' = Named(Made, q)
  BY <1>1 DEF Made, Named
<1>9. RunOK(r)' /\ HoldOK(r)'
  BY <1>0, <1>1, <1>2, <1>5, <1>8 DEF RunOK, HoldOK, Handling
<1>10. /\ stray' \subseteq CallIds /\ faults' \in 0..MaxFaults /\ Fenced'
       /\ reservation' \in ReservationRow \cup {Nothing} /\ \A s \in Runs : Left(s)
  BY <1>1 DEF IInv, TypeOK, Fenced, Left, Held
<1> QED
  BY <1>1, <1>4, <1>6, <1>7, <1>9, <1>10, ReservationKeeps

LEMMA CommitInv ==
    ASSUME IInv, NEW r \in Runs, Commit(r)
    PROVE  IInv'
<1>0. TypeOK /\ RunOK(r) /\ run[r] \in RunRow /\ run \in [Runs -> RunRow]
      /\ OperationOf[r] \in Operations /\ StoreOK
  BY RunFacts DEF IInv
<1>1. run[r].pc = "commit" /\ UNCHANGED <<calls, reservation, started, completed, stray, faults>>
  BY DEF Commit
<1>2. CASE End(r) /\ UNCHANGED <<binding, generation>>
  <2>1. Quiet /\ faults' \in 0..MaxFaults
    BY <1>1, <1>2, RunFacts DEF Quiet, storeVars
  <2> QED
    BY <1>2, <2>1, QuietEnd
<1>3. CASE ~(End(r) /\ UNCHANGED <<binding, generation>>)
  <2> DEFINE bound == [id |-> run[r].call, by |-> OperationOf[r]]
             next == [run[r].base EXCEPT ![run[r].on] = bound]
  <2>1. /\ generation = run[r].generation
        /\ binding' = next /\ generation' = generation + 1
        /\ run' = [run EXCEPT ![r].pc = "record", ![r].base = next]
    BY <1>3 DEF Commit
  <2>2. /\ run[r].on \in Resources /\ run[r].call \in Named(Made, run[r].on)
        /\ run[r].base = binding /\ binding[run[r].on] = Nothing
    BY <1>0, <1>1, <2>1 DEF RunOK, Handling
  <2>3. run[r].call \in CallIds
    BY <1>0, <2>2, CallsFacts DEF Named
  <2>4. bound \in Bound /\ bound.id = run[r].call
    BY <1>0, <2>3 DEF Bound
  <2>5. bound # Nothing
    BY <2>4, InfraAssumption
  <2> HIDE DEF bound
  <2>6. binding \in [Resources -> Bound \cup {Nothing}]
    BY <1>0 DEF TypeOK, BindingType
  <2>7. /\ next \in BindingType /\ next[run[r].on] = bound
        /\ \A q \in Resources \ {run[r].on} : next[q] = binding[q]
    BY <2>2, <2>4, <2>6 DEF BindingType
  <2> HIDE DEF next
  <2>8. run'[r] = [run[r] EXCEPT !.pc = "record", !.base = next]
    BY <1>0, <2>1
  <2>9. run' \in [Runs -> RunRow] /\ \A s \in Runs \ {r} : run'[s] = run[s]
    BY <1>0, <2>1, <2>7 DEF RunRow
  <2>10. /\ run'[r].pc = "record" /\ run'[r].seen = run[r].seen /\ run'[r].base = next
         /\ run'[r].upto = run[r].upto /\ run'[r].on = run[r].on
    BY <1>0, <2>8 DEF RunRow
  <2>11. Made' = Made /\ \A q : Named(Made, q)' = Named(Made, q)
    BY <1>1 DEF Made, Named
  <2>12. \A q \in Resources : next[q] # Nothing => next[q].id \in Named(Made, q)
    BY <1>0, <2>2, <2>4, <2>7 DEF StoreOK
  <2>13. \A q \in Resources : binding[q] # Nothing => binding'[q] = binding[q]
    BY <2>1, <2>2, <2>7
  <2>14. generation \in Nat /\ generation' \in Nat /\ generation' > generation
    BY <1>0, <2>1 DEF TypeOK
  <2>15. TypeOK'
    BY <1>0, <1>1, <2>1, <2>7, <2>9, <2>14 DEF TypeOK
  <2>16. Fenced' /\ CallsOK'
    BY <1>1 DEF IInv, Fenced, CallsOK
  <2>17. StoreOK'
    <3>1. \A op \in Operations : \A q \in completed[op] : q \in Resources
      BY <1>0 DEF TypeOK
    <3> QED
      BY <1>0, <1>1, <2>1, <2>11, <2>12, <2>13, <3>1 DEF StoreOK
  <2>18. Later
    BY <1>1, <2>13, <2>14 DEF Later
  <2>19. Known /\ \A s \in Runs : Left(s)
    BY <1>1, <2>11 DEF Known, Left, Held
  <2>20. RunOK(r)'
    <3>1. (binding[run[r].on] # Nothing)'
      BY <2>1, <2>5, <2>7, <2>10
    <3> QED
      BY <1>0, <1>1, <2>2, <2>10, <2>11, <2>12, <3>1 DEF RunOK
  <2>21. HoldOK(r)'
    BY <2>10 DEF HoldOK
  <2>22. RunsOK'
    BY <1>1, <2>9, <2>14, <2>18, <2>19, <2>20, <2>21, RunsKept
  <2> QED
    BY <2>15, <2>16, <2>17, <2>22 DEF IInv
<1> QED
  BY <1>2, <1>3

LEMMA RunStopsInv ==
    ASSUME IInv, NEW r \in Runs, RunStops(r)
    PROVE  IInv'
<1>1. Quiet /\ faults' \in 0..MaxFaults /\ End(r)
  BY RunFacts, InfraAssumption DEF RunStops, Fault, Quiet
<1> QED
  BY <1>1, QuietEnd

-----------------------------------------------------------------------------
(* The invariant, of every reachable state *)

LEMMA InitInv == Init => IInv
<1> SUFFICES ASSUME Init PROVE IInv
  OBVIOUS
<1>1. /\ calls = <<>> /\ reservation = Nothing /\ binding = Unbound /\ generation = 0
      /\ started = [op \in Operations |-> {}] /\ completed = started
      /\ run = [r \in Runs |-> Idle] /\ stray = {} /\ faults = 0
  BY DEF Init
<1>2. DOMAIN calls = {} /\ Made = {}
  BY <1>1 DEF Made
<1>3. TypeOK
  <2>1. calls \in Seq(CallRow) /\ Len(calls) <= MaxCalls
    BY <1>1, InfraAssumption
  <2>2. binding \in BindingType
    BY <1>1 DEF Unbound, BindingType
  <2>3. run \in [Runs -> RunRow]
    BY <1>1, EndedRow
  <2> QED
    BY <1>1, <2>1, <2>2, <2>3, InfraAssumption DEF TypeOK
<1>4. Fenced /\ CallsOK
  BY <1>2 DEF Fenced, CallsOK
<1>5. StoreOK
  BY <1>1 DEF StoreOK, Unbound
<1>6. RunsOK
  <2>1. ASSUME NEW r \in Runs PROVE RunOK(r) /\ HoldOK(r)
    <3>1. /\ run[r].pc = "idle" /\ run[r].seen = {} /\ run[r].upto = 0
          /\ \A q \in Resources : run[r].base[q] = Nothing
      BY <1>1 DEF Idle, Unbound
    <3>2. ~Held(r)
      BY <1>1 DEF Held
    <3> QED
      BY <3>1, <3>2 DEF RunOK, HoldOK, Handling
  <2> QED
    BY <2>1 DEF RunsOK
<1> QED
  BY <1>3, <1>4, <1>5, <1>6 DEF IInv

LEMMA NextInv == IInv /\ [Next]_vars => IInv'
<1> SUFFICES ASSUME IInv, [Next]_vars PROVE IInv'
  OBVIOUS
<1>1. CASE UNCHANGED vars
  BY <1>1 DEF vars, storeVars, IInv, TypeOK, Fenced, CallsOK, StoreOK, RunsOK, RunOK, HoldOK,
              Made, Named, Held
<1>2. ASSUME NEW r \in Runs, RunStep(r) PROVE IInv'
  BY <1>2, StartInv, ObserveInv, ResumeInv, ReserveInv, ReconcileInv, ReserveAgainInv, DoubtInv,
     CheckInv, IntentInv, BeginInv, AnswerInv, AnswerLostInv, BindInv, CommitInv, RecordInv,
     ReleaseInv, RunStopsInv DEF RunStep
<1>3. ASSUME NEW c \in CallIds, Provide(c) PROVE IInv'
  BY <1>3, ProvideInv
<1>4. CASE LeaseLapses
  BY <1>4, LeaseLapsesInv
<1> QED
  BY <1>1, <1>2, <1>3, <1>4 DEF Next

LEMMA Inductive == Spec => []IInv
BY InitInv, NextInv, PTL DEF Spec

\* A create that may still be carried out is marked in flight, whatever the number of
\* runs, resources and creates (decideReserve, assertEffectAllowed).
THEOREM CreatesFenced == Spec => []InfraInv
<1>1. IInv => InfraInv
  BY DEF IInv, InfraInv
<1> QED
  BY <1>1, Inductive, PTL

\* The provider makes a second resource of a name only around a call whose mark was
\* removed without knowing of it (executeCreate, reconcile).
THEOREM NeverDuplicated == Spec => []NoDuplicate
<1>1. IInv => NoDuplicate
  <2> SUFFICES ASSUME IInv, NEW c \in Made, NEW d \in Made, c # d,
                      calls[c].resource = calls[d].resource
               PROVE  {c, d} \cap stray # {}
    BY DEF NoDuplicate
  <2>1. c \in Nat /\ d \in Nat /\ c \in DOMAIN calls /\ d \in DOMAIN calls
    BY CallsFacts DEF IInv
  <2>2. calls[c].at = "made" /\ calls[d].at = "made"
    BY DEF Made
  <2>3. CASE c < d
    BY <2>1, <2>2, <2>3 DEF IInv, CallsOK
  <2>4. CASE d < c
    BY <2>1, <2>2, <2>4 DEF IInv, CallsOK
  <2> QED
    BY <2>1, <2>3, <2>4
<1> QED
  BY <1>1, Inductive, PTL

\* What is completed is bound to a resource that was made, and what was made is in its
\* operation's journal (resumeContext, finishCreate).
THEOREM MadeIsFound == Spec => []NothingLost
<1>1. IInv => NothingLost
  BY CallsFacts DEF IInv, NothingLost, CallsOK, StoreOK
<1> QED
  BY <1>1, Inductive, PTL

\* Whatever the interleaving of runs, a committed binding stays (commitGeneration).
THEOREM BoundForGood == Spec => BindingStays
<1>1. IInv /\ [Next]_vars => [\A q \in Resources : binding[q] # Nothing => binding'[q] = binding[q]]_vars
  <2> SUFFICES ASSUME IInv, Next, NEW q \in Resources, binding[q] # Nothing
               PROVE  binding'[q] = binding[q]
    OBVIOUS
  <2>1. CASE UNCHANGED binding
    BY <2>1
  <2>2. ASSUME NEW r \in Runs, Commit(r), ~UNCHANGED binding PROVE binding'[q] = binding[q]
    <3>1. /\ run[r].pc = "commit" /\ run[r].generation = generation
          /\ binding' = [run[r].base EXCEPT ![run[r].on] = [id |-> run[r].call, by |-> OperationOf[r]]]
      BY <2>2 DEF Commit
    <3>2. RunOK(r) /\ binding \in BindingType
      BY RunFacts DEF TypeOK
    <3>3. run[r].base = binding /\ binding[run[r].on] = Nothing
      BY <3>1, <3>2 DEF RunOK
    <3> QED
      BY <3>1, <3>2, <3>3 DEF BindingType
  <2>3. UNCHANGED binding \/ \E r \in Runs : Commit(r)
    BY DEF Next, RunStep, Start, Observe, Resume, Reserve, Reconcile, ReserveAgain, Doubt, Check,
           Intent, Begin, Answer, AnswerLost, Bind, Record, Release, RunStops, Provide,
           LeaseLapses, storeVars
  <2> QED
    BY <2>1, <2>2, <2>3
<1> QED
  BY <1>1, Inductive, PTL DEF BindingStays, Spec

-----------------------------------------------------------------------------
(* The contract: what is in hand was approved, and journaled before it is  *)
(* made or bound.                                                          *)

JournaledRun(r) == LET c == run[r] IN
    /\ c.todo \subseteq Plan[OperationOf[r]]
    /\ c.on \in Plan[OperationOf[r]] \cup {Nothing}
    /\ c.unknown \subseteq started[OperationOf[r]]
    /\ c.pc \in {"reconcile", "begin", "wait", "bind", "commit", "record"} => c.on \in started[OperationOf[r]]
    /\ c.pc = "again" /\ c.call # 0 => c.on \in started[OperationOf[r]]

Journaled ==
    /\ \A op \in Operations : started[op] \subseteq Plan[op]
    /\ \A r \in Runs : JournaledRun(r)

LEMMA JournaledKept ==
    ASSUME Journaled, NEW r \in Runs, \A s \in Runs \ {r} : run'[s] = run[s],
           \A op \in Operations : started[op] \subseteq started'[op] /\ started'[op] \subseteq Plan[op],
           JournaledRun(r)'
    PROVE  Journaled'
<1>1. ASSUME NEW s \in Runs, s # r PROVE JournaledRun(s)'
  BY <1>1, InfraAssumption DEF Journaled, JournaledRun
<1> QED
  BY <1>1 DEF Journaled

\* A step that leaves the journal and the resource in hand alone.
OnlyMoves(r) ==
    /\ \A s \in Runs \ {r} : run'[s] = run[s]
    /\ run'[r].todo = run[r].todo /\ run'[r].on = run[r].on /\ run'[r].unknown = run[r].unknown

LEMMA JournaledMove ==
    ASSUME Journaled, NEW r \in Runs, OnlyMoves(r), UNCHANGED started,
           \/ run'[r].pc \notin {"reconcile", "begin", "wait", "bind", "commit", "record", "again"}
           \/ run[r].on \in started[OperationOf[r]]
    PROVE  Journaled'
<1>1. JournaledRun(r)
  BY DEF Journaled
<1>2. JournaledRun(r)'
  BY <1>1 DEF JournaledRun, OnlyMoves
<1> QED
  BY <1>2, JournaledKept DEF Journaled, OnlyMoves

\* Only the place in the code changes.
LEMMA GotoMoves ==
    ASSUME IInv, NEW r \in Runs, NEW pc, Goto(r, pc)
    PROVE  OnlyMoves(r) /\ run'[r].pc = pc /\ run'[r].call = run[r].call
<1>1. run[r] \in RunRow /\ run \in [Runs -> RunRow]
  BY RunFacts
<1>2. run'[r] = [run[r] EXCEPT !.pc = pc] /\ \A s \in Runs \ {r} : run'[s] = run[s]
  BY <1>1 DEF Goto
<1> QED
  BY <1>1, <1>2 DEF RunRow, OnlyMoves

LEMMA JournaledEnd ==
    ASSUME IInv, Journaled, NEW r \in Runs, End(r), UNCHANGED started
    PROVE  Journaled'
<1>1. run'[r] = Ended /\ \A s \in Runs \ {r} : run'[s] = run[s]
  BY RunFacts DEF End
<1>2. JournaledRun(r)'
  BY <1>1 DEF JournaledRun, Ended, Idle
<1> QED
  BY <1>1, <1>2, JournaledKept DEF Journaled

LEMMA JournaledNext ==
    ASSUME IInv, Journaled, NEW r \in Runs, RunStep(r)
    PROVE  Journaled'
<1>0. /\ run[r] \in RunRow /\ run \in [Runs -> RunRow] /\ JournaledRun(r) /\ OperationOf[r] \in Operations
      /\ TypeOK /\ RunOK(r) /\ HoldOK(r)
  BY RunFacts DEF Journaled
<1>1. CASE Start(r)
  <2>1. CASE End(r)
    BY <1>1, <2>1, JournaledEnd DEF Start, storeVars
  <2>2. CASE ~End(r)
    <3>1. PICK confirmed \in BOOLEAN :
             run' = [run EXCEPT ![r].pc = "observe", ![r].base = binding, ![r].confirmed = confirmed,
                                ![r].upto = IF confirmed THEN Len(calls) ELSE 0]
      BY <1>1, <2>2 DEF Start
    <3> DEFINE upto == IF confirmed THEN Len(calls) ELSE 0
    <3>2. run' = [run EXCEPT ![r].pc = "observe", ![r].base = binding, ![r].confirmed = confirmed,
                             ![r].upto = upto]
      BY <3>1
    <3> HIDE DEF upto
    <3>3. /\ run'[r] = [run[r] EXCEPT !.pc = "observe", !.base = binding, !.confirmed = confirmed, !.upto = upto]
          /\ \A s \in Runs \ {r} : run'[s] = run[s]
      BY <1>0, <3>2
    <3>4. OnlyMoves(r) /\ run'[r].pc = "observe"
      BY <1>0, <3>3 DEF RunRow, OnlyMoves
    <3> QED
      BY <1>1, <3>4, JournaledMove DEF Start, storeVars
  <2> QED
    BY <2>1, <2>2
<1>2. CASE Observe(r)
  <2>1. CASE End(r)
    BY <1>2, <2>1, JournaledEnd DEF Observe, storeVars
  <2>2. CASE run' = [run EXCEPT ![r].pc = "resume", ![r].seen = Made]
    <3>1. /\ run'[r] = [run[r] EXCEPT !.pc = "resume", !.seen = Made]
          /\ \A s \in Runs \ {r} : run'[s] = run[s]
      BY <1>0, <2>2
    <3>2. OnlyMoves(r) /\ run'[r].pc = "resume"
      BY <1>0, <3>1 DEF RunRow, OnlyMoves
    <3> QED
      BY <1>2, <3>2, JournaledMove DEF Observe, storeVars
  <2> QED
    BY <1>2, <2>1, <2>2 DEF Observe
<1>3. CASE Resume(r)
  <2>1. CASE End(r)
    BY <1>3, <2>1, JournaledEnd DEF Resume, storeVars
  <2>2. CASE ~End(r)
    <3> DEFINE unknown == started[OperationOf[r]] \ completed[OperationOf[r]]
               pending == Plan[OperationOf[r]] \ completed[OperationOf[r]]
    <3>1. PICK complete \in BOOLEAN :
             run' = [run EXCEPT ![r].pc = "reserve", ![r].unknown = unknown, ![r].todo = pending,
                                ![r].complete = complete]
      BY <1>3, <2>2 DEF Resume
    <3>2. unknown \subseteq started[OperationOf[r]] /\ pending \subseteq Plan[OperationOf[r]]
      OBVIOUS
    <3> HIDE DEF unknown, pending
    <3>3. /\ run'[r] = [run[r] EXCEPT !.pc = "reserve", !.unknown = unknown, !.todo = pending, !.complete = complete]
          /\ \A s \in Runs \ {r} : run'[s] = run[s]
      BY <1>0, <3>1
    <3>4. /\ run'[r].pc = "reserve" /\ run'[r].on = run[r].on
          /\ run'[r].todo = pending /\ run'[r].unknown = unknown
      BY <1>0, <3>3 DEF RunRow
    <3>5. UNCHANGED started
      BY <1>3 DEF Resume, storeVars
    <3>6. JournaledRun(r)'
      BY <1>0, <3>2, <3>4, <3>5 DEF JournaledRun
    <3> QED
      BY <3>3, <3>5, <3>6, JournaledKept DEF Journaled
  <2> QED
    BY <2>1, <2>2
<1>4. ASSUME NEW q \in Resources, Reserve(r, q) PROVE Journaled'
  <2>1. CASE End(r)
    BY <1>4, <2>1, JournaledEnd DEF Reserve
  <2>2. CASE ~End(r)
    <3>1. PICK pc, c : /\ run' = [run EXCEPT ![r].pc = pc, ![r].on = q, ![r].todo = @ \ {q}, ![r].call = c]
                       /\ pc \in {"bind", "reconcile"} => q \in run[r].unknown
                       /\ pc \in {"bind", "reconcile", "doubt", "check"}
      BY <1>4, <2>2, Zenon DEF Reserve, Proceed, Earlier, Reconcilable
    <3>2. /\ run'[r] = [run[r] EXCEPT !.pc = pc, !.on = q, !.todo = @ \ {q}, !.call = c]
          /\ \A s \in Runs \ {r} : run'[s] = run[s]
      BY <1>0, <3>1
    <3>3. /\ run'[r].pc = pc /\ run'[r].on = q
          /\ run'[r].todo = run[r].todo \ {q} /\ run'[r].unknown = run[r].unknown
      BY <1>0, <3>2 DEF RunRow
    <3>4. UNCHANGED started /\ q \in run[r].todo
      BY <1>4 DEF Reserve
    <3>5. JournaledRun(r)'
      BY <1>0, <3>1, <3>3, <3>4 DEF JournaledRun
    <3> QED
      BY <3>2, <3>4, <3>5, JournaledKept DEF Journaled
  <2> QED
    BY <2>1, <2>2
<1>5. CASE Reconcile(r)
  <2>1. OnlyMoves(r) /\ run[r].on \in started[OperationOf[r]] /\ UNCHANGED started
    BY <1>0, <1>5, GotoMoves DEF Reconcile, JournaledRun
  <2> QED
    BY <2>1, JournaledMove
<1>6. CASE ReserveAgain(r)
  <2>1. CASE End(r)
    BY <1>6, <2>1, JournaledEnd DEF ReserveAgain
  <2>2. CASE ~End(r)
    <3> DEFINE pc == Goon(r)
    <3>1. UNCHANGED started /\ Goto(r, pc) /\ run[r].pc \in {"again", "retry"}
      BY <1>6, <2>2 DEF ReserveAgain, Goto
    <3>2. pc = "check" \/ (pc = "bind" /\ run[r].on \in started[OperationOf[r]])
      BY <1>0, <3>1 DEF Goon, JournaledRun
    <3> HIDE DEF pc
    <3> QED
      BY <3>1, <3>2, GotoMoves, JournaledMove
  <2> QED
    BY <2>1, <2>2
<1>7. CASE Doubt(r)
  BY <1>7, JournaledEnd DEF Doubt
<1>8. CASE Check(r)
  <2>1. OnlyMoves(r) /\ run'[r].pc \in {"intent", "giveup"} /\ UNCHANGED started
    BY <1>8, GotoMoves DEF Check, storeVars
  <2> QED
    BY <2>1, JournaledMove
<1>9. CASE Intent(r)
  <2>1. OnlyMoves(r) /\ run'[r].pc = "begin"
    BY <1>9, GotoMoves DEF Intent
  <2>2. run[r].on \in Resources /\ run[r].on # Nothing
    BY <1>0, <1>9, InfraAssumption DEF Intent, RunOK, Handling
  <2>3. started' = [started EXCEPT ![OperationOf[r]] = @ \cup {run[r].on}]
    BY <1>9 DEF Intent
  <2>4. /\ \A o \in Operations : started[o] \subseteq started'[o] /\ started'[o] \subseteq Plan[o]
        /\ run[r].on \in started'[OperationOf[r]]
    BY <1>0, <2>2, <2>3 DEF TypeOK, JournaledRun, Journaled
  <2>5. JournaledRun(r)'
    BY <1>0, <2>1, <2>4 DEF JournaledRun, OnlyMoves
  <2> QED
    BY <2>1, <2>4, <2>5, JournaledKept DEF OnlyMoves
<1>10. CASE Begin(r)
  <2>1. CASE End(r)
    BY <1>10, <2>1, JournaledEnd DEF Begin
  <2>2. CASE ~End(r)
    <3>1. /\ run[r].pc = "begin" /\ UNCHANGED started
          /\ run' = [run EXCEPT ![r].pc = "wait", ![r].call = Len(calls) + 1]
      BY <1>10, <2>2 DEF Begin
    <3>2. /\ run'[r] = [run[r] EXCEPT !.pc = "wait", !.call = Len(calls) + 1]
          /\ \A s \in Runs \ {r} : run'[s] = run[s]
      BY <1>0, <3>1
    <3>3. OnlyMoves(r)
      BY <1>0, <3>2 DEF RunRow, OnlyMoves
    <3> QED
      BY <1>0, <3>1, <3>3, JournaledMove DEF JournaledRun
  <2> QED
    BY <2>1, <2>2
<1>11. CASE Answer(r)
  <2>1. CASE End(r)
    BY <1>11, <2>1, JournaledEnd DEF Answer
  <2>2. CASE ~End(r)
    <3>1. UNCHANGED started /\ run[r].pc = "wait" /\ \E pc \in {"bind", "doubt", "retry", "giveup"} : Goto(r, pc)
      BY <1>11, <2>2 DEF Answer
    <3>2. OnlyMoves(r)
      BY <3>1, GotoMoves
    <3> QED
      BY <1>0, <3>1, <3>2, JournaledMove DEF JournaledRun
  <2> QED
    BY <2>1, <2>2
<1>12. CASE AnswerLost(r)
  <2>1. OnlyMoves(r) /\ run'[r].pc = "doubt" /\ UNCHANGED started
    BY <1>12, GotoMoves DEF AnswerLost, storeVars
  <2> QED
    BY <2>1, JournaledMove
<1>13. CASE Bind(r)
  <2>1. PICK pc : run' = [run EXCEPT ![r].pc = pc, ![r].base = binding, ![r].generation = generation]
    BY <1>13 DEF Bind
  <2>2. /\ run'[r] = [run[r] EXCEPT !.pc = pc, !.base = binding, !.generation = generation]
        /\ \A s \in Runs \ {r} : run'[s] = run[s]
    BY <1>0, <2>1
  <2>3. OnlyMoves(r)
    BY <1>0, <2>2 DEF RunRow, OnlyMoves
  <2>4. run[r].on \in started[OperationOf[r]] /\ UNCHANGED started
    BY <1>0, <1>13 DEF JournaledRun, Bind, storeVars
  <2> QED
    BY <2>3, <2>4, JournaledMove
<1>14. CASE Commit(r)
  <2>1. CASE End(r)
    BY <1>14, <2>1, JournaledEnd DEF Commit
  <2>2. CASE ~End(r)
    <3>1. PICK base : run' = [run EXCEPT ![r].pc = "record", ![r].base = base]
      BY <1>14, <2>2 DEF Commit
    <3>2. /\ run'[r] = [run[r] EXCEPT !.pc = "record", !.base = base]
          /\ \A s \in Runs \ {r} : run'[s] = run[s]
      BY <1>0, <3>1
    <3>3. OnlyMoves(r)
      BY <1>0, <3>2 DEF RunRow, OnlyMoves
    <3>4. run[r].on \in started[OperationOf[r]] /\ UNCHANGED started
      BY <1>0, <1>14 DEF JournaledRun, Commit
    <3> QED
      BY <3>3, <3>4, JournaledMove
  <2> QED
    BY <2>1, <2>2
<1>15. CASE Record(r)
  <2>1. OnlyMoves(r) /\ run[r].on \in started[OperationOf[r]]
    BY <1>0, <1>15, GotoMoves DEF Record, JournaledRun
  <2>2. UNCHANGED started
    BY <1>0, <1>15, <2>1 DEF Record, TypeOK
  <2> QED
    BY <2>1, <2>2, JournaledMove
<1>16. CASE Release(r)
  <2>1. CASE End(r)
    BY <1>16, <2>1, JournaledEnd DEF Release
  <2>2. CASE ~End(r)
    <3>1. /\ UNCHANGED started
          /\ run' = [run EXCEPT ![r].pc = "reserve", ![r].on = Nothing, ![r].call = 0]
      BY <1>16, <2>2 DEF Release
    <3>2. /\ run'[r] = [run[r] EXCEPT !.pc = "reserve", !.on = Nothing, !.call = 0]
          /\ \A s \in Runs \ {r} : run'[s] = run[s]
      BY <1>0, <3>1
    <3>3. /\ run'[r].pc = "reserve" /\ run'[r].on = Nothing
          /\ run'[r].todo = run[r].todo /\ run'[r].unknown = run[r].unknown
      BY <1>0, <3>2 DEF RunRow
    <3>4. JournaledRun(r)'
      BY <1>0, <3>1, <3>3 DEF JournaledRun
    <3> QED
      BY <3>1, <3>2, <3>4, JournaledKept DEF Journaled
  <2> QED
    BY <2>1, <2>2
<1>17. CASE RunStops(r)
  BY <1>17, JournaledEnd DEF RunStops, storeVars
<1> QED
  BY <1>1, <1>2, <1>3, <1>4, <1>5, <1>6, <1>7, <1>8, <1>9, <1>10, <1>11, <1>12, <1>13, <1>14, <1>15,
     <1>16, <1>17 DEF RunStep

LEMMA JournaledAlways == Spec => [](IInv /\ Journaled)
<1>1. Init => Journaled
  <2> SUFFICES ASSUME Init PROVE Journaled
    OBVIOUS
  <2>1. started = [o \in Operations |-> {}] /\ run = [r \in Runs |-> Idle]
    BY DEF Init
  <2>2. ASSUME NEW r \in Runs PROVE JournaledRun(r)
    BY <2>1 DEF JournaledRun, Idle
  <2> QED
    BY <2>1, <2>2 DEF Journaled
<1>2. ASSUME IInv, Journaled, [Next]_vars PROVE Journaled'
  <2>1. CASE UNCHANGED <<started, run>>
    BY <2>1, <1>2 DEF Journaled, JournaledRun
  <2>2. ASSUME NEW r \in Runs, RunStep(r) PROVE Journaled'
    BY <1>2, <2>2, JournaledNext
  <2> QED
    BY <1>2, <2>1, <2>2 DEF Next, Provide, LeaseLapses, storeVars, vars
<1> QED
  BY <1>1, <1>2, Inductive, PTL DEF Spec

MadeRows == {[id |-> c, op |-> calls[c].op, resource |-> calls[c].resource] : c \in Made}

\* A step that leaves what the provider made, the journal and the binding alone.
LEMMA ContractStutters ==
    ASSUME MadeRows' = MadeRows, UNCHANGED <<started, binding, completed, stray>>
    PROVE  UNCHANGED Contract!contractVars
BY DEF MadeRows, Contract!contractVars

LEMMA RowsKept == ASSUME UNCHANGED calls PROVE MadeRows' = MadeRows
BY DEF MadeRows, Made

\* The rows of what was made stay while a call is only added or refused.
LEMMA RowsOf ==
    ASSUME Made' = Made,
           \A c \in Made : calls'[c].op = calls[c].op /\ calls'[c].resource = calls[c].resource
    PROVE  MadeRows' = MadeRows
BY DEF MadeRows

LEMMA BeginContract ==
    ASSUME IInv, NEW r \in Runs, Begin(r)
    PROVE  UNCHANGED Contract!contractVars
<1>1. UNCHANGED <<started, binding, completed, stray>>
  BY DEF Begin
<1>2. CASE UNCHANGED calls
  BY <1>1, <1>2, RowsKept, ContractStutters
<1>3. CASE ~UNCHANGED calls
  <2> DEFINE row == [op |-> OperationOf[r], resource |-> run[r].on, at |-> "sent"]
  <2>1. calls' = Append(calls, row)
    BY <1>3 DEF Begin
  <2>2. row.at = "sent"
    OBVIOUS
  <2>3. calls \in Seq(CallRow) /\ row \in CallRow
    BY RunFacts DEF TypeOK, CallRow, RunOK, Handling, Begin
  <2> HIDE DEF row
  <2>4. /\ DOMAIN calls' = DOMAIN calls \cup {Len(calls) + 1} /\ calls'[Len(calls) + 1] = row
        /\ \A c \in DOMAIN calls : calls'[c] = calls[c]
    BY <2>1, <2>3
  <2>5. Made' = Made
    BY <2>2, <2>4 DEF Made
  <2> QED
    BY <1>1, <2>4, <2>5, RowsOf, ContractStutters DEF Made
<1> QED
  BY <1>2, <1>3

LEMMA ProvideContract ==
    ASSUME IInv, IInv', NEW c \in CallIds, Provide(c)
    PROVE  [Contract!Next]_(Contract!contractVars)
<1>0. c \in DOMAIN calls /\ calls[c].at = "sent" /\ UNCHANGED <<storeVars, run, stray, faults>>
  BY DEF Provide
<1>1. PICK at \in {"made", "refused"} : calls' = [calls EXCEPT ![c].at = at]
  BY DEF Provide
<1>2. calls \in Seq(CallRow) /\ calls[c] \in CallRow /\ DOMAIN calls' = DOMAIN calls
  BY <1>0, <1>1, CallsFacts DEF IInv, TypeOK
<1>3. calls'[c] = [calls[c] EXCEPT !.at = at] /\ \A d \in DOMAIN calls \ {c} : calls'[d] = calls[d]
  BY <1>0, <1>1, <1>2
<1>4. calls'[c].at = at /\ calls'[c].op = calls[c].op /\ calls'[c].resource = calls[c].resource
  BY <1>2, <1>3 DEF CallRow
<1>5. UNCHANGED <<started, binding, completed, stray>>
  BY <1>0 DEF storeVars
<1>6. CASE at = "refused"
  <2>1. Made' = Made /\ c \notin Made
    BY <1>0, <1>2, <1>3, <1>4, <1>6 DEF Made
  <2>2. MadeRows' = MadeRows
    BY <1>3, <2>1, RowsOf DEF Made
  <2> QED
    BY <1>5, <2>2, ContractStutters
<1>7. CASE at = "made"
  <2>1. PICK op \in Operations, q \in Resources :
           op = calls[c].op /\ q = calls[c].resource /\ q \in started[op]
    BY <1>0, <1>2 DEF CallRow, IInv, CallsOK
  <2>2. Made' = Made \cup {c} /\ c \notin Made
    BY <1>0, <1>2, <1>3, <1>4, <1>7 DEF Made
  <2>3. MadeRows' = MadeRows \cup {[id |-> c, op |-> op, resource |-> q]}
    <3>1. \A d \in Made : calls'[d].op = calls[d].op /\ calls'[d].resource = calls[d].resource
      BY <1>3, <2>2 DEF Made
    <3> QED
      BY <1>4, <2>1, <2>2, <3>1 DEF MadeRows
  <2>4. ASSUME NEW m \in MadeRows PROVE m.id # c /\ (m.resource = q => {m.id, c} \cap stray # {})
    <3>1. PICK d \in Made : m = [id |-> d, op |-> calls[d].op, resource |-> calls[d].resource]
      BY DEF MadeRows
    <3>2. m.id = d /\ m.resource = calls[d].resource /\ d # c
      BY <3>1, <2>2
    <3>3. d \in DOMAIN calls /\ calls[d].at = "made" /\ d \in Nat /\ c \in Nat
      BY <1>0, CallsFacts DEF IInv, Made
    <3>4. d < c /\ calls[d].resource = q => d \in stray
      BY <1>0, <2>1, <3>3 DEF IInv, CallsOK
    <3>5. c < d /\ calls[d].resource = q => c \in stray
      BY <1>0, <2>1, <3>3 DEF IInv, CallsOK
    <3> QED
      BY <3>2, <3>3, <3>4, <3>5
  <2>5. Contract!Make(c, op, q)
    BY <1>5, <2>1, <2>3, <2>4 DEF Contract!Make, MadeRows
  <2> QED
    BY <2>1, <2>5 DEF Contract!Next
<1> QED
  BY <1>6, <1>7

LEMMA ReconcileContract ==
    ASSUME IInv, NEW r \in Runs, Reconcile(r)
    PROVE  [Contract!Next]_(Contract!contractVars)
<1> DEFINE given == {c \in DOMAIN calls : /\ reservation # Nothing /\ reservation.inflight = c
                                          /\ c # run[r].call /\ (run[r].call = 0 => c > run[r].upto)}
<1>1. stray' = stray \cup given /\ UNCHANGED <<calls, started, binding, completed>>
  BY DEF Reconcile
<1>2. given \subseteq CallIds /\ \A c, d \in given : c = d
  BY CallsFacts DEF IInv
<1> HIDE DEF given
<1>3. MadeRows' = MadeRows
  BY <1>1, RowsKept
<1>4. CASE given = {}
  BY <1>1, <1>3, <1>4, ContractStutters
<1>5. CASE given # {}
  <2>1. PICK c \in given : given = {c}
    BY <1>2, <1>5
  <2>2. Contract!Excuse(c) /\ c \in CallIds
    BY <1>1, <1>2, <1>3, <2>1 DEF Contract!Excuse, MadeRows
  <2> QED
    BY <2>2 DEF Contract!Next
<1> QED
  BY <1>4, <1>5

LEMMA CommitContract ==
    ASSUME IInv, Journaled, NEW r \in Runs, Commit(r)
    PROVE  [Contract!Next]_(Contract!contractVars)
<1>1. UNCHANGED <<started, completed, stray>> /\ MadeRows' = MadeRows /\ run[r].pc = "commit"
  BY RowsKept DEF Commit
<1>2. CASE UNCHANGED binding
  BY <1>1, <1>2, ContractStutters
<1>3. CASE ~UNCHANGED binding
  <2> DEFINE q == run[r].on
             op == OperationOf[r]
             m == [id |-> run[r].call, op |-> calls[run[r].call].op, resource |-> calls[run[r].call].resource]
  <2>1. /\ binding' = [run[r].base EXCEPT ![q] = [id |-> run[r].call, by |-> op]]
        /\ generation = run[r].generation
    BY <1>3 DEF Commit
  <2>2. /\ q \in Resources /\ op \in Operations /\ run[r].call \in Named(Made, q)
        /\ run[r].base = binding /\ binding[q] = Nothing
    BY <1>1, <2>1, RunFacts DEF RunOK, Handling
  <2>3. m \in MadeRows /\ m.resource = q /\ m.id = run[r].call
    BY <2>2 DEF MadeRows, Named
  <2>4. q \in started[op]
    BY <1>1 DEF Journaled, JournaledRun
  <2> HIDE DEF m
  <2>5. binding' = [binding EXCEPT ![q] = [id |-> m.id, by |-> op]]
    BY <2>1, <2>2, <2>3
  <2>6. Contract!Bind(op, q)
    BY <1>1, <2>2, <2>3, <2>4, <2>5 DEF Contract!Bind, MadeRows
  <2> QED
    BY <2>2, <2>6 DEF Contract!Next
<1> QED
  BY <1>2, <1>3

LEMMA JournalContract ==
    ASSUME IInv, Journaled, NEW r \in Runs, Intent(r) \/ Record(r)
    PROVE  [Contract!Next]_(Contract!contractVars)
<1> DEFINE q == run[r].on
           op == OperationOf[r]
<1>0. q \in Resources /\ op \in Operations /\ JournaledRun(r) /\ TypeOK /\ RunOK(r)
  BY RunFacts DEF RunOK, Handling, Intent, Record, Journaled
<1>1. MadeRows' = MadeRows
  BY RowsKept DEF Intent, Record, storeVars
<1>2. CASE Intent(r)
  <2>1. q \in Plan[op]
    BY <1>0, InfraAssumption DEF JournaledRun
  <2>2. Contract!Intend(op, q)
    BY <1>1, <1>2, <2>1 DEF Intent, Contract!Intend, MadeRows
  <2> QED
    BY <1>0, <2>2 DEF Contract!Next
<1>3. CASE Record(r)
  <2>1. q \in started[op] /\ binding[q] # Nothing
    BY <1>0, <1>3 DEF JournaledRun, RunOK, Record
  <2>2. started' = started
    BY <1>0, <1>3, <2>1 DEF Record, TypeOK
  <2>3. Contract!Complete(op, q)
    BY <1>1, <1>3, <2>1, <2>2 DEF Record, Contract!Complete, MadeRows
  <2> QED
    BY <1>0, <2>3 DEF Contract!Next
<1> QED
  BY <1>2, <1>3

LEMMA StepImplements ==
    ASSUME IInv, IInv', Journaled, [Next]_vars
    PROVE  [Contract!Next]_(Contract!contractVars)
<1>1. CASE UNCHANGED <<calls, started, binding, completed, stray>>
  BY <1>1, RowsKept, ContractStutters
<1>2. ASSUME NEW r \in Runs, RunStep(r), ~UNCHANGED <<calls, started, binding, completed, stray>>
      PROVE  [Contract!Next]_(Contract!contractVars)
  <2>1. Reconcile(r) \/ Intent(r) \/ Begin(r) \/ Commit(r) \/ Record(r)
    BY <1>2 DEF RunStep, Start, Observe, Resume, Reserve, ReserveAgain, Doubt, Check, Answer, AnswerLost,
                Bind, Release, RunStops, storeVars
  <2> QED
    BY <2>1, BeginContract, ReconcileContract, CommitContract, JournalContract
<1>3. ASSUME NEW c \in CallIds, Provide(c) PROVE [Contract!Next]_(Contract!contractVars)
  BY <1>3, ProvideContract
<1> QED
  BY <1>1, <1>2, <1>3 DEF Next, LeaseLapses, vars, storeVars

\* Whatever runs apply or resume whatever plans, the journal, the provider and the
\* binding change only as the contract allows (applyPlan, executeCreate, finishCreate).
THEOREM RunsImplementContract == Spec => ImplementsContract
<1>1. Init => Contract!Init
  <2> SUFFICES ASSUME Init PROVE Contract!Init
    OBVIOUS
  <2>1. Made = {}
    BY DEF Init, Made
  <2>2. MadeRows = {}
    BY <2>1 DEF MadeRows
  <2> QED
    BY <2>2 DEF Init, Contract!Init, MadeRows, Unbound
<1>2. IInv /\ IInv' /\ Journaled /\ [Next]_vars => [Contract!Next]_(Contract!contractVars)
  BY StepImplements
<1> QED
  BY <1>1, <1>2, JournaledAlways, PTL DEF Spec, ImplementsContract, Contract!Spec
=============================================================================
