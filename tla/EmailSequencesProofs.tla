------------------------ MODULE EmailSequencesProofs ------------------------
(***************************************************************************)
(* Proofs about email sequences for every number of triggers, users and    *)
(* attempts, every sequence of steps and every number of faults.           *)
(***************************************************************************)
EXTENDS EmailSequences, TLAPS

-----------------------------------------------------------------------------
(* The inductive invariant *)

\* A run that nothing has stopped may send any step; a wait that is over is on record;
\* the engine is not ahead; and what was accepted was sent by a run that had started,
\* from a step it had reached, and that its stops left sendable.
TriggerOK(t) ==
    /\ UserOf[t] \notin suppressed /\ run[t].status \in {"none", "active"} => sendable[t] = Index
    /\ Active(t) => /\ run[t].step < Length
                    /\ engine[t].index <= run[t].step
                    /\ ~run[t].waiting /\ run[t].step > 0 /\ Steps[run[t].step] = "wait"
                         => run[t].step \in elapsed[t]
                    /\ handler[t] = "done" => engine[t].state # "none"
    /\ handler[t] = "start" => run[t].status # "none"
    /\ run[t].status = "none" => run[t].step = 0 /\ engine[t].index = 0
    /\ run[t].waiting => Active(t)
    /\ recorded[t] \subseteq accepted[t]
    /\ \A i \in accepted[t] :
         /\ run[t].status # "none" /\ i <= run[t].step /\ i \in sendable[t]
         /\ i > 0 /\ Steps[i] = "wait" => i \in elapsed[t]

\* An attempt is at a step its run has reached, of the kind it executes; before it
\* sends the wait is over, and no stop but a suppression that it has yet to look for
\* has taken its step from what is sendable.
Sending == {"defer", "check", "skip", "send", "record"}
AttemptOK(x) ==
    LET t == attempt[x].on
        i == attempt[x].index
    IN  attempt[x].pc # "idle" =>
          /\ t \in Triggers /\ run[t].status # "none" /\ i <= run[t].step /\ i < Length
          /\ attempt[x].pc = "wait" => Steps[i + 1] = "wait"
          /\ attempt[x].pc \in Sending => /\ Steps[i + 1] = "send"
                                          /\ i > 0 /\ Steps[i] = "wait" => i \in elapsed[t]
          /\ attempt[x].pc = "check" => i \in sendable[t] \/ UserOf[t] \in suppressed
          /\ attempt[x].pc = "send" => i \in sendable[t]
          /\ attempt[x].pc = "record" => i \in accepted[t]

IInv ==
    /\ TypeOK /\ OneActive
    /\ \A t \in Triggers : TriggerOK(t)
    /\ \A x \in Attempts : AttemptOK(x)

\* The rows' types.
RunRow == [status : {"none", "active", "completed", "exited", "failed"}, step : Index, waiting : BOOLEAN]
EngineRow ==
    [state : {"none", "ready", "busy", "asleep", "over", "lost"}, index : Index, by : Attempts \cup {Nobody}]
AttemptRow ==
    [pc : {"idle", "wait", "defer", "check", "skip", "send", "record", "fail", "exit"},
     on : Triggers \cup {Nobody}, index : Index]

LEMMA Types ==
    TypeOK <=> /\ run \in [Triggers -> RunRow] /\ engine \in [Triggers -> EngineRow]
               /\ attempt \in [Attempts -> AttemptRow]
               /\ handler \in [Triggers -> {"insert", "select", "start", "done"}]
               /\ suppressed \subseteq Users
               /\ accepted \in [Triggers -> SUBSET Index] /\ recorded \in [Triggers -> SUBSET Index]
               /\ elapsed \in [Triggers -> SUBSET Index]
               /\ sendable \in [Triggers -> SUBSET Index] /\ gone \subseteq Triggers /\ faults \in 0..MaxFaults
BY DEF TypeOK, RunRow, EngineRow, AttemptRow

LEMMA StepsFacts ==
    /\ Length \in Nat /\ Length > 0
    /\ \A i \in 0..(Length - 1) : Steps[i + 1] \in {"wait", "send"}
BY SequenceAssumption DEF Length

THEOREM InitInv == Init => IInv
<1> SUFFICES ASSUME Init PROVE IInv
  OBVIOUS
<1>1. TypeOK
  <2>1. 0 \in Index /\ 0 \in 0..MaxFaults
    BY StepsFacts, SequenceAssumption DEF Index
  <2>2. sendable \in [Triggers -> SUBSET Index] /\ gone \subseteq Triggers /\ faults \in 0..MaxFaults
    BY <2>1 DEF Init, RunRow, EngineRow, AttemptRow
  <2>3. run \in [Triggers -> RunRow]
    BY <2>1 DEF Init, RunRow, EngineRow, AttemptRow
  <2>4. engine \in [Triggers -> EngineRow]
    BY <2>1 DEF Init, RunRow, EngineRow, AttemptRow
  <2>5. attempt \in [Attempts -> AttemptRow]
    BY <2>1 DEF Init, Free, AttemptRow
  <2> QED
    BY <2>2, <2>3, <2>4, <2>5 DEF Init, TypeOK, RunRow, EngineRow, AttemptRow
<1>2. OneActive
  BY DEF Init, OneActive, Active
<1>3. ASSUME NEW t \in Triggers PROVE TriggerOK(t)
  BY StepsFacts DEF Init, TriggerOK, Active
<1>4. ASSUME NEW x \in Attempts PROVE AttemptOK(x)
  BY DEF Init, AttemptOK, Free
<1> QED
  BY <1>1, <1>2, <1>3, <1>4 DEF IInv

-----------------------------------------------------------------------------
(* Frames *)

\* What every step keeps of a run that others rely on.
Grows(t) ==
    /\ run'[t].step \in {run[t].step, run[t].step + 1}
    /\ Ended(t) => run'[t] = run[t]
    /\ run[t].status # "none" => run'[t].status # "none"
    /\ accepted[t] \subseteq accepted'[t] /\ elapsed[t] \subseteq elapsed'[t]
    /\ UserOf[t] \in suppressed => UserOf[t] \in suppressed'
    /\ \/ sendable'[t] = sendable[t]
       \/ sendable'[t] = sendable[t] \cap Left(t, {"check", "send"})
       \/ UserOf[t] \in suppressed' /\ sendable'[t] = sendable[t] \cap Left(t, {"send"})

LEMMA AttemptsKept ==
    ASSUME IInv, TypeOK', \A t \in Triggers : Grows(t), NEW x \in Attempts, attempt'[x] = attempt[x]
    PROVE  AttemptOK(x)'
<1> PICK t : t = attempt[x].on
  OBVIOUS
<1> PICK i : i = attempt[x].index
  OBVIOUS
<1>1. CASE attempt[x].pc = "idle"
  BY <1>1 DEF AttemptOK
<1>2. CASE attempt[x].pc # "idle"
  <2>1. /\ t \in Triggers /\ run[t].status # "none" /\ i <= run[t].step /\ i < Length
        /\ attempt[x].pc = "wait" => Steps[i + 1] = "wait"
        /\ attempt[x].pc \in Sending => Steps[i + 1] = "send" /\ (i > 0 /\ Steps[i] = "wait" => i \in elapsed[t])
        /\ attempt[x].pc = "check" => i \in sendable[t] \/ UserOf[t] \in suppressed
        /\ attempt[x].pc = "send" => i \in sendable[t]
        /\ attempt[x].pc = "record" => i \in accepted[t]
    BY <1>2 DEF IInv, AttemptOK
  <2>2. run[t].step \in Nat /\ run'[t].step \in Nat /\ i \in Nat
    BY <2>1, StepsFacts DEF IInv, TypeOK, RunRow, EngineRow, AttemptRow, Index
  <2>3. run'[t].status # "none" /\ i <= run'[t].step
    BY <2>1, <2>2 DEF Grows
  <2>4. /\ attempt[x].pc = "check" => i \in sendable'[t] \/ UserOf[t] \in suppressed'
        /\ attempt[x].pc = "send" => i \in sendable'[t]
    <3>1. ASSUME NEW pcs, attempt[x].pc \in pcs PROVE i \in Left(t, pcs)
      BY <3>1 DEF Left
    <3>2. attempt[x].pc \in {"check", "send"} => i \in Left(t, {"check", "send"})
      BY <3>1
    <3>3. attempt[x].pc = "send" => i \in Left(t, {"send"})
      BY <3>1
    <3> QED
      BY <2>1, <3>2, <3>3 DEF Grows
  <2>5. (i \in elapsed[t] => i \in elapsed'[t]) /\ (i \in accepted[t] => i \in accepted'[t])
    BY <2>1 DEF Grows
  <2> QED
    BY <2>1, <2>3, <2>4, <2>5 DEF AttemptOK
<1> QED
  BY <1>1, <1>2

\* A trigger of which a step changes nothing.
Untouched(t) ==
    /\ run'[t] = run[t] /\ engine'[t] = engine[t] /\ handler'[t] = handler[t] /\ sendable'[t] = sendable[t]
    /\ accepted'[t] = accepted[t] /\ recorded'[t] = recorded[t] /\ elapsed'[t] = elapsed[t]
    /\ UserOf[t] \in suppressed' <=> UserOf[t] \in suppressed

LEMMA TriggersKept ==
    ASSUME IInv, NEW t \in Triggers, Untouched(t) PROVE TriggerOK(t)' /\ Grows(t)
<1>1. TriggerOK(t)'
  BY DEF IInv, TriggerOK, Untouched, Active
<1>2. Grows(t)
  BY DEF Untouched, Grows
<1> QED
  BY <1>1, <1>2

\* No step but an insert makes a run active.
LEMMA OneActiveKept ==
    ASSUME IInv, \A t \in Triggers : Active(t)' => Active(t) PROVE OneActive'
BY DEF IInv, OneActive

\* A step about one trigger.
Result == IInv' /\ \A t \in Triggers : Grows(t)

LEMMA OneTrigger ==
    ASSUME IInv, TypeOK', OneActive', NEW t \in Triggers, Grows(t), TriggerOK(t)',
           \A s \in Triggers \ {t} : Untouched(s),
           \A x \in Attempts : attempt'[x] = attempt[x] \/ AttemptOK(x)'
    PROVE  Result
<1>1. ASSUME NEW s \in Triggers PROVE TriggerOK(s)' /\ Grows(s)
  BY TriggersKept
<1>2. ASSUME NEW x \in Attempts PROVE AttemptOK(x)'
  BY <1>1, AttemptsKept
<1> QED
  BY <1>1, <1>2 DEF IInv, Result

-----------------------------------------------------------------------------
(* The trigger's consumer *)

LEMMA InsertStep == ASSUME IInv, NEW t \in Triggers, Insert(t) PROVE Result
<1>1. TypeOK'
  <2>1. run' = run \/ run' = [run EXCEPT ![t].status = "active"]
    BY DEF Insert
  <2>2. run' \in [Triggers -> RunRow]
    BY <2>1, Types DEF IInv, RunRow
  <2>3. handler' \in [Triggers -> {"insert", "select", "start", "done"}]
    BY DEF IInv, TypeOK, RunRow, EngineRow, AttemptRow, Insert
  <2>4. UNCHANGED <<recorded, engine, attempt, suppressed, sendable, gone, accepted, elapsed, faults>>
    BY DEF Insert, outside
  <2> QED
    BY <2>2, <2>3, <2>4 DEF IInv, TypeOK, RunRow, EngineRow, AttemptRow
<1>2. CASE run[t].status = "none" /\ Rivals(t) = {}
  <2>1. /\ run' = [run EXCEPT ![t].status = "active"] /\ handler' = [handler EXCEPT ![t] = "start"]
        /\ UNCHANGED <<recorded, engine, attempt, suppressed, sendable, gone, accepted, elapsed>>
    BY <1>2 DEF Insert, outside
  <2>2. \A s \in Triggers : s # t => run'[s] = run[s] /\ handler'[s] = handler[s]
    BY <2>1 DEF IInv, TypeOK, RunRow, EngineRow, AttemptRow
  <2>3. run'[t].status = "active" /\ run'[t].step = run[t].step /\ handler'[t] = "start"
    BY <2>1 DEF IInv, TypeOK, RunRow, EngineRow, AttemptRow
  <2>4. OneActive'
    BY <1>2, <2>2, <2>3 DEF IInv, OneActive, Rivals, Active
  <2>5. TriggerOK(t)
    BY DEF IInv
  <2>6. TriggerOK(t)'
    BY <1>2, <2>1, <2>3, <2>5, StepsFacts DEF TriggerOK, Active
  <2>7. Grows(t)
    BY <1>2, <2>1, <2>3 DEF Grows, Ended
  <2>8. \A s \in Triggers \ {t} : Untouched(s)
    BY <2>1, <2>2 DEF Untouched
  <2> QED
    BY <1>1, <2>1, <2>4, <2>6, <2>7, <2>8, OneTrigger
<1>3. CASE ~(run[t].status = "none" /\ Rivals(t) = {})
  <2>1. /\ handler' = [handler EXCEPT ![t] = "select"]
        /\ UNCHANGED <<run, recorded, engine, attempt, suppressed, sendable, gone, accepted, elapsed>>
    BY <1>3 DEF Insert, outside
  <2>2. handler'[t] = "select" /\ \A s \in Triggers : s # t => handler'[s] = handler[s]
    BY <2>1 DEF IInv, TypeOK, RunRow, EngineRow, AttemptRow
  <2>3. OneActive'
    BY <2>1, OneActiveKept DEF Active
  <2>4. TriggerOK(t)' /\ Grows(t)
    BY <2>1, <2>2 DEF IInv, TriggerOK, Active, Grows
  <2>5. \A s \in Triggers \ {t} : Untouched(s)
    BY <2>1, <2>2 DEF Untouched
  <2> QED
    BY <1>1, <2>1, <2>3, <2>4, <2>5, OneTrigger
<1> QED
  BY <1>2, <1>3

\* The steps of a handler or an engine leave the runs alone.
LEMMA DriverStep ==
    ASSUME IInv, TypeOK', NEW t \in Triggers,
           UNCHANGED <<run, recorded, attempt, suppressed, sendable, accepted, elapsed>>,
           \A s \in Triggers : s # t => handler'[s] = handler[s] /\ engine'[s] = engine[s],
           handler'[t] = "start" => run[t].status # "none",
           Active(t) => engine'[t].index <= run[t].step,
           run[t].status = "none" => engine'[t].index = 0,
           Active(t) /\ handler'[t] = "done" => engine'[t].state # "none"
    PROVE  Result
<1>1. OneActive'
  BY OneActiveKept DEF Active
<1>2. TriggerOK(t)' /\ Grows(t)
  BY DEF IInv, TriggerOK, Active, Grows
<1>3. \A s \in Triggers \ {t} : Untouched(s)
  BY DEF Untouched
<1> QED
  BY <1>1, <1>2, <1>3, OneTrigger

LEMMA SelectStep == ASSUME IInv, NEW t \in Triggers, Select(t) PROVE Result
<1>1. UNCHANGED <<run, recorded, engine, attempt, suppressed, sendable, gone, accepted, elapsed>> /\ UNCHANGED faults
  BY DEF Select, rows, outside
<1>2. handler' = [handler EXCEPT ![t] = Found(t)] /\ Found(t) \in {"start", "done", "insert"}
  BY DEF Select, Found
<1>3. TypeOK'
  BY <1>1, <1>2 DEF IInv, TypeOK, RunRow, EngineRow, AttemptRow
<1>4. handler'[t] = Found(t) /\ \A s \in Triggers : s # t => handler'[s] = handler[s]
  BY <1>2 DEF IInv, TypeOK, RunRow, EngineRow, AttemptRow
<1>5. /\ handler'[t] = "start" => Active(t)
      /\ handler'[t] = "done" => ~Active(t)
  BY <1>4 DEF Found, Rivals, Active, Ended
<1>6. TriggerOK(t)
  BY DEF IInv
<1> QED
  BY <1>1, <1>3, <1>4, <1>5, <1>6, DriverStep DEF TriggerOK, Active

LEMMA StartEngineStep == ASSUME IInv, NEW t \in Triggers, StartEngine(t) PROVE Result
<1>1. UNCHANGED <<run, recorded, attempt, suppressed, sendable, gone, accepted, elapsed>> /\ UNCHANGED faults
  BY DEF StartEngine, rows, outside
<1>2. TypeOK'
  BY <1>1 DEF IInv, TypeOK, RunRow, EngineRow, AttemptRow, StartEngine
<1>3. /\ handler'[t] = "done" /\ engine'[t].state # "none" /\ engine'[t].index = engine[t].index
      /\ \A s \in Triggers : s # t => handler'[s] = handler[s] /\ engine'[s] = engine[s]
  BY DEF IInv, TypeOK, RunRow, EngineRow, AttemptRow, StartEngine
<1>4. TriggerOK(t)
  BY DEF IInv
<1> QED
  BY <1>1, <1>2, <1>3, <1>4, DriverStep DEF TriggerOK

LEMMA HandlerFailsStep == ASSUME IInv, NEW t \in Triggers, HandlerFails(t) PROVE Result
<1>1. UNCHANGED <<run, recorded, engine, attempt, suppressed, sendable, gone, accepted, elapsed>>
  BY DEF HandlerFails, rows, outside
<1>2. TypeOK'
  BY <1>1, SequenceAssumption DEF IInv, TypeOK, RunRow, EngineRow, AttemptRow, HandlerFails, Fault
<1>3. handler'[t] = "insert" /\ \A s \in Triggers : s # t => handler'[s] = handler[s]
  BY DEF IInv, TypeOK, RunRow, EngineRow, AttemptRow, HandlerFails
<1>4. TriggerOK(t)
  BY DEF IInv
<1> QED
  BY <1>1, <1>2, <1>3, <1>4, DriverStep DEF TriggerOK

-----------------------------------------------------------------------------
(* The engine *)

LEMMA CancelStep == ASSUME IInv, NEW t \in Triggers, Cancel(t) PROVE Result
<1>1. UNCHANGED <<run, recorded, attempt, suppressed, sendable, gone, accepted, elapsed, handler>> /\ UNCHANGED faults
  BY DEF Cancel, rows, outside
<1>2. TypeOK'
  BY <1>1 DEF IInv, TypeOK, RunRow, EngineRow, AttemptRow, Cancel
<1>3. /\ engine'[t].state = "over" /\ engine'[t].index = engine[t].index
      /\ \A s \in Triggers : s # t => engine'[s] = engine[s]
  BY DEF IInv, TypeOK, RunRow, EngineRow, AttemptRow, Cancel
<1>4. TriggerOK(t)
  BY DEF IInv
<1> QED
  BY <1>1, <1>2, <1>3, <1>4, DriverStep DEF TriggerOK

LEMMA PruneStep == ASSUME IInv, NEW t \in Triggers, Prune(t) PROVE Result
<1>1. UNCHANGED <<run, recorded, handler, engine, attempt, suppressed, sendable, accepted, elapsed, faults>>
  BY DEF Prune, rows
<1>2. TypeOK'
  BY <1>1 DEF IInv, TypeOK, Prune
<1>3. TriggerOK(t)
  BY DEF IInv
<1> QED
  BY <1>1, <1>2, <1>3, DriverStep DEF TriggerOK

LEMMA EngineStep ==
    ASSUME IInv, NEW t \in Triggers, TimesOut(t) \/ Restarts(t) \/ GivesUp(t) \/ Wake(t) PROVE Result
<1>1. UNCHANGED <<run, recorded, attempt, suppressed, sendable, gone, accepted, elapsed, handler>>
  BY DEF TimesOut, Restarts, GivesUp, Wake, rows, outside
<1>2. faults' \in 0..MaxFaults
  BY SequenceAssumption DEF IInv, TypeOK, RunRow, EngineRow, AttemptRow, TimesOut, Restarts, GivesUp, Wake, Fault
<1>3. 0 \in Index /\ engine[t].index \in Index /\ run[t].step \in Nat
  BY StepsFacts DEF IInv, TypeOK, RunRow, EngineRow, AttemptRow, Index
<1>4. /\ engine' \in [Triggers -> EngineRow]
      /\ engine'[t].state # "none" /\ engine'[t].index \in {0, engine[t].index}
      /\ \A s \in Triggers : s # t => engine'[s] = engine[s]
  <2>1. CASE TimesOut(t)
    BY <2>1 DEF IInv, TypeOK, RunRow, EngineRow, AttemptRow, TimesOut
  <2>2. CASE Restarts(t)
    BY <1>3, <2>2 DEF IInv, TypeOK, RunRow, EngineRow, AttemptRow, Restarts
  <2>3. CASE GivesUp(t)
    BY <2>3 DEF IInv, TypeOK, RunRow, EngineRow, AttemptRow, GivesUp
  <2>4. CASE Wake(t)
    BY <2>4 DEF IInv, TypeOK, RunRow, EngineRow, AttemptRow, Wake
  <2> QED
    BY <2>1, <2>2, <2>3, <2>4
<1>5. TypeOK'
  BY <1>1, <1>2, <1>4 DEF IInv, TypeOK, RunRow, EngineRow, AttemptRow
<1>6. TriggerOK(t)
  BY DEF IInv
<1> QED
  BY <1>1, <1>3, <1>4, <1>5, <1>6, DriverStep DEF TriggerOK

LEMMA WaitEndsStep == ASSUME IInv, NEW t \in Triggers, WaitEnds(t) PROVE Result
<1>1. /\ run' = [run EXCEPT ![t].waiting = FALSE]
      /\ elapsed' = [elapsed EXCEPT ![t] = @ \cup {run[t].step}]
      /\ UNCHANGED <<recorded, handler, engine, attempt, suppressed, sendable, gone, accepted, faults>>
  BY DEF WaitEnds, outside
<1>2. TypeOK'
  <2>0. run \in [Triggers -> RunRow]
    BY Types DEF IInv
  <2>1. run' \in [Triggers -> RunRow]
    BY <1>1, <2>0 DEF RunRow
  <2>2. elapsed' \in [Triggers -> SUBSET Index]
    BY <1>1 DEF IInv, TypeOK, RunRow, EngineRow, AttemptRow
  <2> QED
    BY <1>1, <2>1, <2>2 DEF IInv, TypeOK, RunRow, EngineRow, AttemptRow
<1>3. /\ run'[t].status = run[t].status /\ run'[t].step = run[t].step /\ run[t].step \in elapsed'[t]
      /\ elapsed[t] \subseteq elapsed'[t]
      /\ \A s \in Triggers : s # t => run'[s] = run[s] /\ elapsed'[s] = elapsed[s]
  BY <1>1 DEF IInv, TypeOK, RunRow, EngineRow, AttemptRow
<1>4. OneActive'
  BY <1>3, OneActiveKept DEF Active
<1>5. TriggerOK(t)'
  BY <1>1, <1>3 DEF IInv, TriggerOK, Active
<1>6. Active(t)
  BY DEF IInv, TriggerOK, WaitEnds
<1> QED
  BY <1>1, <1>2, <1>3, <1>4, <1>5, <1>6, OneTrigger DEF Untouched, Grows, Ended, Active

-----------------------------------------------------------------------------
(* Exits and suppressions *)

LEMMA ManyTriggers ==
    ASSUME IInv, TypeOK', UNCHANGED attempt,
           \A t \in Triggers : TriggerOK(t)' /\ Grows(t) /\ (Active(t)' => Active(t))
    PROVE  Result
<1>1. ASSUME NEW x \in Attempts PROVE AttemptOK(x)'
  BY AttemptsKept
<1> QED
  BY <1>1, OneActiveKept DEF IInv, Result

LEMMA ExitStep == ASSUME IInv, NEW u \in Users, Exit(u) PROVE Result
<1>1. UNCHANGED <<recorded, handler, engine, attempt, suppressed, gone, accepted, elapsed, faults>>
  BY DEF Exit
<1>2. ASSUME NEW t \in Triggers
      PROVE  \/ run'[t] = run[t] /\ sendable'[t] = sendable[t]
             \/ /\ Active(t) /\ run'[t] = [run[t] EXCEPT !.status = "exited", !.waiting = FALSE]
                /\ sendable'[t] = sendable[t] \cap Left(t, {"check", "send"})
  BY DEF Exit, Active
<1>3. ASSUME NEW t \in Triggers PROVE run[t] \in RunRow /\ sendable[t] \subseteq Index
  BY Types DEF IInv
<1>4. ASSUME NEW t \in Triggers
      PROVE  /\ run'[t] \in RunRow /\ sendable'[t] \subseteq Index /\ run'[t].step = run[t].step
             /\ \/ run'[t] = run[t] /\ sendable'[t] = sendable[t]
                \/ /\ Active(t) /\ run'[t].status = "exited" /\ ~run'[t].waiting
                   /\ sendable'[t] = sendable[t] \cap Left(t, {"check", "send"})
  <2>1. CASE run'[t] = run[t] /\ sendable'[t] = sendable[t]
    BY <1>3, <2>1
  <2>2. CASE /\ Active(t) /\ run'[t] = [run[t] EXCEPT !.status = "exited", !.waiting = FALSE]
             /\ sendable'[t] = sendable[t] \cap Left(t, {"check", "send"})
    <3>1. /\ run'[t] \in RunRow /\ run'[t].step = run[t].step
          /\ run'[t].status = "exited" /\ run'[t].waiting = FALSE
      BY <1>3, <2>2 DEF RunRow
    <3> QED
      BY <1>3, <2>2, <3>1
  <2> QED
    BY <1>2, <2>1, <2>2
<1>5. TypeOK'
  <2>1. run' = [t \in Triggers |-> run'[t]] /\ sendable' = [t \in Triggers |-> sendable'[t]]
    BY DEF Exit
  <2>2. run' \in [Triggers -> RunRow] /\ sendable' \in [Triggers -> SUBSET Index]
    BY <1>4, <2>1
  <2> QED
    BY <1>1, <2>2 DEF IInv, TypeOK, RunRow
<1>6. ASSUME NEW t \in Triggers PROVE TriggerOK(t)' /\ Grows(t) /\ (Active(t)' => Active(t))
  <2>1. TriggerOK(t)
    BY DEF IInv
  <2>2. CASE run'[t] = run[t] /\ sendable'[t] = sendable[t]
    BY <1>1, <2>1, <2>2 DEF TriggerOK, Active, Grows
  <2>3. CASE /\ Active(t) /\ run'[t].status = "exited" /\ ~run'[t].waiting
             /\ sendable'[t] = sendable[t] \cap Left(t, {"check", "send"})
    <3>1. accepted[t] \subseteq sendable'[t]
      BY <2>1, <2>3 DEF TriggerOK, Left
    <3>2. TriggerOK(t)'
      BY <1>1, <1>4, <2>1, <2>3, <3>1 DEF TriggerOK, Active
    <3>3. Grows(t)
      BY <1>1, <1>4, <2>3 DEF Grows, Active, Ended
    <3> QED
      BY <2>3, <3>2, <3>3
  <2> QED
    BY <1>4, <2>2, <2>3
<1> QED
  BY <1>1, <1>5, <1>6, ManyTriggers

LEMMA SuppressStep == ASSUME IInv, NEW u \in Users, Suppress(u) PROVE Result
<1>1. UNCHANGED <<run, recorded, handler, engine, attempt, gone, accepted, elapsed, faults>>
  BY DEF Suppress, rows
<1>2. ASSUME NEW t \in Triggers
      PROVE  /\ UserOf[t] \in suppressed => UserOf[t] \in suppressed'
             /\ \/ /\ UserOf[t] \in suppressed' <=> UserOf[t] \in suppressed
                   /\ sendable'[t] = sendable[t]
                \/ UserOf[t] \in suppressed' /\ sendable'[t] = sendable[t] \cap Left(t, {"send"})
  BY DEF Suppress
<1>3. TypeOK'
  <2>1. sendable' = [t \in Triggers |-> sendable'[t]]
    BY DEF Suppress
  <2>2. sendable \in [Triggers -> SUBSET Index]
    BY Types DEF IInv
  <2>3. sendable' \in [Triggers -> SUBSET Index]
    BY <1>2, <2>1, <2>2
  <2>4. suppressed' \subseteq Users
    BY DEF Suppress, IInv, TypeOK
  <2> QED
    BY <1>1, <2>3, <2>4 DEF IInv, TypeOK
<1>4. ASSUME NEW t \in Triggers PROVE TriggerOK(t)' /\ Grows(t) /\ (Active(t)' => Active(t))
  <2>1. TriggerOK(t)
    BY DEF IInv
  <2>2. accepted[t] \subseteq sendable'[t]
    BY <1>2, <2>1 DEF TriggerOK, Left
  <2>3. TriggerOK(t)'
    BY <1>1, <1>2, <2>1, <2>2 DEF TriggerOK, Active
  <2>4. Grows(t)
    BY <1>1, <1>2 DEF Grows
  <2> QED
    BY <1>1, <2>3, <2>4 DEF Active
<1> QED
  BY <1>1, <1>3, <1>4, ManyTriggers

-----------------------------------------------------------------------------
(* Attempts *)

\* The run of an attempt changes only while it is active, by at most a step, and not
\* past a wait that is neither under way nor over.
RunMoves(t) ==
    \/ run'[t] = run[t]
    \/ /\ Active(t) /\ run'[t].status \in {"active", "completed", "exited", "failed"}
       /\ run'[t].waiting => run'[t].status = "active"
       /\ run'[t].step \in {run[t].step, run[t].step + 1}
       /\ run'[t].status = "active" =>
            /\ run'[t].step < Length
            /\ ~run'[t].waiting /\ run'[t].step > 0 /\ Steps[run'[t].step] = "wait"
                 => run'[t].step \in elapsed[t]

LEMMA AttemptMoves ==
    ASSUME IInv, TypeOK', NEW x \in Attempts, NEW t \in Triggers, run[t].status # "none",
           UNCHANGED <<handler, suppressed, elapsed>>,
           \A s \in Triggers : s # t => /\ run'[s] = run[s] /\ engine'[s] = engine[s] /\ sendable'[s] = sendable[s]
                                        /\ accepted'[s] = accepted[s] /\ recorded'[s] = recorded[s],
           \A y \in Attempts : y # x => attempt'[y] = attempt[y],
           AttemptOK(x)', RunMoves(t),
           engine[t].state # "none" => engine'[t].state # "none",
           Active(t)' => engine'[t].index <= run'[t].step,
           accepted[t] \subseteq accepted'[t], recorded'[t] \subseteq accepted'[t],
           \A i \in accepted'[t] \ accepted[t] :
             /\ i <= run[t].step /\ i \in sendable[t] /\ (i > 0 /\ Steps[i] = "wait" => i \in elapsed[t]),
           \/ sendable'[t] = sendable[t]
           \/ /\ ~Active(t)' /\ accepted'[t] = accepted[t]
              /\ sendable'[t] = sendable[t] \cap Left(t, {"check", "send"})
    PROVE  Result
<1>1. TriggerOK(t)
  BY DEF IInv
<1>2. /\ run[t].step \in 0..Length /\ Length \in Nat
      /\ run'[t].step \in 0..Length /\ accepted'[t] \subseteq Index
  BY StepsFacts, Types DEF IInv, TypeOK, RunRow, Index
<1>3. run'[t].status # "none" /\ (Active(t)' => Active(t)) /\ run'[t].step >= run[t].step
  BY <1>2 DEF RunMoves, Active
<1>4. TriggerOK(t)'
  <2>1. UserOf[t] \notin suppressed /\ Active(t)' => sendable'[t] = Index
    BY <1>1, <1>3 DEF TriggerOK, Active
  <2>2. Active(t)' =>
          /\ run'[t].step < Length
          /\ ~run'[t].waiting /\ run'[t].step > 0 /\ Steps[run'[t].step] = "wait" => run'[t].step \in elapsed[t]
          /\ handler[t] = "done" => engine'[t].state # "none"
    BY <1>1, <1>3 DEF TriggerOK, RunMoves, Active
  <2>3. run'[t].waiting => Active(t)'
    BY <1>1 DEF TriggerOK, RunMoves, Active
  <2>4. \A i \in accepted'[t] : /\ i <= run'[t].step
                                /\ i > 0 /\ Steps[i] = "wait" => i \in elapsed[t]
    BY <1>1, <1>2, <1>3 DEF TriggerOK, Index
  <2>5. accepted'[t] \subseteq sendable'[t]
    BY <1>1 DEF TriggerOK, Left
  <2> QED
    BY <1>3, <2>1, <2>2, <2>3, <2>4, <2>5 DEF TriggerOK, Active
<1>5. Grows(t)
  BY <1>1, <1>3 DEF Grows, RunMoves, Active, Ended
<1>6. OneActive'
  BY <1>3, OneActiveKept DEF Active
<1>7. \A s \in Triggers \ {t} : Untouched(s)
  BY DEF Untouched
<1> QED
  BY <1>4, <1>5, <1>6, <1>7, OneTrigger

-----------------------------------------------------------------------------

LEMMA ReturnFacts ==
    ASSUME IInv, NEW x \in Attempts, NEW t \in Triggers, t = attempt[x].on,
           NEW state \in {"ready", "asleep", "over"}, NEW next \in Index, Return(x, state, next)
    PROVE  /\ attempt' \in [Attempts -> AttemptRow] /\ engine' \in [Triggers -> EngineRow]
           /\ attempt'[x].pc = "idle" /\ \A y \in Attempts : y # x => attempt'[y] = attempt[y]
           /\ \A s \in Triggers : s # t => engine'[s] = engine[s]
           /\ \/ engine'[t] = engine[t]
              \/ engine'[t].state = state /\ engine'[t].index = next
<1>1. attempt' = [attempt EXCEPT ![x] = Free] /\ Free \in AttemptRow
  BY StepsFacts DEF Return, Free, AttemptRow, Index
<1>2. engine' = engine \/ engine' = [engine EXCEPT ![t] = [state |-> state, index |-> next, by |-> Nobody]]
  BY DEF Return
<1>3. attempt \in [Attempts -> AttemptRow] /\ engine \in [Triggers -> EngineRow]
  BY Types DEF IInv
<1>4. /\ attempt' \in [Attempts -> AttemptRow]
      /\ attempt'[x].pc = "idle" /\ \A y \in Attempts : y # x => attempt'[y] = attempt[y]
  BY <1>1, <1>3 DEF Free
<1>5. [state |-> state, index |-> next, by |-> Nobody] \in EngineRow
  BY DEF EngineRow
<1> QED
  BY <1>2, <1>3, <1>4, <1>5

LEMMA GotoFacts ==
    ASSUME IInv, NEW x \in Attempts,
           NEW pc \in {"idle", "wait", "defer", "check", "skip", "send", "record", "fail", "exit"}, Goto(x, pc)
    PROVE  /\ attempt' \in [Attempts -> AttemptRow] /\ engine' = engine
           /\ attempt'[x].pc = pc /\ attempt'[x].on = attempt[x].on /\ attempt'[x].index = attempt[x].index
           /\ \A y \in Attempts : y # x => attempt'[y] = attempt[y]
BY Types DEF IInv, Goto, AttemptRow

\* What is known of an attempt at work.
LEMMA AtWork ==
    ASSUME IInv, NEW x \in Attempts, attempt[x].pc # "idle"
    PROVE  \E t \in Triggers : t = attempt[x].on /\ run[t].status # "none" /\ TriggerOK(t) /\ AttemptOK(x)
BY DEF IInv, AttemptOK

\* advanceSequenceRun and what the attempt then returns.
LEMMA AdvanceFacts ==
    ASSUME IInv, NEW x \in Attempts, NEW t \in Triggers, t = attempt[x].on, Current(x), attempt[x].index < Length,
           NEW waits \in BOOLEAN, Advance(x, waits), waits \/ Steps[attempt[x].index + 1] = "send"
    PROVE  /\ run' \in [Triggers -> RunRow] /\ \A s \in Triggers : s # t => run'[s] = run[s]
           /\ RunMoves(t) /\ run'[t].step = attempt[x].index + 1
<1> PICK i : i = attempt[x].index
  OBVIOUS
<1>1. i \in Nat /\ Length \in Nat /\ i + 1 \in Index /\ run \in [Triggers -> RunRow]
  BY StepsFacts, Types DEF IInv, AttemptRow, Index
<1>2. Active(t) /\ run[t].step = i
  BY DEF Current
<1> DEFINE row == [status |-> IF i + 1 = Length THEN "completed" ELSE "active",
                   step |-> i + 1, waiting |-> waits /\ i + 1 # Length]
<1>3. run' = [run EXCEPT ![t] = row]
  BY DEF Advance, Last
<1>4. row \in RunRow
  BY <1>1 DEF RunRow
<1>5. /\ run' \in [Triggers -> RunRow] /\ run'[t] = row /\ \A s \in Triggers : s # t => run'[s] = run[s]
  BY <1>1, <1>3, <1>4
<1>6. CASE i + 1 = Length
  <2>1. row.status = "completed" /\ row.step = run[t].step + 1
    BY <1>2, <1>6
  <2>2. row.waiting = (waits /\ i + 1 # Length)
    OBVIOUS
  <2>3. ~run'[t].waiting
    BY <1>5, <1>6, <2>2
  <2>4. run'[t].status = "completed" /\ run'[t].step = run[t].step + 1
    BY <1>5, <2>1
  <2> QED
    BY <1>2, <1>5, <2>3, <2>4 DEF RunMoves
<1>7. CASE i + 1 # Length
  BY <1>1, <1>2, <1>5, <1>7 DEF RunMoves
<1> QED
  BY <1>5, <1>6, <1>7

LEMMA ThenFacts ==
    ASSUME IInv, NEW x \in Attempts, NEW t \in Triggers, t = attempt[x].on, attempt[x].index < Length,
           NEW waits \in BOOLEAN, Then(x, waits)
    PROVE  \E state \in {"ready", "asleep", "over"}, next \in Index :
             next \in {attempt[x].index, attempt[x].index + 1} /\ Return(x, state, next)
<1>1. attempt[x].index \in Index /\ attempt[x].index + 1 \in Index
  BY StepsFacts, Types DEF IInv, AttemptRow, Index
<1> QED
  BY <1>1 DEF Then, Finish, Continue

-----------------------------------------------------------------------------

\* An attempt that returns, having changed its run, its send's record or neither.
LEMMA ReturnMoves ==
    ASSUME IInv, NEW x \in Attempts, NEW t \in Triggers, t = attempt[x].on, run[t].status # "none",
           NEW state \in {"ready", "asleep", "over"}, NEW next \in Index, Return(x, state, next),
           run' \in [Triggers -> RunRow], \A s \in Triggers : s # t => run'[s] = run[s] /\ recorded'[s] = recorded[s],
           RunMoves(t), Active(t)' => next <= run'[t].step,
           recorded' \in [Triggers -> SUBSET Index], recorded'[t] \subseteq accepted[t], faults' \in 0..MaxFaults,
           UNCHANGED <<handler, suppressed, gone, accepted, elapsed>>,
           \/ UNCHANGED sendable
           \/ ~Active(t)' /\ sendable' = [sendable EXCEPT ![t] = @ \cap Left(t, {"check", "send"})]
    PROVE  Result
<1>1. /\ attempt' \in [Attempts -> AttemptRow] /\ engine' \in [Triggers -> EngineRow]
      /\ attempt'[x].pc = "idle" /\ \A y \in Attempts : y # x => attempt'[y] = attempt[y]
      /\ \A s \in Triggers : s # t => engine'[s] = engine[s]
      /\ \/ engine'[t] = engine[t]
         \/ engine'[t].state = state /\ engine'[t].index = next
  BY ReturnFacts
<1>6. /\ sendable' \in [Triggers -> SUBSET Index] /\ \A s \in Triggers : s # t => sendable'[s] = sendable[s]
      /\ \/ sendable'[t] = sendable[t]
         \/ ~Active(t)' /\ sendable'[t] = sendable[t] \cap Left(t, {"check", "send"})
  <2>1. sendable \in [Triggers -> SUBSET Index]
    BY Types DEF IInv
  <2> QED
    BY <2>1
<1>2. TypeOK'
  BY <1>1, <1>6, Types DEF IInv, TypeOK, RunRow, EngineRow, AttemptRow
<1>3. AttemptOK(x)'
  BY <1>1 DEF AttemptOK
<1>4. Active(t)' => engine'[t].index <= run'[t].step
  <2>1. TriggerOK(t) /\ run[t].step \in Nat /\ run'[t].step \in Nat /\ engine[t].index \in Nat
    BY StepsFacts, Types DEF IInv, RunRow, EngineRow, Index
  <2> QED
    BY <1>1, <2>1 DEF TriggerOK, RunMoves, Active
<1>5. engine[t].state # "none" => engine'[t].state # "none"
  BY <1>1
<1> QED
  BY <1>1, <1>2, <1>3, <1>4, <1>5, <1>6, AttemptMoves

LEMMA MoveOnStep == ASSUME IInv, NEW x \in Attempts, MoveOn(x) PROVE Result
<1>1. attempt[x].pc \in {"wait", "skip"} /\ UNCHANGED <<recorded, handler, suppressed, sendable, gone, accepted, elapsed, faults>>
  BY DEF MoveOn, outside
<1>2. PICK t \in Triggers : t = attempt[x].on /\ run[t].status # "none" /\ TriggerOK(t) /\ AttemptOK(x)
  BY <1>1, AtWork
<1> PICK i : i = attempt[x].index
  OBVIOUS
<1> PICK waits \in BOOLEAN : waits = (attempt[x].pc = "wait")
  OBVIOUS
<1>3. /\ i < Length /\ i <= run[t].step /\ (waits \/ Steps[i + 1] = "send")
      /\ i \in Nat /\ i \in Index /\ run[t].step \in Index /\ run[t].step \in Nat /\ i + 1 \in Index
  <2>1. i < Length /\ i <= run[t].step /\ (attempt[x].pc \in Sending => Steps[i + 1] = "send")
    BY <1>1, <1>2 DEF AttemptOK
  <2>2. waits \/ attempt[x].pc \in Sending
    BY <1>1 DEF Sending
  <2>3. i \in Index /\ run[t].step \in Index
    BY <1>1, <1>2, Types DEF IInv, AttemptRow, RunRow
  <2> QED
    BY <2>1, <2>2, <2>3, StepsFacts DEF Index
<1>4. \E state \in {"ready", "asleep", "over"}, next \in Index :
        /\ Return(x, state, next)
        /\ run' \in [Triggers -> RunRow] /\ \A s \in Triggers : s # t => run'[s] = run[s]
        /\ RunMoves(t) /\ (Active(t)' => next <= run'[t].step)
  <2>1. CASE Current(x)
    <3>1. Advance(x, waits) /\ Then(x, waits)
      BY <2>1 DEF MoveOn
    <3>2. /\ run' \in [Triggers -> RunRow] /\ \A s \in Triggers : s # t => run'[s] = run[s]
          /\ RunMoves(t) /\ run'[t].step = i + 1
      BY <1>2, <1>3, <2>1, <3>1, AdvanceFacts
    <3>3. \E state \in {"ready", "asleep", "over"}, next \in Index : next \in {i, i + 1} /\ Return(x, state, next)
      BY <1>2, <1>3, <3>1, ThenFacts
    <3> QED
      BY <1>3, <3>2, <3>3
  <2>2. CASE ~Current(x)
    <3>1. Replay(x) /\ run' = run
      BY <2>2 DEF MoveOn
    <3>2. Active(t) => \E state \in {"ready", "asleep"} : Return(x, state, run[t].step)
      BY <1>2, <3>1 DEF Replay, Continue
    <3>3. ~Active(t) => Return(x, "over", i)
      BY <1>2, <3>1 DEF Replay, Finish
    <3>4. run \in [Triggers -> RunRow]
      BY Types DEF IInv
    <3> QED
      BY <1>3, <3>1, <3>2, <3>3, <3>4 DEF RunMoves, Active
  <2> QED
    BY <2>1, <2>2
<1>5. PICK state \in {"ready", "asleep", "over"}, next \in Index :
        /\ Return(x, state, next)
        /\ run' \in [Triggers -> RunRow] /\ \A s \in Triggers : s # t => run'[s] = run[s]
        /\ RunMoves(t) /\ (Active(t)' => next <= run'[t].step)
  BY <1>4
<1>6. recorded' \in [Triggers -> SUBSET Index] /\ recorded'[t] \subseteq accepted[t] /\ faults' \in 0..MaxFaults
  BY <1>1, <1>2, Types DEF IInv, TriggerOK
<1> QED
  BY <1>1, <1>2, <1>5, <1>6, ReturnMoves

-----------------------------------------------------------------------------

LEMMA DeferStep == ASSUME IInv, NEW x \in Attempts, Defer(x) PROVE Result
<1>1. /\ attempt[x].pc = "defer" /\ UNCHANGED <<recorded, handler, suppressed, sendable, gone, accepted, elapsed, faults>>
      /\ Return(x, "asleep", attempt[x].index)
  BY DEF Defer, outside, Continue
<1>2. PICK t \in Triggers : t = attempt[x].on /\ run[t].status # "none" /\ TriggerOK(t) /\ AttemptOK(x)
  BY <1>1, AtWork
<1> PICK i : i = attempt[x].index
  OBVIOUS
<1>3. i <= run[t].step /\ i \in Index /\ run \in [Triggers -> RunRow]
  BY <1>1, <1>2, Types DEF AttemptOK, IInv, AttemptRow
<1>4. run' = IF Current(x) THEN [run EXCEPT ![t].waiting = TRUE] ELSE run
  BY <1>2 DEF Defer
<1>5. /\ run' \in [Triggers -> RunRow] /\ \A s \in Triggers : s # t => run'[s] = run[s]
      /\ run'[t].step = run[t].step /\ run'[t].status = run[t].status
      /\ run'[t] = run[t] \/ (Current(x) /\ run'[t].waiting)
  BY <1>3, <1>4 DEF RunRow
<1>6. RunMoves(t)
  <2>1. CASE run'[t] = run[t]
    BY <2>1 DEF RunMoves
  <2>2. CASE Current(x) /\ run'[t].waiting
    <3>1. Active(t) /\ run'[t].status = "active" /\ run'[t].step < Length
      BY <1>2, <1>5, <2>2 DEF Current, Active, TriggerOK
    <3> QED
      BY <1>5, <2>2, <3>1 DEF RunMoves
  <2> QED
    BY <1>5, <2>1, <2>2
<1>7. recorded' \in [Triggers -> SUBSET Index] /\ recorded'[t] \subseteq accepted[t] /\ faults' \in 0..MaxFaults
  BY <1>1, <1>2, Types DEF IInv, TriggerOK
<1> QED
  BY <1>1, <1>2, <1>3, <1>5, <1>6, <1>7, ReturnMoves

LEMMA EndRunStep == ASSUME IInv, NEW x \in Attempts, EndRun(x) PROVE Result
<1>1. /\ attempt[x].pc \in {"fail", "exit"}
      /\ UNCHANGED <<recorded, handler, suppressed, gone, accepted, elapsed, faults>>
      /\ Return(x, "over", attempt[x].index)
  BY DEF EndRun, Finish
<1>2. PICK t \in Triggers : t = attempt[x].on /\ run[t].status # "none" /\ TriggerOK(t) /\ AttemptOK(x)
  BY <1>1, AtWork
<1> PICK i : i = attempt[x].index
  OBVIOUS
<1> PICK status \in {"exited", "failed"} : status = IF attempt[x].pc = "exit" THEN "exited" ELSE "failed"
  OBVIOUS
<1>3. i <= run[t].step /\ i \in Index /\ run \in [Triggers -> RunRow]
  BY <1>1, <1>2, Types DEF AttemptOK, IInv, AttemptRow
<1>4. run' = IF Active(t) THEN [run EXCEPT ![t].status = status, ![t].waiting = FALSE] ELSE run
  BY <1>2 DEF EndRun
<1>8. \/ UNCHANGED sendable
      \/ Active(t) /\ sendable' = [sendable EXCEPT ![t] = @ \cap Left(t, {"check", "send"})]
  BY <1>2 DEF EndRun
<1>5. /\ run' \in [Triggers -> RunRow] /\ \A s \in Triggers : s # t => run'[s] = run[s]
      /\ run'[t].step = run[t].step
      /\ \/ run'[t] = run[t] /\ ~Active(t)
         \/ Active(t) /\ run'[t].status = status /\ ~run'[t].waiting
  BY <1>3, <1>4 DEF RunRow, Active
<1>6. RunMoves(t) /\ ~Active(t)'
  BY <1>5 DEF RunMoves, Active
<1>7. recorded' \in [Triggers -> SUBSET Index] /\ recorded'[t] \subseteq accepted[t] /\ faults' \in 0..MaxFaults
  BY <1>1, <1>2, Types DEF IInv, TriggerOK
<1> QED
  BY <1>1, <1>2, <1>3, <1>5, <1>6, <1>7, <1>8, ReturnMoves

LEMMA RecordStep == ASSUME IInv, NEW x \in Attempts, Record(x) PROVE Result
<1>1. /\ attempt[x].pc = "record" /\ UNCHANGED <<handler, suppressed, sendable, gone, accepted, elapsed, faults>>
      /\ Then(x, FALSE)
  BY DEF Record, outside
<1>2. PICK t \in Triggers : t = attempt[x].on /\ run[t].status # "none" /\ TriggerOK(t) /\ AttemptOK(x)
  BY <1>1, AtWork
<1> PICK i : i = attempt[x].index
  OBVIOUS
<1>3. /\ i < Length /\ i <= run[t].step /\ Steps[i + 1] = "send" /\ i \in accepted[t]
      /\ i \in Index /\ run[t].step \in Index /\ run \in [Triggers -> RunRow]
  BY <1>1, <1>2, Types DEF AttemptOK, Sending, IInv, AttemptRow, RunRow
<1>4. recorded' = [recorded EXCEPT ![t] = @ \cup {i}] /\ recorded \in [Triggers -> SUBSET Index]
  BY <1>2, Types DEF Record, IInv
<1>5. /\ recorded' \in [Triggers -> SUBSET Index] /\ recorded'[t] \subseteq accepted[t] /\ faults' \in 0..MaxFaults
      /\ \A s \in Triggers : s # t => recorded'[s] = recorded[s]
  BY <1>1, <1>2, <1>3, <1>4, Types DEF IInv, TriggerOK
<1>6. /\ run' \in [Triggers -> RunRow] /\ \A s \in Triggers : s # t => run'[s] = run[s]
      /\ RunMoves(t) /\ (Active(t)' => i + 1 <= run'[t].step)
  <2>1. CASE Current(x)
    <3>1. Advance(x, FALSE)
      BY <2>1 DEF Record
    <3>2. /\ run' \in [Triggers -> RunRow] /\ \A s \in Triggers : s # t => run'[s] = run[s]
          /\ RunMoves(t) /\ run'[t].step = i + 1
      BY <1>2, <1>3, <2>1, <3>1, AdvanceFacts
    <3> QED
      BY <1>3, <3>2, StepsFacts DEF Index
  <2>2. CASE ~Current(x)
    <3>1. run' = run
      BY <2>2 DEF Record
    <3>2. Active(t) => i + 1 <= run[t].step
      BY <1>2, <1>3, <2>2, StepsFacts DEF Current, Index
    <3> QED
      BY <1>3, <3>1, <3>2 DEF RunMoves, Active
  <2> QED
    BY <2>1, <2>2
<1>7. \E state \in {"ready", "asleep", "over"}, next \in Index : next \in {i, i + 1} /\ Return(x, state, next)
  BY <1>1, <1>2, <1>3, ThenFacts
<1>8. PICK state \in {"ready", "asleep", "over"}, next \in Index : next \in {i, i + 1} /\ Return(x, state, next)
  BY <1>7
<1>9. Active(t)' => next <= run'[t].step
  <2>1. run'[t].step \in Nat /\ i \in Nat
    BY <1>3, <1>6, StepsFacts DEF RunRow, Index
  <2> QED
    BY <1>6, <1>8, <2>1
<1> QED
  BY <1>1, <1>2, <1>5, <1>6, <1>8, <1>9, ReturnMoves

LEMMA DiesStep == ASSUME IInv, NEW x \in Attempts, Dies(x) PROVE Result
<1>1. /\ attempt[x].pc # "idle" /\ Return(x, "ready", attempt[x].index)
      /\ UNCHANGED <<run, recorded, handler, suppressed, sendable, gone, accepted, elapsed>>
  BY DEF Dies, rows, outside
<1>2. PICK t \in Triggers : t = attempt[x].on /\ run[t].status # "none" /\ TriggerOK(t) /\ AttemptOK(x)
  BY <1>1, AtWork
<1>3. attempt[x].index <= run[t].step /\ attempt[x].index \in Index /\ run \in [Triggers -> RunRow]
  BY <1>1, <1>2, Types DEF AttemptOK, IInv, AttemptRow
<1>4. faults' \in 0..MaxFaults
  BY SequenceAssumption, Types DEF IInv, Dies, Fault
<1>5. recorded' \in [Triggers -> SUBSET Index] /\ recorded'[t] \subseteq accepted[t] /\ RunMoves(t)
  BY <1>1, <1>2, Types DEF IInv, TriggerOK, RunMoves
<1> QED
  BY <1>1, <1>2, <1>3, <1>4, <1>5, ReturnMoves

-----------------------------------------------------------------------------

LEMMA CheckStep == ASSUME IInv, NEW x \in Attempts, Check(x) PROVE Result
<1>1. /\ attempt[x].pc = "check"
      /\ UNCHANGED <<run, recorded, handler, suppressed, sendable, gone, accepted, elapsed, faults>>
  BY DEF Check, outside, rows
<1>2. PICK t \in Triggers : t = attempt[x].on /\ run[t].status # "none" /\ TriggerOK(t) /\ AttemptOK(x)
  BY <1>1, AtWork
<1>3. PICK pc \in {"fail", "exit", "skip", "send"} :
        Goto(x, pc) /\ (pc = "send" => UserOf[t] \notin suppressed)
  BY <1>2 DEF Check
<1>4. /\ attempt' \in [Attempts -> AttemptRow] /\ engine' = engine
      /\ attempt'[x].pc = pc /\ attempt'[x].on = t /\ attempt'[x].index = attempt[x].index
      /\ \A y \in Attempts : y # x => attempt'[y] = attempt[y]
  BY <1>2, <1>3, GotoFacts
<1>5. TypeOK'
  BY <1>1, <1>4, Types DEF IInv, TypeOK, AttemptRow
<1> PICK i : i = attempt[x].index
  OBVIOUS
<1>6. AttemptOK(x)'
  <2>1. /\ i <= run[t].step /\ i < Length /\ Steps[i + 1] = "send"
        /\ i > 0 /\ Steps[i] = "wait" => i \in elapsed[t]
    BY <1>1, <1>2 DEF AttemptOK, Sending
  <2>3. pc = "send" => i \in sendable[t]
    BY <1>1, <1>2, <1>3 DEF AttemptOK
  <2> QED
    BY <1>1, <1>2, <1>4, <2>1, <2>3 DEF AttemptOK
<1>7. RunMoves(t) /\ (Active(t)' => engine'[t].index <= run'[t].step) /\ recorded'[t] \subseteq accepted'[t]
  BY <1>1, <1>2, <1>4 DEF RunMoves, TriggerOK, Active
<1> QED
  BY <1>1, <1>2, <1>4, <1>5, <1>6, <1>7, AttemptMoves

LEMMA SendStep == ASSUME IInv, NEW x \in Attempts, Send(x) PROVE Result
<1>1. attempt[x].pc = "send" /\ UNCHANGED <<run, recorded, handler, suppressed, sendable, gone, elapsed, faults>>
  BY DEF Send, outside, rows
<1>2. PICK t \in Triggers : t = attempt[x].on /\ run[t].status # "none" /\ TriggerOK(t) /\ AttemptOK(x)
  BY <1>1, AtWork
<1> PICK i : i = attempt[x].index
  OBVIOUS
<1>3. /\ i <= run[t].step /\ i < Length /\ Steps[i + 1] = "send" /\ i \in sendable[t]
      /\ i > 0 /\ Steps[i] = "wait" => i \in elapsed[t]
      /\ i \in Index
  BY <1>1, <1>2, Types DEF AttemptOK, Sending, IInv, AttemptRow
<1>4. PICK pc \in {"record", "fail"} :
        /\ Goto(x, pc)
        /\ \/ pc = "record" /\ accepted' = [accepted EXCEPT ![t] = @ \cup {i}]
           \/ pc = "fail" /\ accepted' = accepted
  BY <1>2 DEF Send
<1>5. /\ attempt' \in [Attempts -> AttemptRow] /\ engine' = engine
      /\ attempt'[x].pc = pc /\ attempt'[x].on = t /\ attempt'[x].index = i
      /\ \A y \in Attempts : y # x => attempt'[y] = attempt[y]
  BY <1>2, <1>4, GotoFacts
<1>6. /\ accepted' \in [Triggers -> SUBSET Index] /\ accepted[t] \subseteq accepted'[t]
      /\ accepted'[t] \subseteq accepted[t] \cup {i} /\ (pc = "record" => i \in accepted'[t])
      /\ \A s \in Triggers : s # t => accepted'[s] = accepted[s]
  BY <1>3, <1>4, Types DEF IInv
<1>7. TypeOK'
  BY <1>1, <1>5, <1>6, Types DEF IInv, TypeOK, AttemptRow
<1>8. AttemptOK(x)'
  BY <1>1, <1>2, <1>3, <1>5, <1>6 DEF AttemptOK
<1>9. RunMoves(t) /\ (Active(t)' => engine'[t].index <= run'[t].step) /\ recorded'[t] \subseteq accepted'[t]
  BY <1>1, <1>2, <1>5, <1>6 DEF RunMoves, TriggerOK, Active
<1> QED
  BY <1>1, <1>2, <1>3, <1>5, <1>6, <1>7, <1>8, <1>9, AttemptMoves

LEMMA ExecuteStep == ASSUME IInv, NEW x \in Attempts, NEW t \in Triggers, Execute(x, t) PROVE Result
<1> PICK i : i = engine[t].index
  OBVIOUS
<1>1. /\ engine[t].state = "ready"
      /\ UNCHANGED <<run, recorded, handler, suppressed, sendable, gone, accepted, elapsed>>
  BY DEF Execute, outside, rows
<1>2. TriggerOK(t) /\ i \in Index /\ run[t].step \in Index /\ run[t].step \in Nat /\ Length \in Nat
  BY StepsFacts, Types DEF IInv, EngineRow, RunRow, Index
<1>3. faults' \in 0..MaxFaults
  BY SequenceAssumption, Types DEF IInv, Execute, Due, Fault
<1>4. \/ \E state \in {"lost", "over", "ready", "asleep"}, next \in {i, run[t].step} :
           /\ ~Active(t) => next = i
           /\ engine' = [engine EXCEPT ![t].state = state, ![t].index = next] /\ attempt' = attempt
      \/ \E pc \in {"wait", "check", "defer", "fail"} :
           /\ Active(t)
           /\ attempt' = [attempt EXCEPT ![x] = [pc |-> pc, on |-> t, index |-> i]]
           /\ engine' = [engine EXCEPT ![t].state = "busy", ![t].by = x]
           /\ pc # "fail" => i = run[t].step /\ Due(t, pc)
  BY DEF Execute, MayRun
<1>5. CASE \E state \in {"lost", "over", "ready", "asleep"}, next \in {i, run[t].step} :
             /\ ~Active(t) => next = i
             /\ engine' = [engine EXCEPT ![t].state = state, ![t].index = next] /\ attempt' = attempt
  <2>1. PICK state \in {"lost", "over", "ready", "asleep"}, next \in {i, run[t].step} :
             /\ ~Active(t) => next = i
             /\ engine' = [engine EXCEPT ![t].state = state, ![t].index = next] /\ attempt' = attempt
    BY <1>5
  <2>2. /\ engine' \in [Triggers -> EngineRow] /\ engine'[t].state = state /\ engine'[t].index = next
        /\ \A s \in Triggers : s # t => engine'[s] = engine[s]
    BY <1>2, <2>1, Types DEF IInv, EngineRow
  <2>3. TypeOK'
    BY <1>1, <1>3, <2>1, <2>2, Types DEF IInv, TypeOK, EngineRow
  <2> QED
    BY <1>1, <1>2, <2>1, <2>2, <2>3, DriverStep DEF TriggerOK, Active
<1>6. CASE \E pc \in {"wait", "check", "defer", "fail"} :
             /\ Active(t)
             /\ attempt' = [attempt EXCEPT ![x] = [pc |-> pc, on |-> t, index |-> i]]
             /\ engine' = [engine EXCEPT ![t].state = "busy", ![t].by = x]
             /\ pc # "fail" => i = run[t].step /\ Due(t, pc)
  <2>1. PICK pc \in {"wait", "check", "defer", "fail"} :
             /\ Active(t)
             /\ attempt' = [attempt EXCEPT ![x] = [pc |-> pc, on |-> t, index |-> i]]
             /\ engine' = [engine EXCEPT ![t].state = "busy", ![t].by = x]
             /\ pc # "fail" => i = run[t].step /\ Due(t, pc)
    BY <1>6
  <2>2. /\ engine' \in [Triggers -> EngineRow] /\ engine'[t].state = "busy" /\ engine'[t].index = i
        /\ \A s \in Triggers : s # t => engine'[s] = engine[s]
    BY <2>1, Types DEF IInv, EngineRow
  <2>3. [pc |-> pc, on |-> t, index |-> i] \in AttemptRow
    BY <1>2 DEF AttemptRow
  <2>4. /\ attempt' \in [Attempts -> AttemptRow]
        /\ attempt'[x].pc = pc /\ attempt'[x].on = t /\ attempt'[x].index = i
        /\ \A y \in Attempts : y # x => attempt'[y] = attempt[y]
    BY <2>1, <2>3, Types DEF IInv
  <2>5. TypeOK'
    BY <1>1, <1>3, <2>2, <2>4, Types DEF IInv, TypeOK, EngineRow, AttemptRow
  <2>6. /\ run[t].status # "none" /\ run[t].step < Length /\ i <= run[t].step /\ i \in Nat /\ i < Length
        /\ ~run[t].waiting /\ run[t].step > 0 /\ Steps[run[t].step] = "wait" => run[t].step \in elapsed[t]
    BY <1>2, <2>1 DEF TriggerOK, Active, Index
  <2>7. /\ pc = "wait" => Steps[i + 1] = "wait"
        /\ pc \in Sending => /\ Steps[i + 1] = "send"
                             /\ i > 0 /\ Steps[i] = "wait" => i \in elapsed[t]
    <3>1. Steps[i + 1] \in {"wait", "send"}
      BY <1>2, <2>6, StepsFacts
    <3> QED
      BY <2>1, <2>6, <3>1 DEF Due, Sending
  <2>10. i \in sendable[t] \/ UserOf[t] \in suppressed
    BY <1>2, <2>1 DEF TriggerOK, Active
  <2>8. AttemptOK(x)'
    BY <1>1, <2>1, <2>4, <2>6, <2>7, <2>10 DEF AttemptOK
  <2>9. RunMoves(t) /\ (Active(t)' => engine'[t].index <= run'[t].step) /\ recorded'[t] \subseteq accepted'[t]
    BY <1>1, <1>2, <2>2, <2>6 DEF RunMoves, TriggerOK
  <2> QED
    BY <1>1, <2>2, <2>4, <2>5, <2>6, <2>8, <2>9, AttemptMoves
<1> QED
  BY <1>4, <1>5, <1>6

-----------------------------------------------------------------------------
(* The theorems *)

LEMMA NextInv == IInv /\ [Next]_vars => Result
<1> SUFFICES ASSUME IInv, [Next]_vars PROVE Result
  OBVIOUS
<1>1. ASSUME NEW t \in Triggers,
             Insert(t) \/ Select(t) \/ StartEngine(t) \/ HandlerFails(t) \/ Prune(t) \/ Cancel(t)
      PROVE  Result
  BY <1>1, InsertStep, SelectStep, StartEngineStep, HandlerFailsStep, PruneStep, CancelStep
<1>2. ASSUME NEW t \in Triggers, TimesOut(t) \/ Restarts(t) \/ GivesUp(t) \/ WaitEnds(t) \/ Wake(t) PROVE Result
  BY <1>2, EngineStep, WaitEndsStep
<1>3. ASSUME NEW t \in Triggers, NEW x \in Attempts, Execute(x, t) PROVE Result
  BY <1>3, ExecuteStep
<1>4. ASSUME NEW u \in Users, Exit(u) \/ Suppress(u) PROVE Result
  BY <1>4, ExitStep, SuppressStep
<1>5. ASSUME NEW x \in Attempts, AttemptStep(x) PROVE Result
  BY <1>5, MoveOnStep, DeferStep, CheckStep, EndRunStep, SendStep, RecordStep DEF AttemptStep
<1>6. ASSUME NEW x \in Attempts, Dies(x) PROVE Result
  BY <1>6, DiesStep
<1>7. ASSUME UNCHANGED vars PROVE Result
  <2>1. UNCHANGED <<run, recorded, handler, engine, attempt, suppressed, sendable, gone, accepted, elapsed, faults>>
    BY <1>7 DEF vars, rows, outside
  <2>2. TypeOK' /\ \A t \in Triggers : Untouched(t)
    BY <2>1 DEF IInv, TypeOK, Untouched
  <2>3. ASSUME NEW t \in Triggers PROVE TriggerOK(t)' /\ Grows(t) /\ (Active(t)' => Active(t))
    BY <2>1, <2>2, TriggersKept DEF Active
  <2> QED
    BY <2>1, <2>2, <2>3, ManyTriggers
<1> QED
  BY <1>1, <1>2, <1>3, <1>4, <1>5, <1>6, <1>7 DEF Next

LEMMA Invariance == Spec => []IInv
<1>1. IInv /\ [Next]_vars => IInv'
  BY NextInv DEF Result
<1> QED
  BY <1>1, InitInv, PTL DEF Spec

\* A user has at most one active run, no engine or attempt is ahead of one, and a
\* recorded send was accepted by the provider (sequences.ts, sequence-runtime.ts:210).
THEOREM SequencesAreSound == Spec => []SequenceInv
<1>1. IInv => SequenceInv
  BY DEF IInv, SequenceInv, NeverAhead, TriggerOK, AttemptOK
<1> QED
  BY <1>1, Invariance, PTL

\* A handled trigger whose run is active has an engine run (SequenceRegistry.start).
THEOREM TriggersAreDriven == Spec => []ActiveIsDriven
<1>1. IInv => ActiveIsDriven
  BY DEF IInv, ActiveIsDriven, TriggerOK
<1> QED
  BY <1>1, Invariance, PTL

\* After an exit or a failure only what attempts had found active goes out, and after a
\* suppression only what had passed that check too (runSequenceStep's checks).
THEOREM StopsHold == Spec => []StopsWhereItIs
<1>1. IInv => StopsWhereItIs
  BY DEF IInv, StopsWhereItIs, TriggerOK
<1> QED
  BY <1>1, Invariance, PTL

\* No email goes out before the wait ahead of it is over (run.nextAt).
THEOREM WaitsHold == Spec => []WaitsAreKept
<1>1. IInv => WaitsAreKept
  BY DEF IInv, WaitsAreKept, TriggerOK
<1> QED
  BY <1>1, Invariance, PTL

\* A run moves forward a step at a time, and an ended run stays as it is
\* (advanceSequenceRun and endSequenceRun).
THEOREM RunsOnlyGoForward == Spec => RunsForward
<1>1. IInv /\ [Next]_vars =>
        [\A t \in Triggers : /\ run'[t].step \in {run[t].step, run[t].step + 1}
                             /\ Ended(t) => run'[t] = run[t]]_vars
  BY NextInv DEF Result, Grows
<1> QED
  BY <1>1, Invariance, PTL DEF Spec, RunsForward

-----------------------------------------------------------------------------
(* The contract *)

StepImplements == [Contract!Next]_(Contract!contractVars)

LEMMA StandingOf ==
    ASSUME NEW t \in Triggers
    PROVE  /\ standing[t] = [status |-> run[t].status, step |-> run[t].step]
           /\ standing[t].status = run[t].status /\ standing[t].step = run[t].step
           /\ Contract!Active(t) <=> Active(t)
BY DEF standing, Contract!Active, Active

\* A step that changes no status and no step of a run.
LEMMA StandingStays ==
    ASSUME \A t \in Triggers : run'[t].status = run[t].status /\ run'[t].step = run[t].step
    PROVE  standing' = standing
BY DEF standing

LEMMA Stutters ==
    ASSUME \A t \in Triggers : run'[t].status = run[t].status /\ run'[t].step = run[t].step,
           UNCHANGED <<accepted, elapsed, suppressed, underway>>
    PROVE  StepImplements
BY StandingStays DEF StepImplements, Contract!contractVars

\* The sends under way are those of the attempts that check and send.
AtSend(y) == attempt[y].pc \in {"check", "send"}

LEMMA UnderwayOf ==
    /\ \A k : k \in underway <=> \E y \in Attempts : AtSend(y) /\ k = SendOf(attempt[y])
    /\ \A k : k \in underway' <=> \E y \in Attempts : AtSend(y)' /\ k = SendOf(attempt'[y])
BY DEF underway, AtSend

\* Steps of attempts that neither check nor send leave them alone.
LEMMA UnderwayKept ==
    ASSUME \A y \in Attempts : attempt'[y] = attempt[y] \/ (~AtSend(y) /\ ~AtSend(y)')
    PROVE  underway' = underway
<1>1. \A y \in Attempts : (AtSend(y)' <=> AtSend(y)) /\ (AtSend(y) => attempt'[y] = attempt[y])
  BY DEF AtSend
<1>2. \A k : k \in underway' <=> k \in underway
  BY <1>1, UnderwayOf
<1> QED
  BY <1>2 DEF underway

\* An attempt that leaves its send, for another state of it or for good.
LEMMA UnderwayLeft ==
    ASSUME NEW x \in Attempts, AtSend(x), \A y \in Attempts : y # x => attempt'[y] = attempt[y],
           NEW k, k = SendOf(attempt[x]), NEW into,
           \A m : m \in into <=> (AtSend(x)' /\ m = SendOf(attempt'[x]))
    PROVE  k \in underway /\ Contract!Leaves(k, into)
<1>1. \A y \in Attempts : y # x => attempt'[y] = attempt[y] /\ (AtSend(y)' <=> AtSend(y))
  BY DEF AtSend
<1>2. k \in underway
  BY UnderwayOf
<1>3. ASSUME NEW m
      PROVE  /\ m \in underway => m \in underway' \/ m = k
             /\ m \in underway' => m \in underway \cup into
             /\ m \in into => m \in underway'
  BY <1>1, UnderwayOf
<1>4. CASE k \in underway'
  <2>1. underway' = underway \cup into
    BY <1>3, <1>4
  <2> QED
    BY <1>2, <2>1 DEF Contract!Leaves
<1>5. CASE k \notin underway'
  <2>1. underway' = (underway \ {k}) \cup into
    BY <1>3, <1>5
  <2> QED
    BY <1>2, <2>1 DEF Contract!Leaves
<1> QED
  BY <1>4, <1>5

\* An attempt that turns from its send drops it.
LEMMA DropImplements ==
    ASSUME NEW x \in Attempts, AtSend(x), ~AtSend(x)', \A y \in Attempts : y # x => attempt'[y] = attempt[y],
           UNCHANGED <<run, accepted, elapsed, suppressed>>
    PROVE  StepImplements
<1>1. PICK k : k = SendOf(attempt[x])
  OBVIOUS
<1>2. k \in underway /\ Contract!Leaves(k, {})
  BY <1>1, UnderwayLeft
<1>3. Contract!Drop(k)
  BY <1>2, StandingStays DEF Contract!Drop
<1> QED
  BY <1>2, <1>3 DEF StepImplements, Contract!Next

\* An attempt that returns from work other than a send.
LEMMA ReturnKeeps ==
    ASSUME IInv, NEW x \in Attempts, ~AtSend(x), NEW state, NEW next, Return(x, state, next)
    PROVE  underway' = underway
<1>1. attempt' = [attempt EXCEPT ![x] = Free] /\ attempt \in [Attempts -> AttemptRow]
  BY Types DEF IInv, Return
<1>2. attempt'[x] = Free /\ \A y \in Attempts : y # x => attempt'[y] = attempt[y]
  BY <1>1
<1>3. ~AtSend(x)'
  BY <1>2 DEF AtSend, Free
<1> QED
  BY <1>2, <1>3, UnderwayKept

\* A run takes on a status and a step.
LEMMA RunBecomes ==
    ASSUME NEW t \in Triggers, \A s \in Triggers : s # t => run'[s] = run[s],
           NEW status, NEW step, run'[t].status = status, run'[t].step = step
    PROVE  Contract!Becomes(t, status, step)
<1>1. standing' = [s \in Triggers |-> [status |-> run'[s].status, step |-> run'[s].step]]
  BY DEF standing
<1>2. standing' = [standing EXCEPT ![t] = [status |-> status, step |-> step]]
  BY <1>1 DEF standing
<1> QED
  BY <1>2 DEF Contract!Becomes

LEMMA InsertImplements == ASSUME IInv, NEW t \in Triggers, Insert(t) PROVE StepImplements
<1>1. UNCHANGED <<accepted, elapsed, suppressed, underway>>
  BY DEF Insert, outside, underway
<1>2. CASE run' = run
  BY <1>1, <1>2, Stutters
<1>3. CASE run' # run
  <2>1. run[t].status = "none" /\ Rivals(t) = {} /\ run' = [run EXCEPT ![t].status = "active"]
    BY <1>3 DEF Insert
  <2>2. /\ run'[t].status = "active" /\ run'[t].step = run[t].step
        /\ \A s \in Triggers : s # t => run'[s] = run[s]
    BY <2>1, Types DEF IInv, RunRow
  <2>3. Contract!Becomes(t, "active", standing[t].step)
    <3>1. run'[t].step = standing[t].step
      BY <2>2, StandingOf
    <3>2. PICK step : step = standing[t].step
      OBVIOUS
    <3> QED
      BY <2>2, <3>1, <3>2, RunBecomes DEF Contract!Becomes
  <2>4. \A s \in Triggers : UserOf[s] = UserOf[t] => ~Contract!Active(s)
    BY <2>1, StandingOf DEF Rivals
  <2>5. Contract!Start(t)
    BY <1>1, <2>1, <2>3, <2>4, StandingOf DEF Contract!Start
  <2> QED
    BY <2>5 DEF StepImplements, Contract!Next
<1> QED
  BY <1>2, <1>3

LEMMA WaitEndsImplements == ASSUME IInv, NEW t \in Triggers, WaitEnds(t) PROVE StepImplements
<1>1. /\ run[t].waiting /\ run' = [run EXCEPT ![t].waiting = FALSE]
      /\ elapsed' = [elapsed EXCEPT ![t] = @ \cup {run[t].step}] /\ UNCHANGED <<accepted, suppressed, underway>>
  BY DEF WaitEnds, outside, underway
<1>2. Active(t)
  BY <1>1 DEF IInv, TriggerOK
<1>3. standing' = standing
  <2>1. \A s \in Triggers : run'[s].status = run[s].status /\ run'[s].step = run[s].step
    BY <1>1, Types DEF IInv, RunRow
  <2> QED
    BY <2>1, StandingStays
<1>4. Contract!WaitEnds(t)
  BY <1>1, <1>2, <1>3, StandingOf DEF Contract!WaitEnds
<1> QED
  BY <1>4 DEF StepImplements, Contract!Next

LEMMA ExitImplements == ASSUME IInv, NEW u \in Users, Exit(u) PROVE StepImplements
<1>1. PICK t \in Triggers : UserOf[t] = u /\ Active(t)
  BY DEF Exit
<1>2. \A s \in Triggers : s # t => ~(UserOf[s] = u /\ Active(s))
  BY <1>1 DEF IInv, OneActive
<1>3. /\ \A s \in Triggers : run'[s] = IF UserOf[s] = u /\ Active(s)
           THEN [run[s] EXCEPT !.status = "exited", !.waiting = FALSE] ELSE run[s]
      /\ UNCHANGED <<accepted, elapsed, suppressed, underway>>
  BY DEF Exit, underway
<1>4. run'[t].status = "exited" /\ run'[t].step = run[t].step /\ \A s \in Triggers : s # t => run'[s] = run[s]
  BY <1>1, <1>2, <1>3, Types DEF IInv, RunRow
<1>5. Contract!Becomes(t, "exited", standing[t].step)
  <2>1. PICK step : step = standing[t].step
    OBVIOUS
  <2>2. run'[t].step = step
    BY <1>4, <2>1, StandingOf
  <2> QED
    BY <1>4, <2>1, <2>2, RunBecomes DEF Contract!Becomes
<1>6. Contract!End(t, "exited")
  BY <1>1, <1>3, <1>5, StandingOf DEF Contract!End
<1> QED
  BY <1>6 DEF StepImplements, Contract!Next

LEMMA SuppressImplements == ASSUME IInv, NEW u \in Users, Suppress(u) PROVE StepImplements
<1>1. UNCHANGED <<run, accepted, elapsed, underway>> /\ suppressed' = suppressed \cup {u}
  BY DEF Suppress, rows, underway
<1>2. Contract!Suppress(u)
  BY <1>1, StandingStays DEF Contract!Suppress
<1> QED
  BY <1>2 DEF StepImplements, Contract!Next

\* advanceSequenceRun: the step is a wait, or one of which the wait ahead is over.
LEMMA AdvanceImplements ==
    ASSUME IInv, NEW x \in Attempts, attempt[x].pc \in {"wait", "skip", "record"}, Current(x),
           NEW waits \in BOOLEAN, Advance(x, waits), UNCHANGED <<accepted, elapsed, suppressed, underway>>
    PROVE  StepImplements
<1>1. PICK t \in Triggers : t = attempt[x].on /\ run[t].status # "none" /\ TriggerOK(t) /\ AttemptOK(x)
  BY AtWork
<1>2. PICK i : i = attempt[x].index
  OBVIOUS
<1>3. Active(t) /\ run[t].step = i /\ i \in Nat
  BY <1>1, <1>2, StepsFacts, Types DEF IInv, Current, RunRow, Index
<1>4. Steps[i + 1] = "send" => Contract!Rested(t, i)
  BY <1>1, <1>2 DEF AttemptOK, Sending, Contract!Rested
<1> DEFINE status == IF i + 1 = Length THEN "completed" ELSE "active"
           row == [status |-> status, step |-> i + 1, waiting |-> waits /\ ~(i + 1 = Length)]
<1>5. run' = [run EXCEPT ![t] = row]
  BY <1>1, <1>2 DEF Advance, Last
<1>6. run'[t] = row /\ \A s \in Triggers : s # t => run'[s] = run[s]
  BY <1>5, Types DEF IInv
<1>7. run'[t].status = status /\ run'[t].step = i + 1
  <2>1. row.status = status /\ row.step = i + 1
    BY Zenon
  <2> QED
    BY <1>6, <2>1
<1> HIDE DEF status, row
<1>8. Contract!Becomes(t, status, i + 1)
  BY <1>6, <1>7, RunBecomes DEF Contract!Becomes
<1>9. Contract!Advance(t)
  BY <1>3, <1>4, <1>8, StandingOf DEF Contract!Advance, Contract!Becomes, status, Length
<1> QED
  BY <1>9 DEF StepImplements, Contract!Next

\* What an attempt returns to its engine is no part of the contract.
LEMMA ThenReturns ==
    ASSUME NEW x \in Attempts, NEW waits \in BOOLEAN, Then(x, waits) \/ Replay(x)
    PROVE  \E state, next : Return(x, state, next)
BY DEF Then, Replay, Finish, Continue

LEMMA MoveOnImplements == ASSUME IInv, NEW x \in Attempts, MoveOn(x) PROVE StepImplements
<1>1. UNCHANGED <<accepted, elapsed, suppressed>> /\ attempt[x].pc \in {"wait", "skip"}
  BY DEF MoveOn, outside
<1>2. UNCHANGED underway
  <2>1. \E state, next : Return(x, state, next)
    BY ThenReturns DEF MoveOn
  <2> QED
    BY <1>1, <2>1, ReturnKeeps DEF AtSend
<1>3. CASE Current(x)
  <2>1. PICK waits \in BOOLEAN : Advance(x, waits)
    BY <1>3 DEF MoveOn
  <2> QED
    BY <1>1, <1>2, <1>3, <2>1, AdvanceImplements
<1>4. CASE ~Current(x)
  BY <1>1, <1>2, <1>4, Stutters DEF MoveOn
<1> QED
  BY <1>3, <1>4

LEMMA RecordImplements == ASSUME IInv, NEW x \in Attempts, Record(x) PROVE StepImplements
<1>1. UNCHANGED <<accepted, elapsed, suppressed>> /\ attempt[x].pc = "record" /\ Then(x, FALSE)
  BY DEF Record, outside
<1>2. UNCHANGED underway
  BY <1>1, ThenReturns, ReturnKeeps DEF AtSend
<1>3. CASE Current(x)
  BY <1>1, <1>2, <1>3, AdvanceImplements DEF Record
<1>4. CASE ~Current(x)
  BY <1>1, <1>2, <1>4, Stutters DEF Record
<1> QED
  BY <1>3, <1>4

LEMMA DeferImplements == ASSUME IInv, NEW x \in Attempts, Defer(x) PROVE StepImplements
<1>1. /\ UNCHANGED <<accepted, elapsed, suppressed>> /\ attempt[x].pc = "defer"
      /\ Return(x, "asleep", attempt[x].index)
  BY DEF Defer, outside, Continue
<1>2. PICK t \in Triggers : t = attempt[x].on
  BY <1>1, AtWork
<1>3. run' = run \/ run' = [run EXCEPT ![t].waiting = TRUE]
  BY <1>2 DEF Defer
<1>4. \A s \in Triggers : run'[s].status = run[s].status /\ run'[s].step = run[s].step
  BY <1>3, Types DEF IInv, RunRow
<1>5. UNCHANGED underway
  BY <1>1, ReturnKeeps DEF AtSend
<1> QED
  BY <1>1, <1>4, <1>5, Stutters

LEMMA EndRunImplements == ASSUME IInv, NEW x \in Attempts, EndRun(x) PROVE StepImplements
<1>1. /\ UNCHANGED <<accepted, elapsed, suppressed, underway>> /\ attempt[x].pc \in {"fail", "exit"}
  <2>1. /\ UNCHANGED <<accepted, elapsed, suppressed>> /\ attempt[x].pc \in {"fail", "exit"}
        /\ Return(x, "over", attempt[x].index)
    BY DEF EndRun, Finish
  <2> QED
    BY <2>1, ReturnKeeps DEF AtSend
<1>2. PICK t \in Triggers : t = attempt[x].on
  BY <1>1, AtWork
<1>3. CASE run' = run
  BY <1>1, <1>3, Stutters
<1>4. CASE run' # run
  <2>1. PICK status \in {"exited", "failed"} :
          Active(t) /\ run' = [run EXCEPT ![t].status = status, ![t].waiting = FALSE]
    BY <1>2, <1>4 DEF EndRun
  <2>2. PICK step : step = standing[t].step
    OBVIOUS
  <2>3. run'[t].status = status /\ run'[t].step = step /\ \A s \in Triggers : s # t => run'[s] = run[s]
    <3>1. run[t] \in RunRow /\ run \in [Triggers -> RunRow] /\ step = run[t].step
      BY <2>2, StandingOf, Types DEF IInv
    <3>2. run'[t] = [run[t] EXCEPT !.status = status, !.waiting = FALSE]
      BY <2>1, <3>1
    <3>3. \A s \in Triggers : s # t => run'[s] = run[s]
      BY <2>1, <3>1
    <3> QED
      BY <3>1, <3>2, <3>3 DEF RunRow
  <2>4. Contract!Becomes(t, status, standing[t].step)
    BY <2>2, <2>3, RunBecomes DEF Contract!Becomes
  <2>5. Contract!End(t, status)
    BY <1>1, <2>1, <2>4, StandingOf DEF Contract!End
  <2> QED
    BY <2>1, <2>5 DEF StepImplements, Contract!Next
<1> QED
  BY <1>3, <1>4

LEMMA ExecuteImplements ==
    ASSUME IInv, NEW x \in Attempts, NEW t \in Triggers, Execute(x, t) PROVE StepImplements
<1>1. UNCHANGED <<run, accepted, elapsed, suppressed>> /\ attempt[x].pc = "idle"
  BY DEF Execute, rows, outside
<1>2. \/ attempt' = attempt
      \/ \E pc \in {"wait", "check", "defer", "fail"} :
           /\ attempt' = [attempt EXCEPT ![x] = [pc |-> pc, on |-> t, index |-> engine[t].index]]
           /\ pc = "check" => Active(t) /\ engine[t].index = run[t].step /\ Due(t, "check")
  BY DEF Execute, MayRun
<1>3. CASE attempt' = attempt
  BY <1>1, <1>3, Stutters DEF underway
<1>4. ASSUME NEW pc \in {"wait", "check", "defer", "fail"},
             attempt' = [attempt EXCEPT ![x] = [pc |-> pc, on |-> t, index |-> engine[t].index]],
             pc = "check" => Active(t) /\ engine[t].index = run[t].step /\ Due(t, "check")
      PROVE  StepImplements
  <2>1. PICK row : row = [pc |-> pc, on |-> t, index |-> engine[t].index]
    OBVIOUS
  <2>2. row.pc = pc /\ row.on = t /\ row.index = engine[t].index
    BY <2>1
  <2>3. attempt'[x] = row /\ \A y \in Attempts : y # x => attempt'[y] = attempt[y]
    BY <1>4, <2>1, Types DEF IInv
  <2>4. CASE pc # "check"
    <3>1. ~AtSend(x) /\ ~AtSend(x)'
      BY <1>1, <2>2, <2>3, <2>4 DEF AtSend
    <3>2. underway' = underway
      BY <2>3, <3>1, UnderwayKept
    <3> QED
      BY <1>1, <3>2, Stutters
  <2>5. CASE pc = "check"
    <3>1. Active(t) /\ engine[t].index = run[t].step /\ TriggerOK(t) /\ run[t].step \in Nat
      BY <1>4, <2>5, StepsFacts, Types DEF IInv, RunRow, Index
    <3>2. Steps[run[t].step + 1] = "send" /\ Contract!Rested(t, run[t].step)
      BY <1>4, <2>5, <3>1 DEF Due, TriggerOK, Contract!Rested
    <3>3. PICK k : k = [run |-> t, step |-> run[t].step, cleared |-> FALSE]
      OBVIOUS
    <3>4. SendOf(attempt'[x]) = k /\ AtSend(x)' /\ ~AtSend(x)
      BY <1>1, <2>2, <2>3, <2>5, <3>1, <3>3 DEF SendOf, AtSend
    <3>5. underway' = underway \cup {k}
      <4>1. \A y \in Attempts : y # x => attempt'[y] = attempt[y] /\ (AtSend(y)' <=> AtSend(y))
        BY <2>3 DEF AtSend
      <4>2. \A m : m \in underway' <=> m \in underway \/ m = k
        BY <3>4, <4>1, UnderwayOf
      <4> QED
        BY <4>2
    <3>6. Contract!Begin(t)
      BY <1>1, <3>1, <3>2, <3>3, <3>5, StandingOf, StandingStays DEF Contract!Begin
    <3> QED
      BY <3>6 DEF StepImplements, Contract!Next
  <2> QED
    BY <2>4, <2>5
<1> QED
  BY <1>2, <1>3, <1>4

LEMMA CheckImplements == ASSUME IInv, NEW x \in Attempts, Check(x) PROVE StepImplements
<1>1. UNCHANGED <<run, accepted, elapsed, suppressed>> /\ attempt[x].pc = "check"
  BY DEF Check, rows, outside
<1>2. PICK pc \in {"fail", "exit", "skip", "send"} :
        Goto(x, pc) /\ (pc = "send" => UserOf[attempt[x].on] \notin suppressed)
  BY DEF Check
<1>3. /\ attempt'[x].pc = pc /\ attempt'[x].on = attempt[x].on /\ attempt'[x].index = attempt[x].index
      /\ \A y \in Attempts : y # x => attempt'[y] = attempt[y]
  BY <1>2, GotoFacts
<1>4. AtSend(x) /\ (AtSend(x)' <=> pc = "send")
  BY <1>1, <1>3 DEF AtSend
<1>5. CASE pc # "send"
  BY <1>1, <1>3, <1>4, <1>5, DropImplements
<1>6. CASE pc = "send"
  <2>1. PICK k : k = SendOf(attempt[x])
    OBVIOUS
  <2>2. k = [run |-> attempt[x].on, step |-> attempt[x].index, cleared |-> FALSE]
    BY <1>1, <2>1 DEF SendOf
  <2>3. k.run = attempt[x].on /\ k.cleared = FALSE
    BY <2>2
  <2>4. PICK m : m = [k EXCEPT !.cleared = TRUE]
    OBVIOUS
  <2>7. m = [run |-> attempt[x].on, step |-> attempt[x].index, cleared |-> TRUE]
    BY <2>2, <2>4
  <2>8. SendOf(attempt'[x]) = m
    BY <1>3, <1>6, <2>7 DEF SendOf
  <2>9. \A n : n \in {m} <=> (AtSend(x)' /\ n = SendOf(attempt'[x]))
    BY <1>4, <1>6, <2>8
  <2>5. k \in underway /\ Contract!Leaves(k, {m})
    BY <1>3, <1>4, <2>1, <2>9, UnderwayLeft
  <2>6. Contract!Clear(k)
    BY <1>1, <1>2, <1>6, <2>3, <2>4, <2>5, StandingStays DEF Contract!Clear
  <2> QED
    BY <2>5, <2>6 DEF StepImplements, Contract!Next
<1> QED
  BY <1>5, <1>6

LEMMA SendImplements == ASSUME IInv, NEW x \in Attempts, Send(x) PROVE StepImplements
<1>1. UNCHANGED <<run, elapsed, suppressed>> /\ attempt[x].pc = "send"
  BY DEF Send, outside, rows
<1>2. PICK pc \in {"record", "fail"} :
        /\ Goto(x, pc)
        /\ \/ accepted' = [accepted EXCEPT ![attempt[x].on] = @ \cup {attempt[x].index}]
           \/ accepted' = accepted
  BY DEF Send
<1>3. attempt'[x].pc = pc /\ \A y \in Attempts : y # x => attempt'[y] = attempt[y]
  BY <1>2, GotoFacts
<1>4. AtSend(x) /\ ~AtSend(x)'
  BY <1>1, <1>3 DEF AtSend
<1>5. CASE accepted' = accepted
  BY <1>1, <1>3, <1>4, <1>5, DropImplements
<1>6. CASE accepted' = [accepted EXCEPT ![attempt[x].on] = @ \cup {attempt[x].index}]
  <2>1. PICK k : k = SendOf(attempt[x])
    OBVIOUS
  <2>2. k = [run |-> attempt[x].on, step |-> attempt[x].index, cleared |-> TRUE]
    BY <1>1, <2>1 DEF SendOf
  <2>3. k.run = attempt[x].on /\ k.step = attempt[x].index /\ k.cleared = TRUE
    BY <2>2
  <2>4. k \in underway /\ Contract!Leaves(k, {})
    BY <1>3, <1>4, <2>1, UnderwayLeft
  <2>5. Contract!Email(k)
    BY <1>1, <1>6, <2>3, <2>4, StandingStays DEF Contract!Email
  <2> QED
    BY <2>4, <2>5 DEF StepImplements, Contract!Next
<1> QED
  BY <1>2, <1>5, <1>6

LEMMA DiesImplements == ASSUME IInv, NEW x \in Attempts, Dies(x) PROVE StepImplements
<1>1. UNCHANGED <<run, accepted, elapsed, suppressed>> /\ Return(x, "ready", attempt[x].index)
  BY DEF Dies, rows, outside
<1>2. attempt'[x] = Free /\ \A y \in Attempts : y # x => attempt'[y] = attempt[y]
  BY <1>1, Types DEF IInv, Return
<1>3. ~AtSend(x)'
  BY <1>2 DEF AtSend, Free
<1>4. CASE AtSend(x)
  BY <1>1, <1>2, <1>3, <1>4, DropImplements
<1>5. CASE ~AtSend(x)
  BY <1>1, <1>5, ReturnKeeps, Stutters
<1> QED
  BY <1>4, <1>5

\* Whatever attempts and engines repeat, abandon or finish late, a sequence changes its
\* runs and sends its emails only as the contract allows (runSequenceStep).
THEOREM SequencesImplementContract == Spec => ImplementsContract
<1>1. Init => Contract!Init
  <2>1. Init => underway = {}
    BY DEF Init, underway, Free
  <2> QED
    BY <2>1 DEF Init, Contract!Init, standing
<1>2. IInv /\ [Next]_vars => StepImplements
  <2> SUFFICES ASSUME IInv, [Next]_vars PROVE StepImplements
    OBVIOUS
  <2>1. CASE UNCHANGED <<run, accepted, elapsed, suppressed, attempt>>
    BY <2>1, Stutters DEF underway
  <2>2. ASSUME NEW t \in Triggers, Insert(t) \/ WaitEnds(t) PROVE StepImplements
    BY <2>2, InsertImplements, WaitEndsImplements
  <2>3. ASSUME NEW t \in Triggers, NEW x \in Attempts, Execute(x, t) PROVE StepImplements
    BY <2>3, ExecuteImplements
  <2>4. ASSUME NEW u \in Users, Exit(u) \/ Suppress(u) PROVE StepImplements
    BY <2>4, ExitImplements, SuppressImplements
  <2>5. ASSUME NEW x \in Attempts, AttemptStep(x) \/ Dies(x) PROVE StepImplements
    BY <2>5, MoveOnImplements, DeferImplements, CheckImplements, EndRunImplements, SendImplements,
       RecordImplements, DiesImplements DEF AttemptStep
  <2> QED
    BY <2>1, <2>2, <2>3, <2>4, <2>5 DEF Next, Select, StartEngine, HandlerFails, Prune, Cancel, TimesOut,
       Restarts, GivesUp, Wake, rows, outside, vars
<1> QED
  BY <1>1, <1>2, Invariance, PTL DEF Spec, ImplementsContract, Contract!Spec, StepImplements
=============================================================================
