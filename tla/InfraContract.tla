---------------------------- MODULE InfraContract ----------------------------
(***************************************************************************)
(* What applying plans promises of a target, whatever runs, stops and      *)
(* resumes: a resource is made only after its operation's journal says so, *)
(* and the journal only ever names what the operation was approved to      *)
(* create; the provider makes a name once, unless a create was excused;    *)
(* a name is bound for good, to a resource made of it; and an operation    *)
(* completes a resource only when it is bound.                             *)
(***************************************************************************)
EXTENDS Naturals

CONSTANTS
    Operations,
    Resources,
    Plan,      \* Plan[op]: the resources op was approved to create
    Creates,   \* the creates sent to the provider
    Nothing

VARIABLES
    journal,   \* journal[op]: the resources op said it would create
    made,      \* what the provider made: the create, its operation and the resource
    bound,     \* bound[q]: the create that q is bound to, and the operation that bound it
    done,      \* done[op]: the resources op calls completed
    excused    \* the creates whose outcome was given up on

contractVars == <<journal, made, bound, done, excused>>

Init ==
    /\ journal = [op \in Operations |-> {}] /\ done = journal
    /\ made = {} /\ excused = {}
    /\ bound = [q \in Resources |-> Nothing]

Intend(op, q) ==
    /\ q \in Plan[op]
    /\ journal' = [journal EXCEPT ![op] = @ \cup {q}]
    /\ UNCHANGED <<made, bound, done, excused>>

\* A name is made a second time only if one of the two creates was excused.
Make(c, op, q) ==
    /\ q \in journal[op]
    /\ \A m \in made : m.id # c /\ (m.resource = q => {m.id, c} \cap excused # {})
    /\ made' = made \cup {[id |-> c, op |-> op, resource |-> q]}
    /\ UNCHANGED <<journal, bound, done, excused>>

\* An operator reconciles the target without knowing of the create.
Excuse(c) ==
    /\ excused' = excused \cup {c}
    /\ UNCHANGED <<journal, made, bound, done>>

Bind(op, q) ==
    /\ q \in journal[op] /\ bound[q] = Nothing
    /\ \E m \in made : m.resource = q /\ bound' = [bound EXCEPT ![q] = [id |-> m.id, by |-> op]]
    /\ UNCHANGED <<journal, made, done, excused>>

Complete(op, q) ==
    /\ q \in journal[op] /\ bound[q] # Nothing
    /\ done' = [done EXCEPT ![op] = @ \cup {q}]
    /\ UNCHANGED <<journal, made, bound, excused>>

Next ==
    \/ \E op \in Operations, q \in Resources :
         Intend(op, q) \/ Bind(op, q) \/ Complete(op, q) \/ \E c \in Creates : Make(c, op, q)
    \/ \E c \in Creates : Excuse(c)

Spec == Init /\ [][Next]_contractVars
=============================================================================
