----------------------------- MODULE TargetQueue -----------------------------
(***************************************************************************)
(* What operation engine v2 promises to the owner of a target: its         *)
(* operations run one at a time and in the order of their creation, an     *)
(* operation does work only while it runs, it ends only when its work has  *)
(* stopped, and an ended one is reopened only as long as nothing created   *)
(* after it has begun.                                                     *)
(***************************************************************************)
EXTENDS Integers

CONSTANTS Ops, Targets, TargetOf

VARIABLES
    state,   \* [Ops -> States]
    age,     \* [Ops -> Nat]: the creation time
    busy     \* the operations that have an unfinished task or a command

queueVars == <<state, age, busy>>

\* "fresh" has never run, "reopened" waits to run again.
States == {"absent", "fresh", "reopened", "running", "ended"}

Rivals(o) == {p \in Ops \ {o} : TargetOf[p] = TargetOf[o] /\ state[p] # "absent"}
Younger(o) == {p \in Rivals(o) : age[o] < age[p]}
Older(o) == {p \in Rivals(o) : age[p] < age[o]}

QueueInit ==
    /\ state = [o \in Ops |-> "absent"]
    /\ age = [o \in Ops |-> 0]
    /\ busy = {}

Move(o, from, to) ==
    state[o] \in from /\ state' = [state EXCEPT ![o] = to]

Submit(o) ==
    /\ Move(o, {"absent"}, "fresh")
    /\ age' = [age EXCEPT ![o] = age'[o]]
    /\ \A p \in Ops : age[p] < age'[o]
    /\ UNCHANGED busy

Begin(o) ==
    /\ Move(o, {"fresh", "reopened"}, "running")
    /\ \A p \in Rivals(o) : state[p] # "running"
    /\ \A p \in Older(o) : state[p] = "ended"
    /\ UNCHANGED <<age, busy>>

Withdraw(o) ==
    /\ Move(o, {"fresh", "reopened"}, "ended")
    /\ UNCHANGED <<age, busy>>

\* Work starts and stops only in the operation that runs.
Work(o) ==
    /\ state[o] = "running"
    /\ busy' \in {busy \cup {o}, busy \ {o}}
    /\ UNCHANGED <<state, age>>

End(o) ==
    /\ Move(o, {"running"}, "ended")
    /\ o \notin busy
    /\ UNCHANGED <<age, busy>>

Reopen(o) ==
    /\ Move(o, {"ended"}, "reopened")
    /\ \A p \in Younger(o) : state[p] = "fresh"
    /\ UNCHANGED <<age, busy>>

QueueNext ==
    \E o \in Ops :
        Submit(o) \/ Begin(o) \/ Withdraw(o) \/ Work(o) \/ End(o) \/ Reopen(o)

QueueSpec == QueueInit /\ [][QueueNext]_queueVars

=============================================================================
