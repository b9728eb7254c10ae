------------------------------ MODULE Handlers ------------------------------
(***************************************************************************)
(* What the service's modules share: a Node process runs request handlers, *)
(* timers and webhooks, each of which yields at every await.  A handler in *)
(* flight occupies a slot of `task` with its next step and what it has     *)
(* read so far; its steps, one call of database or service each,           *)
(* interleave with those of the others.                                    *)
(***************************************************************************)
EXTENDS Integers, Sequences, FiniteSets

CONSTANT Tasks      \* slots for handlers in flight (bound on concurrency)

VARIABLE task       \* handlers in flight, or Idle

Idle == [at |-> "idle"]
At(t, step) == task[t].at = step
Busy(steps) == {t \in Tasks : task[t].at \in steps}
Quiet == \A t \in Tasks : task[t] = Idle

Start(t, to) == task[t] = Idle /\ task' = [task EXCEPT ![t] = to]
Goto(t, to) == task' = [task EXCEPT ![t] = to]
Step(t, step) == task' = [task EXCEPT ![t].at = step]
Done(t) == Goto(t, Idle)

NoTasks == task = [t \in Tasks |-> Idle]
\* A restart of the process.
TasksLost == task' = [t \in Tasks |-> Idle]

=============================================================================
