--------------------------- MODULE AtLeastOnceJob ---------------------------
(***************************************************************************)
(* What a RabbitMQ-driven background job of this system promises, with no  *)
(* task, database session or retry in sight: a published job stays with    *)
(* the broker until it is acknowledged or dead-lettered, a dead-lettered   *)
(* job may be replayed, and a job is acknowledged only once the effect it  *)
(* was published for is durable.  An effect, once durable, stays.          *)
(***************************************************************************)
CONSTANT Job

VARIABLES stage,     \* stage[j]: where job j is
          effective  \* the jobs whose effect is durable

vars == <<stage, effective>>

Stage == {"none", "pending", "dead", "done"}

Move(j, from, to) ==
  /\ stage[j] = from
  /\ stage' = [stage EXCEPT ![j] = to]
  /\ UNCHANGED effective

Init ==
  /\ stage \in [Job -> {"none", "pending"}]
  /\ effective = {}

Publish(j) == Move(j, "none", "pending")

(* The effect may land while the job is pending, but also later: a worker   *)
(* that lost its broker connection still holds the job it was working on.   *)
TakeEffect(j) ==
  /\ stage[j] # "none"
  /\ effective' = effective \cup {j}
  /\ UNCHANGED stage

Acknowledge(j) == j \in effective /\ Move(j, "pending", "done")

DeadLetter(j) == Move(j, "pending", "dead")

Replay(j) == Move(j, "dead", "pending")

Next ==
  \E j \in Job :
    \/ Publish(j)
    \/ TakeEffect(j)
    \/ Acknowledge(j)
    \/ DeadLetter(j)
    \/ Replay(j)

Spec == Init /\ [][Next]_vars
=============================================================================
