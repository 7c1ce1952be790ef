------------------------------- MODULE JobQueue -------------------------------
(***************************************************************************)
(* What order-queue promises of its jobs, without the processes that work  *)
(* on them: a job is delivered until one delivery is completed, and a      *)
(* delivery that was lost counts for nothing. A job is delivered again     *)
(* only after a loss, and given up only after more than MaxStalled of them.*)
(***************************************************************************)
EXTENDS Integers

CONSTANTS
  Jobs,
  MaxStalled  \* losses after which a job is delivered again

VARIABLES
  delivery,  \* delivery[j]: where the current delivery of j stands
  losses     \* losses[j]: deliveries of j that are known to be lost

queueVars == <<delivery, losses>>

QueueInit ==
  /\ delivery = [j \in Jobs |-> "waiting"]
  /\ losses = [j \in Jobs |-> 0]

Move(j, from, to) == /\ delivery[j] = from
                     /\ delivery' = [delivery EXCEPT ![j] = to]

Take(j) == Move(j, "waiting", "taken") /\ UNCHANGED losses

\* The worker that has the job reports its end.
Complete(j) == Move(j, "taken", "completed") /\ UNCHANGED losses

\* The worker that has the job dies, or its lock expires.
Lose(j) == Move(j, "taken", "lost") /\ UNCHANGED losses

Redeliver(j) == /\ losses[j] < MaxStalled
                /\ Move(j, "lost", "waiting")
                /\ losses' = [losses EXCEPT ![j] = @ + 1]

GiveUp(j) == /\ losses[j] >= MaxStalled
             /\ Move(j, "lost", "failed")
             /\ losses' = [losses EXCEPT ![j] = @ + 1]

QueueNext ==
  \E j \in Jobs : Take(j) \/ Complete(j) \/ Lose(j) \/ Redeliver(j) \/ GiveUp(j)

QueueSpec == QueueInit /\ [][QueueNext]_queueVars
=============================================================================
