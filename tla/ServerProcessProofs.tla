------------------------- MODULE ServerProcessProofs -------------------------
(***************************************************************************)
(* ServerInv is inductive: a process is drained before it is done, and     *)
(* every loss of a job has an exit or an outage of its own. The workers    *)
(* implement JobQueue.                                                     *)
(***************************************************************************)
EXTENDS ServerProcess, TLAPS

\* The steps of the shutdown that end nothing.
Quiet(n) == Start(n) \/ Listen(n) \/ Signal(n) \/ HttpCloses(n) \/ WorkerCloses(n)

\* An exit that is charged, and one that is not.
RoughExit(n) == node[n] # "off" /\ Exit(n) /\ rough' = rough + 1
CleanExit(n) == drain[n] = "done" /\ Exit(n) /\ UNCHANGED rough

\* What Next comes down to for a proof: the ends of a process are of two kinds.
LEMMA NextCases ==
  ASSUME ServerInv, [Next]_vars
  PROVE  \/ \E n \in Nodes : \/ Quiet(n) \/ RoughExit(n) \/ CleanExit(n) \/ Finish(n)
                             \/ \E j \in Jobs : Fetch(n, j) \/ RecoverStalled(n, j)
                             \/ \E p \in Probes : Probe(p, n)
         \/ \E p \in Probes : CheckDatabase(p) \/ CheckRedis(p) \/ Answer(p)
         \/ \E j \in Jobs : LockExpires(j)
         \/ RedisFails \/ RedisReturns \/ UNCHANGED vars
<1>1. ASSUME NEW n \in Nodes, Crash(n) \/ TracingExits(n) \/ ForceExits(n) PROVE RoughExit(n)
  BY <1>1 DEF ServerInv, Crash, TracingExits, ForceExits, RoughExit
<1>2. QED
  BY <1>1 DEF Next, ProcessStep, Exits, WorkerStep, HealthStep, ShutdownExits, Quiet, CleanExit

LEMMA TypeStep == ServerInv /\ [Next]_vars => TypeOK'
<1> SUFFICES ASSUME ServerInv, [Next]_vars PROVE TypeOK'
  OBVIOUS
<1>0. TypeOK
  BY DEF ServerInv
<1>1. ASSUME NEW n \in Nodes, Quiet(n) PROVE TypeOK'
  BY <1>0, <1>1 DEF TypeOK, Quiet, Start, Listen, Signal, HttpCloses, WorkerCloses,
                    jobVars, redisVars
<1>2. ASSUME NEW n \in Nodes, Exit(n), rough' \in {rough, rough + 1} PROVE TypeOK'
  <2>1. Resting("cut") \in ProbeType
    BY DEF ProbeType, Resting
  <2>2. probe' \in [Probes -> ProbeType]
    BY <1>0, <1>2, <2>1 DEF TypeOK, Exit
  <2>3. QED
    BY <1>0, <1>2, <2>2 DEF TypeOK, Exit, redisVars
<1>3. ASSUME NEW n \in Nodes, Finish(n) \/ \E j \in Jobs : Fetch(n, j) \/ RecoverStalled(n, j)
      PROVE  TypeOK'
  BY <1>0, <1>3 DEF TypeOK, Finish, Fetch, RecoverStalled, nodeVars, redisVars
<1>4. ASSUME NEW n \in Nodes, NEW p \in Probes, Probe(p, n) PROVE TypeOK'
  <2>1. [at |-> n, waiting |-> Checks, status |-> "UP", answer |-> "none"] \in ProbeType
    BY DEF ProbeType
  <2>2. QED
    BY <1>0, <1>4, <2>1 DEF TypeOK, Probe, nodeVars, jobVars, redisVars
<1>5. ASSUME NEW p \in Probes, CheckDatabase(p) \/ CheckRedis(p) \/ Answer(p) PROVE TypeOK'
  <2>1. /\ \A status \in {"UP", "DEGRADED"} : Resting(status) \in ProbeType
        /\ \A status \in {"UP", "DEGRADED"}, check \in Checks :
             [probe[p] EXCEPT !.waiting = @ \ {check}, !.status = status] \in ProbeType
    BY <1>0 DEF TypeOK, ProbeType, Resting
  <2>2. probe[p].status \in {"UP", "DEGRADED"}
    BY <1>0 DEF TypeOK, ProbeType
  <2>3. ASSUME Answer(p) PROVE probe' \in [Probes -> ProbeType]
    BY <1>0, <2>1, <2>2, <2>3 DEF TypeOK, Answer
  <2>4. ASSUME NEW check \in Checks, Returns(p, check) PROVE probe' \in [Probes -> ProbeType]
    <3>1. PICK status \in {"UP", "DEGRADED"} :
            probe' = [probe EXCEPT ![p].waiting = @ \ {check}, ![p].status = status]
      BY <2>2, <2>4 DEF Returns
    <3> QED
      BY <1>0, <2>1, <3>1 DEF TypeOK
  <2>5. probe' \in [Probes -> ProbeType]
    BY <1>5, <2>3, <2>4 DEF CheckDatabase, CheckRedis, Checks
  <2>6. QED
    BY <1>0, <1>5, <2>5 DEF TypeOK, CheckDatabase, CheckRedis, Returns, Answer, nodeVars, jobVars, redisVars
<1>6. ASSUME NEW j \in Jobs, LockExpires(j) PROVE TypeOK'
  BY <1>0, <1>6 DEF TypeOK, LockExpires, nodeVars, redisVars
<1>7. CASE RedisFails \/ RedisReturns
  <2>1. {starts, outages, rough}' \subseteq Nat
    BY <1>0, <1>7 DEF TypeOK, RedisFails, RedisReturns, nodeVars
  <2>2. QED
    BY <1>0, <1>7, <2>1 DEF TypeOK, RedisFails, RedisReturns, nodeVars, jobVars
<1>8. CASE UNCHANGED vars
  BY <1>0, <1>8 DEF TypeOK, vars, nodeVars, jobVars, redisVars
<1>9. QED
  BY <1>1, <1>2, <1>3, <1>4, <1>5, <1>6, <1>7, <1>8, NextCases DEF RoughExit, CleanExit

\* What a process waits for when it shuts down, and what one that is off has left.
Empty ==
  \A n \in Nodes : /\ drain[n] \in {"worker", "done"} => PendingAt(n) = {}
                   /\ drain[n] = "done" => running[n] = None
                   /\ node[n] = "off" =>
                        running[n] = None /\ PendingAt(n) = {} /\ n \notin tracing
                   /\ node[n] # "up" => drain[n] = "none" /\ PendingAt(n) = {}

LEMMA EmptyStep == ServerInv /\ [Next]_vars => Empty'
<1> SUFFICES ASSUME ServerInv, [Next]_vars PROVE Empty'
  OBVIOUS
<1>0. TypeOK /\ Empty
  BY DEF ServerInv, DrainedIsEmpty, Empty
<1> USE DEF Pending, PendingAt
<1>1. ASSUME NEW n \in Nodes, Quiet(n) PROVE Empty'
  BY <1>0, <1>1 DEF TypeOK, Empty, Quiet, Start, Listen, Signal, HttpCloses, WorkerCloses,
                    jobVars, redisVars
<1>2. ASSUME NEW n \in Nodes, Exit(n) PROVE Empty'
  <2>1. \A m \in Nodes : PendingAt(m)' = IF m = n THEN {} ELSE PendingAt(m)
    BY <1>0, <1>2 DEF TypeOK, ProbeType, Resting, Exit
  <2>2. QED
    BY <1>0, <1>2, <2>1 DEF TypeOK, Empty, Exit
<1>3. ASSUME NEW n \in Nodes, Finish(n) \/ \E j \in Jobs : Fetch(n, j) \/ RecoverStalled(n, j)
      PROVE  Empty'
  BY <1>0, <1>3 DEF TypeOK, Empty, Finish, Fetch, RecoverStalled, Working, nodeVars, redisVars
<1>4. ASSUME NEW n \in Nodes, NEW p \in Probes, Probe(p, n) PROVE Empty'
  <2>1. \A m \in Nodes : m # n => PendingAt(m)' = PendingAt(m)
    BY <1>0, <1>4 DEF TypeOK, ProbeType, Probe
  <2>2. QED
    BY <1>0, <1>4, <2>1 DEF TypeOK, Empty, Probe, nodeVars, jobVars, redisVars
<1>5. ASSUME NEW p \in Probes, CheckDatabase(p) \/ CheckRedis(p) \/ Answer(p) PROVE Empty'
  <2>1. \A m \in Nodes : PendingAt(m)' \subseteq PendingAt(m)
    <3>1. ASSUME Answer(p) PROVE \A m \in Nodes : PendingAt(m)' \subseteq PendingAt(m)
      <4>1. Resting(probe[p].status).answer # "none"
        BY <1>0 DEF TypeOK, ProbeType, Resting
      <4> QED
        BY <1>0, <3>1, <4>1 DEF TypeOK, Answer
    <3>2. ASSUME NEW check \in Checks, Returns(p, check)
          PROVE  \A m \in Nodes : PendingAt(m)' \subseteq PendingAt(m)
      <4>1. PICK status : probe' = [probe EXCEPT ![p].waiting = @ \ {check}, ![p].status = status]
        BY <3>2 DEF Returns
      <4> QED
        BY <1>0, <4>1 DEF TypeOK, ProbeType
    <3> QED
      BY <1>5, <3>1, <3>2 DEF CheckDatabase, CheckRedis, Checks
  <2>2. QED
    BY <1>0, <1>5, <2>1 DEF Empty, CheckDatabase, CheckRedis, Returns, Answer, nodeVars, jobVars, redisVars
<1>6. ASSUME NEW j \in Jobs, LockExpires(j) PROVE Empty'
  BY <1>0, <1>6 DEF Empty, LockExpires, nodeVars, redisVars
<1>7. CASE RedisFails \/ RedisReturns \/ UNCHANGED vars
  BY <1>0, <1>7 DEF Empty, RedisFails, RedisReturns, vars, nodeVars, jobVars, redisVars
<1>8. QED
  BY <1>1, <1>2, <1>3, <1>4, <1>5, <1>6, <1>7, NextCases DEF RoughExit, CleanExit

\* What is charged for the losses of a job: an outage under way may still take
\* the lock of a job that is in hand.
Charged ==
  \A j \in Jobs : /\ Losses(j) <= rough + outages
                  /\ state[j] = "failed" <=> stalls[j] > MaxStalled
                  /\ ~redisUp /\ ~Stalled(j) => stalls[j] < rough + outages

LEMMA ChargedStep == ServerInv /\ [Next]_vars => Charged'
<1> SUFFICES ASSUME ServerInv, [Next]_vars PROVE Charged'
  OBVIOUS
<1>0. TypeOK /\ Charged /\ MaxStalled \in Nat
  BY ServerAssumption DEF ServerInv, LossesAreRough, Charged
<1> USE DEF Losses, Stalled
<1>1. ASSUME UNCHANGED <<jobVars, redisVars>>, UNCHANGED rough PROVE Charged'
  BY <1>0, <1>1 DEF Charged, jobVars, redisVars
<1>2. ASSUME NEW n \in Nodes, RoughExit(n) PROVE Charged'
  BY <1>0, <1>2 DEF TypeOK, Charged, RoughExit, Exit, redisVars
<1>3. ASSUME NEW n \in Nodes, CleanExit(n) PROVE Charged'
  <2>1. running[n] = None
    BY <1>3 DEF ServerInv, DrainedIsEmpty, CleanExit
  <2>2. running' = running
    BY <1>0, <1>3, <2>1 DEF TypeOK, CleanExit, Exit
  <2>3. QED
    BY <1>0, <1>3, <2>2 DEF Charged, CleanExit, Exit, redisVars
<1>4. ASSUME NEW n \in Nodes, Finish(n) PROVE Charged'
  <2> DEFINE j == running[n]
  <2>1. j \in Jobs /\ running' = [running EXCEPT ![n] = None]
    BY <1>0, <1>4 DEF TypeOK, Finish
  <2>2. UNCHANGED <<lock, stalls, rough, redisUp, outages>> /\ redisUp
    BY <1>4 DEF Finish, nodeVars, redisVars
  <2>3. \A i \in Jobs : /\ state'[i] # state[i] => state[i] = "active" /\ state'[i] = "completed"
                        /\ Stalled(i)' => Stalled(i)
    BY <1>0, <1>4, <2>1, ServerAssumption DEF TypeOK, Finish
  <2>4. QED
    BY <1>0, <2>2, <2>3 DEF TypeOK, Charged
<1>5. ASSUME NEW n \in Nodes, NEW j \in Jobs, Fetch(n, j) PROVE Charged'
  <2>1. UNCHANGED <<stalls, rough, redisUp, outages>> /\ redisUp
    BY <1>5 DEF Fetch, nodeVars, redisVars
  <2>2. \A i \in Jobs : /\ state'[i] = "failed" <=> state[i] = "failed"
                        /\ Stalled(i)' => Stalled(i)
    BY <1>0, <1>5, ServerAssumption DEF TypeOK, Fetch
  <2>3. QED
    BY <1>0, <2>1, <2>2 DEF TypeOK, Charged
<1>6. ASSUME NEW n \in Nodes, NEW j \in Jobs, RecoverStalled(n, j) PROVE Charged'
  <2>1. /\ UNCHANGED <<running, rough, redisUp, outages>> /\ redisUp /\ Stalled(j)
        /\ stalls' = [stalls EXCEPT ![j] = stalls[j] + 1]
        /\ state' = [state EXCEPT ![j] = IF stalls[j] < MaxStalled THEN "waiting" ELSE "failed"]
        /\ lock' = [lock EXCEPT ![j] = None]
    BY <1>6 DEF RecoverStalled, nodeVars, redisVars
  <2>2. ~Stalled(j)'
    BY <1>0, <2>1 DEF TypeOK
  <2>3. \A i \in Jobs \ {j} : stalls'[i] = stalls[i] /\ state'[i] = state[i] /\ lock'[i] = lock[i]
    BY <1>0, <2>1 DEF TypeOK
  <2>4. stalls'[j] = stalls[j] + 1 /\ (state'[j] = "failed" <=> stalls[j] >= MaxStalled)
    BY <1>0, <2>1 DEF TypeOK
  <2>5. QED
    BY <1>0, <2>1, <2>2, <2>3, <2>4 DEF TypeOK, Charged
<1>7. ASSUME NEW j \in Jobs, LockExpires(j) PROVE Charged'
  BY <1>0, <1>7 DEF TypeOK, Charged, LockExpires, nodeVars, redisVars
<1>8. CASE RedisFails
  BY <1>0, <1>8 DEF TypeOK, Charged, RedisFails, nodeVars, jobVars
<1>9. CASE RedisReturns
  BY <1>0, <1>9 DEF TypeOK, Charged, RedisReturns, nodeVars, jobVars
<1>10. ASSUME \/ \E n \in Nodes : Quiet(n) \/ \E p \in Probes : Probe(p, n)
              \/ \E p \in Probes : CheckDatabase(p) \/ CheckRedis(p) \/ Answer(p)
       PROVE  UNCHANGED <<jobVars, redisVars>> /\ UNCHANGED rough
  BY <1>10 DEF Quiet, Start, Listen, Signal, HttpCloses, WorkerCloses, Probe, CheckDatabase,
               CheckRedis, Returns, Answer, nodeVars
<1>11. QED
  BY <1>1, <1>2, <1>3, <1>4, <1>5, <1>6, <1>7, <1>8, <1>9, <1>10, NextCases
     DEF vars, nodeVars

\* Whatever signals, exits and outages come, the shutdown drains what it waits for
\* and the losses of every job are accounted for.
THEOREM ServerInvariant == Spec => []ServerInv
<1>1. Init => ServerInv
  BY ServerAssumption DEF Init, ServerInv, TypeOK, ProbeType, Resting, DrainedIsEmpty, LossesAreRough,
         Losses, Stalled, Pending, PendingAt
<1>2. ServerInv /\ [Next]_vars => ServerInv'
  BY TypeStep, EmptyStep, ChargedStep
     DEF ServerInv, Empty, Charged, DrainedIsEmpty, LossesAreRough
<1>3. QED
  BY <1>1, <1>2, PTL DEF Spec

\* A process that a complete shutdown ends has nothing in flight.
THEOREM DrainedProcesses == Spec => []DrainedIsEmpty
<1>1. ServerInv => DrainedIsEmpty
  BY DEF ServerInv
<1>2. QED
  BY <1>1, ServerInvariant, PTL

\* No job is lost more often than processes ended roughly and Redis was away.
THEOREM LossesAreAccounted == Spec => []LossesAreRough
<1>1. ServerInv => LossesAreRough
  BY DEF ServerInv
<1>2. QED
  BY <1>1, ServerInvariant, PTL
-----------------------------------------------------------------------------
(* The workers implement the job queue.                                    *)

\* A step that moves no job and leaves each with whoever has it.
LEMMA DeliveryStays ==
  ASSUME UNCHANGED <<state, stalls>>,
         \A j \in Jobs : state[j] = "active" => (Stalled(j)' <=> Stalled(j))
  PROVE  UNCHANGED Queue!queueVars
<1>1. Delivery' = Delivery
  BY DEF Delivery
<1> QED
  BY <1>1 DEF Queue!queueVars

\* A step that changes the delivery of one job.
LEMMA DeliveryMoves ==
  ASSUME NEW j \in Jobs, NEW from, NEW to, Delivery[j] = from, Delivery'[j] = to,
         \A i \in Jobs \ {j} : state'[i] = state[i] /\ (Stalled(i)' <=> Stalled(i))
  PROVE  Queue!Move(j, from, to)
<1>1. Delivery' = [Delivery EXCEPT ![j] = to]
  BY DEF Delivery
<1> QED
  BY <1>1 DEF Queue!Move

\* A step that does no more than take a job from the worker that has it.
LEMMA DeliveryIsLost ==
  ASSUME NEW j \in Jobs,
         UNCHANGED <<state, stalls>>,
         \A i \in Jobs \ {j} : Stalled(i)' <=> Stalled(i),
         Stalled(j) => Stalled(j)'
  PROVE  Queue!Lose(j) \/ UNCHANGED Queue!queueVars
<1>1. CASE state[j] = "active" /\ ~Stalled(j) /\ Stalled(j)'
  <2>1. Delivery[j] = "taken" /\ Delivery'[j] = "lost"
    BY <1>1 DEF Delivery
  <2>2. Queue!Move(j, "taken", "lost")
    BY <2>1, DeliveryMoves
  <2> QED
    BY <2>2 DEF Queue!Lose
<1>2. CASE ~(state[j] = "active" /\ ~Stalled(j) /\ Stalled(j)')
  BY <1>2, DeliveryStays
<1> QED
  BY <1>1, <1>2

LEMMA QueueStep == ServerInv /\ [Next]_vars => [Queue!QueueNext]_(Queue!queueVars)
<1> SUFFICES ASSUME ServerInv, [Next]_vars
             PROVE  Queue!QueueNext \/ UNCHANGED Queue!queueVars
  OBVIOUS
<1>0. TypeOK /\ MaxStalled \in Nat
  BY ServerAssumption DEF ServerInv
<1>1. ASSUME UNCHANGED <<running, state, lock, stalls>> PROVE UNCHANGED Queue!queueVars
  BY <1>1, DeliveryStays DEF Stalled
<1>2. ASSUME NEW n \in Nodes, Exit(n) PROVE Queue!QueueNext \/ UNCHANGED Queue!queueVars
  <2>1. UNCHANGED <<state, lock, stalls>> /\ running' = [running EXCEPT ![n] = None]
    BY <1>2 DEF Exit
  <2>2. \A i \in Jobs : Stalled(i) => Stalled(i)'
    BY <1>0, <2>1, ServerAssumption DEF TypeOK, Stalled
  <2>3. \A i \in Jobs : i # running[n] => (Stalled(i)' <=> Stalled(i))
    BY <1>0, <2>1, ServerAssumption DEF TypeOK, Stalled
  <2>4. CASE running[n] \in Jobs
    BY <2>1, <2>2, <2>3, <2>4, DeliveryIsLost DEF Queue!QueueNext
  <2>5. CASE running[n] \notin Jobs
    BY <2>1, <2>3, <2>5, DeliveryStays
  <2> QED
    BY <2>4, <2>5
<1>3. ASSUME NEW n \in Nodes, Finish(n) PROVE Queue!QueueNext \/ UNCHANGED Queue!queueVars
  <2>0. PICK j \in Jobs : j = running[n]
    BY <1>0, <1>3 DEF Finish, TypeOK
  <2>1. /\ running[n] = j /\ running' = [running EXCEPT ![n] = None]
        /\ state' = [state EXCEPT ![j] =
             IF state[j] = "active" /\ lock[j] = n THEN "completed" ELSE state[j]]
        /\ UNCHANGED <<lock, stalls>>
    BY <1>3, <2>0 DEF Finish
  <2>2. \A i \in Jobs \ {j} : state'[i] = state[i] /\ (Stalled(i)' <=> Stalled(i))
    BY <1>0, <2>1, ServerAssumption DEF TypeOK, Stalled
  <2>3. CASE state[j] = "active" /\ lock[j] = n
    <3>1. Delivery[j] = "taken" /\ Delivery'[j] = "completed"
      BY <1>0, <2>1, <2>3 DEF TypeOK, Delivery, Stalled
    <3>2. Queue!Complete(j)
      BY <2>1, <2>2, <3>1, DeliveryMoves DEF Queue!Complete
    <3> QED
      BY <2>1, <3>2 DEF Queue!QueueNext
  <2>4. CASE ~(state[j] = "active" /\ lock[j] = n)
    <3>1. state' = state
      BY <1>0, <2>1, <2>4 DEF TypeOK
    <3>2. ASSUME state[j] = "active" PROVE Stalled(j)' <=> Stalled(j)
      <4>1. lock[j] # n
        BY <2>4, <3>2
      <4>2. \A m \in Nodes : m # n => (running'[m] = j <=> running[m] = j)
        BY <1>0, <2>1 DEF TypeOK
      <4> QED
        BY <2>1, <3>1, <4>1, <4>2 DEF Stalled
    <3>3. \A i \in Jobs : state[i] = "active" => (Stalled(i)' <=> Stalled(i))
      BY <2>2, <3>2
    <3> QED
      BY <2>1, <3>1, <3>3, DeliveryStays
  <2> QED
    BY <2>3, <2>4
<1>4. ASSUME NEW n \in Nodes, NEW j \in Jobs, Fetch(n, j) PROVE Queue!QueueNext
  <2>1. /\ running[n] = None /\ state[j] = "waiting"
        /\ running' = [running EXCEPT ![n] = j] /\ lock' = [lock EXCEPT ![j] = n]
        /\ state' = [state EXCEPT ![j] = "active"] /\ stalls' = stalls
    BY <1>4 DEF Fetch
  <2>2. \A i \in Jobs \ {j} : state'[i] = state[i] /\ (Stalled(i)' <=> Stalled(i))
    BY <1>0, <2>1, ServerAssumption DEF TypeOK, Stalled
  <2>3. Delivery[j] = "waiting" /\ Delivery'[j] = "taken"
    BY <1>0, <2>1 DEF TypeOK, Delivery, Stalled
  <2>4. Queue!Take(j)
    BY <2>1, <2>2, <2>3, DeliveryMoves DEF Queue!Take
  <2> QED
    BY <2>4 DEF Queue!QueueNext
<1>5. ASSUME NEW n \in Nodes, NEW j \in Jobs, RecoverStalled(n, j) PROVE Queue!QueueNext
  <2>1. /\ Stalled(j) /\ running' = running
        /\ state' = [state EXCEPT ![j] = IF stalls[j] < MaxStalled THEN "waiting" ELSE "failed"]
        /\ lock' = [lock EXCEPT ![j] = None] /\ stalls' = [stalls EXCEPT ![j] = @ + 1]
    BY <1>5 DEF RecoverStalled
  <2>2. \A i \in Jobs \ {j} : state'[i] = state[i] /\ (Stalled(i)' <=> Stalled(i))
    BY <1>0, <2>1 DEF TypeOK, Stalled
  <2>3. /\ Delivery[j] = "lost"
        /\ Delivery'[j] = IF stalls[j] < MaxStalled THEN "waiting" ELSE "failed"
    BY <1>0, <2>1 DEF TypeOK, Delivery, Stalled
  <2>4. stalls[j] \in Nat
    BY <1>0 DEF TypeOK
  <2>5. Queue!Redeliver(j) \/ Queue!GiveUp(j)
    BY <1>0, <2>1, <2>2, <2>3, <2>4, DeliveryMoves DEF Queue!Redeliver, Queue!GiveUp
  <2> QED
    BY <2>5 DEF Queue!QueueNext
<1>6. ASSUME NEW j \in Jobs, LockExpires(j)
      PROVE  Queue!QueueNext \/ UNCHANGED Queue!queueVars
  <2>1. UNCHANGED <<running, state, stalls>> /\ lock' = [lock EXCEPT ![j] = None]
    BY <1>6 DEF LockExpires
  <2>2. /\ \A i \in Jobs \ {j} : Stalled(i)' <=> Stalled(i)
        /\ Stalled(j) => Stalled(j)'
    BY <1>0, <2>1, ServerAssumption DEF TypeOK, Stalled
  <2> QED
    BY <2>1, <2>2, DeliveryIsLost DEF Queue!QueueNext
<1>7. ASSUME \/ \E n \in Nodes : Quiet(n) \/ \E p \in Probes : Probe(p, n)
             \/ \E p \in Probes : CheckDatabase(p) \/ CheckRedis(p) \/ Answer(p)
             \/ RedisFails \/ RedisReturns \/ UNCHANGED vars
      PROVE  UNCHANGED <<running, state, lock, stalls>>
  BY <1>7 DEF Quiet, Start, Listen, Signal, HttpCloses, WorkerCloses, Probe, CheckDatabase,
              CheckRedis, Returns, Answer, RedisFails, RedisReturns, vars, jobVars
<1> QED
  BY <1>1, <1>2, <1>3, <1>4, <1>5, <1>6, <1>7, NextCases DEF RoughExit, CleanExit

\* Whatever ends processes and Redis, the workers deliver jobs as the queue promises.
THEOREM WorkersImplementQueue == Spec => ImplementsQueue
<1>1. Init => Queue!QueueInit
  BY DEF Init, Queue!QueueInit, Delivery
<1> QED
  BY <1>1, ServerInvariant, QueueStep, PTL DEF Spec, ImplementsQueue, Queue!QueueSpec
=============================================================================
