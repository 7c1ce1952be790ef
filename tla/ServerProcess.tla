---------------------------- MODULE ServerProcess ----------------------------
(***************************************************************************)
(* The life of the server processes: start, work and the two ways a signal *)
(* ends them. SIGTERM has two handlers, the graceful shutdown of server.ts *)
(* and the one of the tracing, which exits as soon as its exporter is      *)
(* flushed. What a process has in flight when it ends is told by the two   *)
(* kinds of work it does: GET /health requests, which ask the database and *)
(* Redis, and jobs of order-queue, which BullMQ gives to another worker    *)
(* when their lock is lost. The database answers or fails at any time.     *)
(***************************************************************************)
EXTENDS Integers, FiniteSets

CONSTANTS
  Nodes,       \* server processes
  Probes,      \* GET /health requests
  Jobs,        \* jobs waiting in order-queue
  MaxStalled,  \* BullMQ's maxStalledCount, 1 by default
  MaxStarts,   \* bound: starts of a process
  MaxOutages,  \* bound: outages of Redis
  None

ASSUME ServerAssumption == /\ None \notin Nodes /\ None \notin Jobs
                           /\ {MaxStalled, MaxStarts, MaxOutages} \subseteq Nat

VARIABLES
  node,      \* node[n]: "off", "starting" (not listening yet) or "up"
  tracing,   \* processes whose tracing handler has been called
  drain,     \* drain[n]: what shutdown waits for, "none" before the signal
  running,   \* running[n]: the job that the worker of n is processing
  state,     \* state[j]: the list of order-queue that j is in
  lock,      \* lock[j]: the process that has the lock of the active job j
  stalls,    \* stalls[j]: how often j was found active without its lock
  probe,     \* probe[p]: the process asked, the checks it waits for, healthStatus.status
             \* and the answer
  redisUp,
  starts,    \* number of starts
  outages,   \* number of outages of Redis
  rough      \* history: exits that were not the end of a complete shutdown

nodeVars  == <<node, tracing, drain, starts, rough>>
jobVars   == <<running, state, lock, stalls>>
redisVars == <<redisUp, outages>>
vars      == <<nodeVars, jobVars, redisVars, probe>>

Checks == {"database", "redis"}

ProbeType == [at : Nodes \cup {None}, waiting : SUBSET Checks, status : {"UP", "DEGRADED"},
              answer : {"unsent", "none", "UP", "DEGRADED", "cut"}]

\* A probe that no process is serving.
Resting(answer) == [at |-> None, waiting |-> {}, status |-> "UP", answer |-> answer]

TypeOK ==
  /\ node \in [Nodes -> {"off", "starting", "up"}]
  /\ tracing \subseteq Nodes
  /\ drain \in [Nodes -> {"none", "http", "worker", "done"}]
  /\ running \in [Nodes -> Jobs \cup {None}]
  /\ state \in [Jobs -> {"waiting", "active", "completed", "failed"}]
  /\ lock \in [Jobs -> Nodes \cup {None}]
  /\ stalls \in [Jobs -> Nat]
  /\ probe \in [Probes -> ProbeType]
  /\ redisUp \in BOOLEAN
  /\ {starts, outages, rough} \subseteq Nat

Init ==
  /\ node = [n \in Nodes |-> "off"]
  /\ tracing = {}
  /\ drain = [n \in Nodes |-> "none"]
  /\ running = [n \in Nodes |-> None]
  /\ state = [j \in Jobs |-> "waiting"]
  /\ lock = [j \in Jobs |-> None]
  /\ stalls = [j \in Jobs |-> 0]
  /\ probe = [p \in Probes |-> Resting("unsent")]
  /\ redisUp = TRUE
  /\ starts = 0 /\ outages = 0 /\ rough = 0

Pending(p) == probe[p].answer = "none"

PendingAt(n) == {p \in Probes : Pending(p) /\ probe[p].at = n}

-----------------------------------------------------------------------------
(* The process.                                                            *)

Start(n) ==
  /\ node[n] = "off" /\ starts < MaxStarts
  /\ node' = [node EXCEPT ![n] = "starting"]
  /\ starts' = starts + 1
  /\ UNCHANGED <<tracing, drain, rough, jobVars, redisVars, probe>>

\* connectDatabase succeeds; connectRedis never fails and never waits for Redis.
Listen(n) ==
  /\ node[n] = "starting"
  /\ node' = [node EXCEPT ![n] = "up"]
  /\ UNCHANGED <<tracing, drain, starts, rough, jobVars, redisVars, probe>>

\* The process ends, with what it has in flight; a lock it had stays in Redis.
Exit(n) ==
  /\ node' = [node EXCEPT ![n] = "off"]
  /\ tracing' = tracing \ {n}
  /\ drain' = [drain EXCEPT ![n] = "none"]
  /\ running' = [running EXCEPT ![n] = None]
  /\ probe' = [p \in Probes |->
       IF p \in PendingAt(n) THEN Resting("cut") ELSE probe[p]]
  /\ UNCHANGED <<state, lock, stalls, starts, redisVars>>

\* connectDatabase fails, SIGINT finds no handler yet, or the process crashes.
Crash(n) == node[n] # "off" /\ Exit(n) /\ rough' = rough + 1

\* SIGTERM, or SIGINT once the process has a handler for it. A second signal
\* closes the server again, which changes nothing.
Signal(n) ==
  /\ node[n] # "off"
  /\ \/ tracing' = tracing \cup {n}
     \/ node[n] = "up" /\ tracing' = tracing
  /\ drain' = [drain EXCEPT ![n] = IF @ = "none" /\ node[n] = "up" THEN "http" ELSE @]
  /\ UNCHANGED <<node, starts, rough, jobVars, redisVars, probe>>

\* sdk.shutdown has settled: process.exit(0), whatever is in flight.
TracingExits(n) == n \in tracing /\ Exit(n) /\ rough' = rough + 1

\* Mutant of HttpCloses: requests in flight are not waited for.
HttpClosesAtOnce(n) ==
  /\ drain[n] = "http"
  /\ drain' = [drain EXCEPT ![n] = "worker"]
  /\ UNCHANGED <<node, tracing, starts, rough, jobVars, redisVars, probe>>

\* Every connection has ended, those of websockets too: these may last.
HttpCloses(n) ==
  /\ drain[n] = "http" /\ PendingAt(n) = {}
  /\ drain' = [drain EXCEPT ![n] = "worker"]
  /\ UNCHANGED <<node, tracing, starts, rough, jobVars, redisVars, probe>>

\* Mutant of WorkerCloses: worker.close() is not awaited.
WorkerClosesAtOnce(n) ==
  /\ drain[n] = "worker"
  /\ drain' = [drain EXCEPT ![n] = "done"]
  /\ UNCHANGED <<node, tracing, starts, rough, jobVars, redisVars, probe>>

\* worker.close() waits for the job in hand.
WorkerCloses(n) ==
  /\ drain[n] = "worker" /\ running[n] = None
  /\ drain' = [drain EXCEPT ![n] = "done"]
  /\ UNCHANGED <<node, tracing, starts, rough, jobVars, redisVars, probe>>

ShutdownExits(n) == drain[n] = "done" /\ Exit(n) /\ UNCHANGED rough

\* Mutant of ForceExits: the timer is started when the server has closed.
ForceExitsAfterHttp(n) ==
  drain[n] \in {"worker", "done"} /\ Exit(n) /\ rough' = rough + 1

\* The 10 s timer started with the shutdown.
ForceExits(n) == drain[n] # "none" /\ Exit(n) /\ rough' = rough + 1

-----------------------------------------------------------------------------
(* GET /health.                                                            *)

Probe(p, n) ==
  /\ probe[p].answer = "unsent"
  /\ node[n] = "up" /\ drain[n] = "none"
  /\ probe' = [probe EXCEPT ![p] =
       [at |-> n, waiting |-> Checks, status |-> "UP", answer |-> "none"]]
  /\ UNCHANGED <<nodeVars, jobVars, redisVars>>

\* The check returns, or its catch sets the status.
Returns(p, check) ==
  /\ Pending(p) /\ check \in probe[p].waiting
  /\ \E status \in {probe[p].status, "DEGRADED"} :
       probe' = [probe EXCEPT ![p].waiting = @ \ {check}, ![p].status = status]
  /\ UNCHANGED <<nodeVars, jobVars, redisVars>>

CheckDatabase(p) == Returns(p, "database")

\* PING and INFO, on one connection, have been replied to. An error reply to PING is
\* caught and makes the answer 503; one to INFO is caught and changes only the body. With
\* maxRetriesPerRequest: null both commands wait for as long as Redis is away.
CheckRedis(p) == redisUp /\ Returns(p, "redis")

\* Mutant of Answer: the checks have no catch, and Promise.all rejects.
AnswerUncaught(p) ==
  /\ Pending(p) /\ probe[p].waiting = {} /\ probe[p].status = "UP"
  /\ probe' = [probe EXCEPT ![p] = Resting("UP")]
  /\ UNCHANGED <<nodeVars, jobVars, redisVars>>

Answer(p) ==
  /\ Pending(p) /\ probe[p].waiting = {}
  /\ probe' = [probe EXCEPT ![p] = Resting(probe[p].status)]
  /\ UNCHANGED <<nodeVars, jobVars, redisVars>>

-----------------------------------------------------------------------------
(* The worker of a process, active from the import of its module on; it    *)
(* processes one job at a time.                                            *)

Working(n) == node[n] # "off" /\ drain[n] \in {"none", "http"}

Fetch(n, j) ==
  /\ Working(n) /\ running[n] = None /\ redisUp
  /\ state[j] = "waiting"
  /\ state' = [state EXCEPT ![j] = "active"]
  /\ lock' = [lock EXCEPT ![j] = n]
  /\ running' = [running EXCEPT ![n] = j]
  /\ UNCHANGED <<stalls, nodeVars, redisVars, probe>>

\* Mutant of Finish: the result counts although the lock is lost.
FinishWithoutLock(n) ==
  /\ running[n] # None /\ redisUp
  /\ state' = [state EXCEPT ![running[n]] = "completed"]
  /\ running' = [running EXCEPT ![n] = None]
  /\ UNCHANGED <<lock, stalls, nodeVars, redisVars, probe>>

\* process never throws: the job is completed, if n still has its lock.
Finish(n) ==
  /\ running[n] # None /\ redisUp
  /\ LET j == running[n]
     IN state' = [state EXCEPT ![j] =
          IF @ = "active" /\ lock[j] = n THEN "completed" ELSE @]
  /\ running' = [running EXCEPT ![n] = None]
  /\ UNCHANGED <<lock, stalls, nodeVars, redisVars, probe>>

Stalled(j) == state[j] = "active" /\ ~\E n \in Nodes : lock[j] = n /\ running[n] = j

\* Mutant of RecoverStalled: the worker does not look for jobs without a lock.
RecoverNothing(n, j) == FALSE

\* A worker finds j active and its lock expired.
RecoverStalled(n, j) ==
  /\ Working(n) /\ redisUp
  /\ Stalled(j)
  /\ stalls' = [stalls EXCEPT ![j] = @ + 1]
  /\ state' = [state EXCEPT ![j] = IF stalls[j] < MaxStalled THEN "waiting" ELSE "failed"]
  /\ lock' = [lock EXCEPT ![j] = None]
  /\ UNCHANGED <<running, nodeVars, redisVars, probe>>

-----------------------------------------------------------------------------
(* Redis.                                                                  *)

RedisFails ==
  /\ redisUp /\ outages < MaxOutages
  /\ redisUp' = FALSE
  /\ outages' = outages + 1
  /\ UNCHANGED <<nodeVars, jobVars, probe>>

\* The outage outlasts the 30 s of a lock, which its worker cannot extend.
LockExpires(j) ==
  /\ ~redisUp /\ lock[j] # None
  /\ lock' = [lock EXCEPT ![j] = None]
  /\ UNCHANGED <<running, state, stalls, nodeVars, redisVars, probe>>

RedisReturns ==
  /\ ~redisUp
  /\ redisUp' = TRUE
  /\ UNCHANGED <<outages, nodeVars, jobVars, probe>>

-----------------------------------------------------------------------------
Exits(n) == TracingExits(n) \/ ShutdownExits(n) \/ ForceExits(n)

ProcessStep(n) == Start(n) \/ Listen(n) \/ Crash(n) \/ Signal(n) \/ HttpCloses(n)
                  \/ WorkerCloses(n)

HealthStep(p) == CheckDatabase(p) \/ CheckRedis(p) \/ Answer(p)

WorkerStep(n) == Finish(n) \/ \E j \in Jobs : Fetch(n, j) \/ RecoverStalled(n, j)

Next ==
  \/ \E n \in Nodes : \/ ProcessStep(n) \/ Exits(n) \/ WorkerStep(n)
                      \/ \E p \in Probes : Probe(p, n)
  \/ \E p \in Probes : HealthStep(p)
  \/ \E j \in Jobs : LockExpires(j)
  \/ RedisFails \/ RedisReturns

Spec == Init /\ [][Next]_vars

\* Timers fire, the exporter settles or times out, checks get their answers and a
\* running worker goes on. Nothing says that connections close, that anybody
\* starts a process again, or that Redis comes back.
Fairness == /\ \A n \in Nodes : WF_vars(Exits(n)) /\ WF_vars(WorkerStep(n))
            /\ \A p \in Probes : WF_vars(HealthStep(p))

FairSpec == Spec /\ Fairness

-----------------------------------------------------------------------------
(* Properties.                                                             *)

\* A process that a complete shutdown ends has no request and no job in hand: no
\* request of its was cut and no job was left without its worker. (What the code does not
\* await, the orderQueue.add of an order, SETEX and DEL, the shutdown does not know of.)
DrainedIsEmpty ==
  \A n \in Nodes : /\ drain[n] \in {"worker", "done"} => PendingAt(n) = {}
                   /\ drain[n] = "done" => running[n] = None

\* How often the job j has been lost: found so, or waiting to be found.
Losses(j) == stalls[j] + (IF Stalled(j) THEN 1 ELSE 0)

\* Every loss of a job is due to an exit other than a complete shutdown or to an
\* outage of Redis, and to one of its own: a job is given up only after more than
\* MaxStalled of them, and is delivered at most once more than it was lost.
LossesAreRough ==
  \A j \in Jobs : /\ Losses(j) <= rough + outages
                  /\ state[j] = "failed" <=> stalls[j] > MaxStalled

\* Inductive: the outage under way has not been charged to a job that is in hand.
ServerInv ==
  /\ TypeOK /\ DrainedIsEmpty /\ LossesAreRough
  /\ \A n \in Nodes : /\ node[n] = "off" =>
                           running[n] = None /\ PendingAt(n) = {} /\ n \notin tracing
                      /\ node[n] # "up" => drain[n] = "none" /\ PendingAt(n) = {}
  /\ \A j \in Jobs : ~redisUp /\ ~Stalled(j) => stalls[j] < rough + outages

\* What became of the current delivery of each job.
Delivery == [j \in Jobs |->
  IF state[j] = "active" THEN IF Stalled(j) THEN "lost" ELSE "taken" ELSE state[j]]

Queue == INSTANCE JobQueue WITH delivery <- Delivery, losses <- stalls

\* The workers implement the job queue, whatever processes end and however long Redis
\* is away: a process that goes on with a job after its lock was lost completes
\* nothing, and takes nothing from the worker that has the job by then.
ImplementsQueue == Queue!QueueSpec

\* Whoever has got a signal ends, even if websockets, requests or a job keep the
\* shutdown from completing and Redis is away.
SignalledProcessEnds ==
  \A n \in Nodes : (n \in tracing \/ drain[n] # "none") ~> node[n] = "off"

\* With a worker running and Redis there for good, every job of the queue is
\* completed or given up, whatever was lost before.
JobsAreFinished ==
  <>[](redisUp /\ \E n \in Nodes : Working(n))
    => \A j \in Jobs : <>(state[j] \in {"completed", "failed"})

\* GET /health is answered, 503 if a check fails, or its process ends, once Redis is there
\* for good, whatever the database and Redis reply and however the process shuts down.
ProbesAreAnswered == <>[]redisUp => \A p \in Probes : []<>~Pending(p)
=============================================================================
