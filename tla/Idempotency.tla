----------------------------- MODULE Idempotency -----------------------------
(***************************************************************************)
(* The Idempotency-Key middleware: look up a stored response, take a lock  *)
(* with a time to live, run the handler with res.json intercepted, and     *)
(* store the response and drop the lock without waiting for Redis.  The    *)
(* attempts are HTTP requests, retries included, served by any number of   *)
(* processes that share one Redis.                                         *)
(***************************************************************************)
EXTENDS Integers, FiniteSets

CONSTANTS
  Attempts,     \* HTTP requests, each retry one of its own
  Keys,         \* values of the idempotency-key header
  Paths,        \* paths of the API
  Routes,       \* the endpoints, method and path, that have a handler
  Silent,       \* the routes that succeed with res.send, never res.json
  Limited,      \* the routes behind authLimiter, whose 429 is sent by res.send
  RequestIds,   \* values of the x-request-id header
  Inputs,       \* the requests clients may send
  Faults,       \* faults that may happen: "expiry", "storeError", "crash", "resend"
  MaxFailures,  \* bound: how many faults other than an expiry may happen
  Absent        \* no header, no record, no answer

Methods == {"GET", "POST", "PUT", "PATCH", "DELETE"}

\* The methods the middleware applies to.
Guarded == {"POST", "PATCH", "DELETE"}

Request == [key : Keys \cup {Absent}, method : Methods, path : Paths,
            requestId : RequestIds \cup {Absent}]

ASSUME AttemptsAssumption == /\ IsFiniteSet(Attempts)
                             /\ Absent \notin Attempts \cup {"busy", "effect", "error", "limited"}
                             /\ "busy" \notin Attempts
                             /\ Attempts \cap RequestIds = {}
                             /\ Inputs \subseteq Request
                             /\ MaxFailures \in Nat

VARIABLES
  phase,     \* phase[a]: where the middleware and handler stand for a
  input,     \* input[a]: the request
  guarded,   \* attempts whose res.json is intercepted
  outcome,   \* outcome[a]: what the handler did, "effect", "error" or "limited"
  answer,    \* answer[a]: "busy" for a 409, or the attempt whose response was sent
  settling,  \* settling[a]: the next Redis command of the intercepted res.json
  lock,      \* storage keys whose lock exists in Redis
  record,    \* record[k]: the attempt whose response is stored under k
  failures,  \* how many faults other than an expiry happened
  lapsed,    \* history: how often the lock of k ended before it was given back or
             \* was bypassed
  met,       \* history: met[a], the attempts under way when a found no response
  forgotten  \* history: storage keys that a handler ran for and no response is kept of

history == <<lapsed, met, forgotten>>
vars == <<phase, input, guarded, outcome, answer, settling, lock, record, failures, history>>

\* Mutant of StorageKey: the request id is left out of the fingerprint.
StorageKeyWithoutRequestId(a, i) ==
  [key |-> i.key, path |-> i.path, requestId |-> CHOOSE r \in RequestIds : TRUE]

\* key + fingerprint of path and request id. The method is no part of it, nor is the
\* body: the middleware runs before the JSON parser. Without a header the id is a fresh
\* uuid. The hash is taken to be injective.
StorageKey(a, i) ==
  [key |-> i.key, path |-> i.path,
   requestId |-> IF i.requestId = Absent THEN a ELSE i.requestId]

StorageKeys == [key : Keys \cup {Absent}, path : Paths,
                requestId : RequestIds \cup Attempts]

KeyOf(a) == StorageKey(a, input[a])

TypeOK ==
  /\ phase \in [Attempts -> {"idle", "lookup", "locking", "running", "responding",
                             "answered", "crashed"}]
  /\ input \in [Attempts -> Request]
  /\ guarded \subseteq Attempts
  /\ outcome \in [Attempts -> {Absent, "effect", "error", "limited"}]
  /\ answer \in [Attempts -> Attempts \cup {Absent, "busy"}]
  /\ settling \in [Attempts -> {"none", "set", "unlock"}]
  /\ lock \subseteq StorageKeys
  /\ record \in [StorageKeys -> Attempts \cup {Absent}]
  /\ failures \in Nat
  /\ lapsed \in [StorageKeys -> Nat]
  /\ met \in [Attempts -> SUBSET Attempts]
  /\ forgotten \subseteq StorageKeys

Init ==
  /\ phase = [a \in Attempts |-> "idle"]
  /\ input \in [Attempts -> Inputs]
  /\ guarded = {}
  /\ outcome = [a \in Attempts |-> Absent]
  /\ answer = [a \in Attempts |-> Absent]
  /\ settling = [a \in Attempts |-> "none"]
  /\ lock = {}
  /\ record = [k \in StorageKeys |-> Absent]
  /\ failures = 0
  /\ lapsed = [k \in StorageKeys |-> 0]
  /\ met = [a \in Attempts |-> {}]
  /\ forgotten = {}

GoTo(a, p) == phase' = [phase EXCEPT ![a] = p]

Protected(a) == input[a].method \in Guarded /\ input[a].key # Absent

Endpoint(a) == [method |-> input[a].method, path |-> input[a].path]

\* Past the lookup, and the response not yet written.
UnderWay(a) == phase[a] \in {"locking", "running", "responding"} \/ settling[a] = "set"

Fails(fault) == /\ fault \in Faults
                /\ failures < MaxFailures
                /\ failures' = failures + 1

Forget(keys) == forgotten' = forgotten \cup keys

-----------------------------------------------------------------------------
Arrive(a) ==
  /\ phase[a] = "idle"
  /\ GoTo(a, IF Protected(a) THEN "lookup" ELSE "running")
  /\ UNCHANGED <<input, guarded, outcome, answer, settling, lock, record, failures, history>>

\* IdempotencyStore.get finds a response: it is sent again.
Replay(a) ==
  /\ phase[a] = "lookup"
  /\ record[KeyOf(a)] # Absent
  /\ answer' = [answer EXCEPT ![a] = record[KeyOf(a)]]
  /\ GoTo(a, "answered")
  /\ UNCHANGED <<input, guarded, outcome, settling, lock, record, failures, history>>

Miss(a) ==
  /\ phase[a] = "lookup"
  /\ record[KeyOf(a)] = Absent
  /\ GoTo(a, "locking")
  /\ met' = [met EXCEPT ![a] = {b \in Attempts : KeyOf(b) = KeyOf(a) /\ UnderWay(b)}]
  /\ UNCHANGED <<input, guarded, outcome, answer, settling, lock, record, failures,
                 lapsed, forgotten>>

\* Mutant of AcquireLock: SET without NX.
AcquireLockAlways(a) ==
  /\ phase[a] = "locking"
  /\ lock' = lock \cup {KeyOf(a)}
  /\ guarded' = guarded \cup {a}
  /\ GoTo(a, "running")
  /\ UNCHANGED <<input, outcome, answer, settling, record, failures, history>>

\* SET lock EX 30 NX answers OK: res.json is replaced and the handler runs.
AcquireLock(a) ==
  /\ phase[a] = "locking"
  /\ KeyOf(a) \notin lock
  /\ lock' = lock \cup {KeyOf(a)}
  /\ guarded' = guarded \cup {a}
  /\ GoTo(a, "running")
  /\ UNCHANGED <<input, outcome, answer, settling, record, failures, history>>

\* Mutant of Conflict: the lock is dropped on every way out.
ConflictUnlocks(a) ==
  /\ phase[a] = "locking"
  /\ KeyOf(a) \in lock
  /\ answer' = [answer EXCEPT ![a] = "busy"]
  /\ lock' = lock \ {KeyOf(a)}
  /\ GoTo(a, "answered")
  /\ UNCHANGED <<input, guarded, outcome, settling, record, failures, history>>

Conflict(a) ==
  /\ phase[a] = "locking"
  /\ KeyOf(a) \in lock
  /\ answer' = [answer EXCEPT ![a] = "busy"]
  /\ GoTo(a, "answered")
  /\ UNCHANGED <<input, guarded, outcome, settling, lock, record, failures, history>>

\* Redis answers with an error: the catch block runs the handler unguarded.
Bypass(a) ==
  /\ phase[a] \in {"lookup", "locking"}
  /\ Fails("storeError")
  /\ GoTo(a, "running")
  /\ Forget({KeyOf(a)})
  /\ lapsed' = [lapsed EXCEPT ![KeyOf(a)] = @ + 1]
  /\ UNCHANGED <<input, guarded, outcome, answer, settling, lock, record, met>>

\* What may come of a behind next(): notFound, a parser or the handler refuses it,
\* its handler takes effect, or authLimiter turns it away.
Outcomes(a) == {"error"} \cup (IF Endpoint(a) \in Routes THEN {"effect"} ELSE {})
                         \cup (IF Endpoint(a) \in Limited THEN {"limited"} ELSE {})

Execute(a) ==
  /\ phase[a] = "running"
  /\ \E o \in Outcomes(a) : outcome' = [outcome EXCEPT ![a] = o]
  /\ GoTo(a, "responding")
  /\ UNCHANGED <<input, guarded, answer, settling, lock, record, failures, history>>

\* Errors are answered with res.json (errorHandler, notFound and the other limiter), but
\* not the 429 of authLimiter, a string.
UsesJson(a) == \/ outcome[a] = "error"
               \/ outcome[a] = "effect" /\ Endpoint(a) \notin Silent

\* Mutant of Respond: only results are intercepted, errors are not stored.
RespondStoringResults(a) ==
  /\ phase[a] = "responding"
  /\ answer' = [answer EXCEPT ![a] = a]
  /\ settling' = [settling EXCEPT ![a] =
       IF a \in guarded /\ UsesJson(a) /\ outcome[a] = "effect" THEN "set" ELSE "none"]
  /\ Forget(IF UsesJson(a) THEN {} ELSE {KeyOf(a)})
  /\ GoTo(a, "answered")
  /\ UNCHANGED <<input, guarded, outcome, lock, record, failures, lapsed, met>>

\* The response leaves; the intercepted res.json has issued SETEX and DEL,
\* which Redis executes later, in that order.
Respond(a) ==
  /\ phase[a] = "responding"
  /\ answer' = [answer EXCEPT ![a] = a]
  /\ settling' = [settling EXCEPT
       ![a] = IF a \in guarded /\ UsesJson(a) THEN "set" ELSE "none"]
  /\ Forget(IF UsesJson(a) THEN {} ELSE {KeyOf(a)})
  /\ GoTo(a, "answered")
  /\ UNCHANGED <<input, guarded, outcome, lock, record, failures, lapsed, met>>

\* Mutant of SettleSet: the response is stored under the header alone.
SettleSetByHeader(a) ==
  /\ settling[a] = "set"
  /\ record' = [k \in StorageKeys |-> IF k.key = input[a].key THEN a ELSE record[k]]
  /\ settling' = [settling EXCEPT ![a] = "unlock"]
  /\ UNCHANGED <<phase, input, guarded, outcome, answer, lock, failures, history>>

SettleSet(a) ==
  /\ settling[a] = "set"
  /\ \/ record' = [record EXCEPT ![KeyOf(a)] = a] /\ UNCHANGED <<failures, forgotten>>
     \/ Fails("storeError") /\ Forget({KeyOf(a)}) /\ UNCHANGED record
  /\ settling' = [settling EXCEPT ![a] = "unlock"]
  /\ UNCHANGED <<phase, input, guarded, outcome, answer, lock, lapsed, met>>

\* DEL removes the lock, whoever holds it by now.
SettleUnlock(a) ==
  /\ settling[a] = "unlock"
  /\ lock' = lock \ {KeyOf(a)}
  /\ settling' = [settling EXCEPT ![a] = "none"]
  /\ UNCHANGED <<phase, input, guarded, outcome, answer, record, failures, history>>

\* A process still works on a.
InFlight(a) == phase[a] \notin {"idle", "answered", "crashed"} \/ settling[a] # "none"

\* The process serving a dies, with the Redis commands it had not sent.
Crash(a) ==
  /\ Fails("crash")
  /\ InFlight(a)
  /\ phase' = [phase EXCEPT ![a] = IF @ = "answered" THEN @ ELSE "crashed"]
  /\ settling' = [settling EXCEPT ![a] = "none"]
  /\ Forget(IF phase[a] \in {"running", "responding"} \/ settling[a] = "set"
            THEN {KeyOf(a)} ELSE {})
  /\ UNCHANGED <<input, guarded, outcome, answer, lock, record, lapsed, met>>

\* Redis executes a command and the connection drops before the reply: ioredis
\* sends the command again, and what comes next is the reply to the second one.
ReplyLost(a) ==
  /\ Fails("resend")
  /\ \/ /\ phase[a] = "locking" /\ KeyOf(a) \notin lock
        /\ lock' = lock \cup {KeyOf(a)}
        /\ UNCHANGED <<record, lapsed>>
     \/ /\ settling[a] = "set"
        /\ record' = [record EXCEPT ![KeyOf(a)] = a]
        /\ UNCHANGED <<lock, lapsed>>
     \/ /\ settling[a] = "unlock" /\ KeyOf(a) \in lock
        /\ lock' = lock \ {KeyOf(a)}
        /\ lapsed' = [lapsed EXCEPT ![KeyOf(a)] = @ + 1]
        /\ UNCHANGED record
  /\ UNCHANGED <<phase, input, guarded, outcome, answer, settling, met, forgotten>>

\* Redis drops a lock after 30 seconds and a response after 24 hours.
ExpireLock(k) ==
  /\ "expiry" \in Faults
  /\ k \in lock
  /\ lock' = lock \ {k}
  /\ lapsed' = [lapsed EXCEPT ![k] = @ + 1]
  /\ UNCHANGED <<phase, input, guarded, outcome, answer, settling, record, failures,
                 met, forgotten>>

ExpireRecord(k) ==
  /\ "expiry" \in Faults
  /\ record[k] # Absent
  /\ record' = [record EXCEPT ![k] = Absent]
  /\ Forget({k})
  /\ UNCHANGED <<phase, input, guarded, outcome, answer, settling, lock, failures,
                 lapsed, met>>

-----------------------------------------------------------------------------
\* What the middleware does around next().
Serve(a) == \/ Replay(a) \/ Miss(a) \/ AcquireLock(a) \/ Conflict(a) \/ Bypass(a)
            \/ Respond(a)

Settle(a) == SettleSet(a) \/ SettleUnlock(a)

RedisNext == \/ \E a \in Attempts : ReplyLost(a)
             \/ \E k \in StorageKeys : ExpireLock(k) \/ ExpireRecord(k)

Next == \/ \E a \in Attempts : Arrive(a) \/ Serve(a) \/ Execute(a) \/ Settle(a) \/ Crash(a)
        \/ RedisNext

Spec == Init /\ [][Next]_vars

-----------------------------------------------------------------------------
(* Properties.                                                             *)

\* Attempts whose handler was let in under k, with the lock of k or past it, and has
\* not answered or not settled.
HandlersOf(k) == {a \in Attempts : /\ Protected(a) /\ KeyOf(a) = k
                                   /\ \/ phase[a] \in {"running", "responding"}
                                      \/ settling[a] # "none"}

\* Attempts that took the lock of k and have not given it back.
Holding(k) == {a \in guarded : /\ KeyOf(a) = k
                               /\ \/ phase[a] \in {"running", "responding"}
                                  \/ settling[a] # "none"}

\* Handlers of one storage key, those that hold its lock and those that an error of
\* Redis let past it, overlap only as often as the lock has ended under its holder, by
\* its time to live or by a DEL whose reply was lost, or was bypassed: an unlock that
\* removes another attempt's lock (DEL does not check the owner) never lets in more
\* than that end of the lock already did.
OverlapBoundedByLapses ==
  \A k \in StorageKeys :
    Cardinality(HandlersOf(k)) <= (IF k \in lock THEN 1 ELSE 0) + lapsed[k]

\* An attempt is guarded once it took a lock, and settles after it answered.
GuardedRan ==
  /\ \A a \in guarded : phase[a] \in {"running", "responding", "answered", "crashed"}
  /\ \A a \in Attempts : a \in guarded \/ phase[a] \in {"lookup", "locking"} => Protected(a)
  /\ \A a \in Attempts : settling[a] # "none" => a \in guarded /\ phase[a] = "answered"

\* Inductive: whoever settles has taken a lock and answered, so the bound on
\* overlapping handlers can be kept by counting.
LockInv == TypeOK /\ GuardedRan /\ OverlapBoundedByLapses

\* A replayed response is the one an earlier attempt with the same key, path and
\* request id sent to its own client. Its method and body may have been others.
ReplayIsFaithful ==
  \A a, b \in Attempts : answer[a] = b /\ a # b =>
    /\ answer[b] = b /\ outcome[b] # Absent
    /\ input[a].key = input[b].key /\ input[a].path = input[b].path
    /\ input[a].requestId = input[b].requestId /\ input[a].requestId # Absent

\* Inductive: a stored response is the one its attempt sent under that key.
ReplayInv ==
  /\ TypeOK
  /\ \A a \in Attempts :
       /\ phase[a] = "responding" => outcome[a] # Absent
       /\ answer[a] # Absent => phase[a] = "answered"
       /\ answer[a] = a => outcome[a] # Absent
       /\ settling[a] # "none" => answer[a] = a
       /\ answer[a] \in Attempts => /\ KeyOf(answer[a]) = KeyOf(a)
                                    /\ answer[answer[a]] = answer[a]
  /\ \A k \in StorageKeys : record[k] # Absent =>
       KeyOf(record[k]) = k /\ answer[record[k]] = record[k]

\* Handlers of one storage key run twice only if the two attempts overlapped, one
\* having found no response while the other was under way, or the response of a
\* handler was not kept (a failed or expired SETEX, a crash, res.send, be it the 204 of a
\* DELETE or the 429 of authLimiter, Redis down).
\* A retry sent after an answer, be it a 500, and after its SETEX never runs again.
SecondRunNeedsOverlap ==
  \A a, b \in Attempts :
    /\ a # b /\ Protected(a) /\ Protected(b) /\ KeyOf(a) = KeyOf(b)
    /\ outcome[a] # Absent /\ outcome[b] # Absent
    => b \in met[a] \/ a \in met[b] \/ KeyOf(a) \in forgotten

\* a is past its lookup for good: it may run or has run its handler.
Entered(a) == UnderWay(a) \/ outcome[a] # Absent

\* Inductive: an attempt that ran has left a response or is remembered as one
\* that has not, so that a later lookup finds the one or the other.
RunInv ==
  /\ TypeOK
  /\ \A a \in Attempts :
       /\ settling[a] # "none" => outcome[a] # Absent /\ phase[a] = "answered"
       /\ phase[a] \in {"lookup", "locking"} => Protected(a)
       /\ phase[a] \in {"idle", "lookup", "locking", "running"} => outcome[a] = Absent
       /\ phase[a] = "responding" => outcome[a] # Absent
       /\ Protected(a) /\ phase[a] \in {"running", "responding"} =>
            a \in guarded \/ KeyOf(a) \in forgotten
       /\ Protected(a) /\ outcome[a] # Absent /\ ~UnderWay(a) =>
            record[KeyOf(a)] # Absent \/ KeyOf(a) \in forgotten
  /\ \A a, b \in Attempts :
       /\ a # b /\ Protected(a) /\ Protected(b) /\ KeyOf(a) = KeyOf(b)
       /\ Entered(a) /\ Entered(b)
       => b \in met[a] \/ a \in met[b] \/ KeyOf(a) \in forgotten

\* Inductive: what is known of the locks, the stored responses and the runs.
MiddlewareInv == LockInv /\ ReplayInv /\ RunInv

\* A lock stands for an attempt that is being served, so that a 409 names a real
\* conflict, as long as nothing failed and no attempt was answered with res.send (the 204
\* of DELETE /products/:id, the 429 of authLimiter): all other answers give the lock
\* back, errors like results, and so does an attempt that outlived its lock.
LocksHaveOwners ==
  \A k \in lock :
    \/ Holding(k) # {}
    \/ failures > 0
    \/ \E a \in guarded : KeyOf(a) = k /\ phase[a] = "answered" /\ ~UsesJson(a)

Service == INSTANCE IdempotentService

\* The middleware implements the service: however lookups, locks and stored
\* responses interleave, fail and expire, a request told of a conflict or sent an
\* earlier answer never reaches the handler, the earlier answer is that of a request with
\* the same key, path and request id, and no request is answered twice.
ImplementsService == Service!ServiceSpec

\* VIOLATED, even when the retry repeats the request id and nothing fails:
\* README.md:32 promises atomic execution per Idempotency-Key, but the lookup
\* comes before the lock, so a retry that looked up before the response was
\* stored may lock after the first attempt unlocked.
KeyExecutesOnce ==
  \A a, b \in Attempts :
    /\ KeyOf(a) = KeyOf(b) /\ input[a].key # Absent
    /\ outcome[a] = "effect" /\ outcome[b] = "effect"
    => a = b
=============================================================================
