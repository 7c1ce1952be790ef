-------------------------- MODULE IdempotentService --------------------------
(***************************************************************************)
(* What the Idempotency-Key middleware promises the clients of an          *)
(* endpoint, without locks, stored responses and their times to live: each *)
(* request has at most one answer. It is the result of the request's own   *)
(* handler, or the answer that an earlier request with its key, path and   *)
(* request id was given, or a refusal, and a request with an answer of the *)
(* last two kinds never takes effect. Method and body are not compared.    *)
(***************************************************************************)
CONSTANTS
  Attempts,  \* HTTP requests, each retry one of its own
  Inputs,    \* the requests clients may send
  Absent     \* no header, no outcome, no answer

VARIABLES
  input,     \* input[a]: the request
  outcome,   \* outcome[a]: what the handler did for a
  answer     \* answer[a]: the attempt whose result a was told, or "busy"

serviceVars == <<input, outcome, answer>>

ServiceInit ==
  /\ input \in [Attempts -> Inputs]
  /\ outcome = [a \in Attempts |-> Absent]
  /\ answer = [a \in Attempts |-> Absent]

Open(a) == answer[a] = Absent

TakeEffect(a) ==
  /\ Open(a) /\ outcome[a] = Absent
  /\ \E o \in {"effect", "error", "limited"} : outcome' = [outcome EXCEPT ![a] = o]
  /\ UNCHANGED <<input, answer>>

AnswerOwn(a) ==
  /\ Open(a) /\ outcome[a] # Absent
  /\ answer' = [answer EXCEPT ![a] = a]
  /\ UNCHANGED <<input, outcome>>

\* b is taken for the same request as a, and its client has had the result.
Answers(b, a) == /\ a # b
                 /\ input[b].key = input[a].key /\ input[a].key # Absent
                 /\ input[b].path = input[a].path
                 /\ input[b].requestId = input[a].requestId /\ input[a].requestId # Absent
                 /\ answer[b] = b

AnswerAgain(a) ==
  /\ Open(a) /\ outcome[a] = Absent
  /\ \E b \in Attempts : Answers(b, a) /\ answer' = [answer EXCEPT ![a] = b]
  /\ UNCHANGED <<input, outcome>>

Refuse(a) ==
  /\ Open(a) /\ outcome[a] = Absent
  /\ input[a].key # Absent
  /\ answer' = [answer EXCEPT ![a] = "busy"]
  /\ UNCHANGED <<input, outcome>>

ServiceNext ==
  \E a \in Attempts : TakeEffect(a) \/ AnswerOwn(a) \/ AnswerAgain(a) \/ Refuse(a)

ServiceSpec == ServiceInit /\ [][ServiceNext]_serviceVars
=============================================================================
