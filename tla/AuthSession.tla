----------------------------- MODULE AuthSession -----------------------------
(***************************************************************************)
(* The sessions of one account: register, login, refresh and logout from   *)
(* several devices share the one refresh token that Redis keeps for the    *)
(* user.  No step holds a lock from its check to its write.  Accounts do   *)
(* not interact, so one stands for all.                                    *)
(***************************************************************************)
EXTENDS Integers, FiniteSets

CONSTANTS
  Devices,   \* clients of the user, each with one request in flight
  MaxTime    \* bound: seconds of the clock

ASSUME TimeAssumption == MaxTime \in Nat \ {0}

\* A token is the second it was signed in: the rest of its payload is the same
\* in every token of the account, so two signed in one second are equal.
Token == 1..MaxTime

NoToken == 0

VARIABLES
  account,   \* whether the User row exists on the primary
  replica,   \* whether the replica has it
  refresh,   \* the token under refresh:<userId>, or NoToken
  held,      \* held[d]: the refresh token in the last answer d received
  request,   \* request[d]: the request in flight: step, entry and token
  now,       \* the clock
  ended,     \* history: the user logged out and has not logged in since
  late,      \* history: devices whose request was under way at the last logout
  back,      \* history: such a request has saved its token since
  orphaned   \* history: the stored token was saved but never delivered

redisVars == <<refresh, ended, late, back, orphaned>>
vars == <<account, replica, held, request, now, redisVars>>

Steps == {"idle", "hashing", "checked", "signing", "saving", "saved"}

RequestType == [step : Steps, entry : BOOLEAN, token : Token \cup {NoToken}]

Idle == [step |-> "idle", entry |-> FALSE, token |-> NoToken]

TypeOK ==
  /\ account \in BOOLEAN /\ replica \in BOOLEAN
  /\ refresh \in Token \cup {NoToken}
  /\ held \in [Devices -> Token \cup {NoToken}]
  /\ request \in [Devices -> RequestType]
  /\ now \in Token
  /\ ended \in BOOLEAN /\ back \in BOOLEAN /\ orphaned \in BOOLEAN
  /\ late \subseteq Devices

Init ==
  /\ account = FALSE /\ replica = FALSE
  /\ refresh = NoToken
  /\ held = [d \in Devices |-> NoToken]
  /\ request = [d \in Devices |-> Idle]
  /\ now = 1
  /\ ended = FALSE /\ late = {} /\ back = FALSE /\ orphaned = FALSE

\* A new request of d; entry says that it is a login or a registration.
Begin(d, step, entry) ==
  /\ request[d] = Idle
  /\ request' = [request EXCEPT
       ![d] = [step |-> step, entry |-> entry, token |-> NoToken]]

GoTo(d, step) == request' = [request EXCEPT ![d].step = step]

\* d is answered, or its request dies: either way it is no longer late.
End(d) == request' = [request EXCEPT ![d] = Idle]

\* Requests that are past their check and have not written yet.
UnderWay == {d \in Devices : request[d].step \in {"hashing", "checked", "signing", "saving"}}

-----------------------------------------------------------------------------
\* findUnique(email) at the replica finds nothing; if it does, 409 at once.
Register(d) ==
  /\ ~replica
  /\ Begin(d, "hashing", TRUE)
  /\ UNCHANGED <<account, replica, held, now, redisVars>>

CreateUser(d) ==
  /\ request[d].step = "hashing"
  /\ ~account
  /\ account' = TRUE
  /\ GoTo(d, "signing")
  /\ UNCHANGED <<replica, held, now, redisVars>>

\* The replica did not know the email but the primary does: P2002, answered 409.
DuplicateEmail(d) ==
  /\ request[d].step = "hashing"
  /\ account
  /\ End(d)
  /\ late' = late \ {d}
  /\ UNCHANGED <<account, replica, held, now, refresh, ended, back, orphaned>>

\* The right password of an account the replica has; anything else is a 401.
Login(d) ==
  /\ replica
  /\ Begin(d, "signing", TRUE)
  /\ UNCHANGED <<account, replica, held, now, redisVars>>

\* Mutant of Refresh: what Redis holds is not compared with the token.
RefreshUnchecked(d) ==
  /\ held[d] # NoToken
  /\ Begin(d, "checked", FALSE)
  /\ UNCHANGED <<account, replica, held, now, redisVars>>

\* redis.get returns the very token that d presents; if not, 401.
Refresh(d) ==
  /\ held[d] # NoToken
  /\ refresh = held[d]
  /\ Begin(d, "checked", FALSE)
  /\ UNCHANGED <<account, replica, held, now, redisVars>>

\* findById reads the replica: a user it has not got yet is refused.
FindUser(d) ==
  /\ request[d].step = "checked"
  /\ IF replica THEN GoTo(d, "signing") ELSE End(d)
  /\ late' = IF replica THEN late ELSE late \ {d}
  /\ UNCHANGED <<account, replica, held, now, refresh, ended, back, orphaned>>

GenerateTokens(d) ==
  /\ request[d].step = "signing"
  /\ request' = [request EXCEPT ![d].step = "saving", ![d].token = now]
  /\ UNCHANGED <<account, replica, held, now, redisVars>>

\* Mutant of SaveRefreshToken: the stored token is signed apart from the answered one.
SaveRefreshTokenResigned(d) ==
  /\ request[d].step = "saving"
  /\ refresh' = now
  /\ GoTo(d, "saved")
  /\ IF d \in late
     THEN back' = TRUE /\ UNCHANGED ended
     ELSE /\ ended' = (ended /\ ~request[d].entry)
          /\ UNCHANGED back
  /\ late' = late \ {d}
  /\ orphaned' = FALSE
  /\ UNCHANGED <<account, replica, held, now>>

\* The SET overwrites whatever is there by now.
SaveRefreshToken(d) ==
  /\ request[d].step = "saving"
  /\ refresh' = request[d].token
  /\ GoTo(d, "saved")
  /\ IF d \in late
     THEN back' = TRUE /\ UNCHANGED ended
     ELSE /\ ended' = (ended /\ ~request[d].entry)
          /\ UNCHANGED back
  /\ late' = late \ {d}
  /\ orphaned' = FALSE
  /\ UNCHANGED <<account, replica, held, now>>

Answer(d) ==
  /\ request[d].step = "saved"
  /\ held' = [held EXCEPT ![d] = request[d].token]
  /\ End(d)
  /\ UNCHANGED <<account, replica, now, redisVars>>

\* The access token of the same answer is accepted, for a user that exists.
Authenticated(d) == held[d] # NoToken /\ account

\* Mutant of Logout: the client drops its tokens and Redis keeps the key.
LogoutKeepsKey(d) ==
  /\ request[d] = Idle /\ Authenticated(d)
  /\ held' = [held EXCEPT ![d] = NoToken]
  /\ ended' = TRUE /\ back' = FALSE /\ orphaned' = FALSE
  /\ late' = UnderWay
  /\ UNCHANGED <<account, replica, refresh, request, now>>

\* The DEL of an authenticated device.
Logout(d) ==
  /\ request[d] = Idle /\ Authenticated(d)
  /\ refresh' = NoToken
  /\ ended' = TRUE /\ back' = FALSE /\ orphaned' = FALSE
  /\ late' = UnderWay
  /\ UNCHANGED <<account, replica, held, request, now>>

\* The primary, the replica or Redis fails the request, or its process dies.
\* After the SET the client never sees the token that Redis now asks for.
RequestFails(d) ==
  /\ request[d] # Idle
  /\ End(d)
  /\ late' = late \ {d}
  /\ orphaned' = (orphaned \/ request[d].step = "saved")
  /\ UNCHANGED <<account, replica, held, now, refresh, ended, back>>

\* The seven days of a stored token are over.
ExpireToken ==
  /\ refresh # NoToken
  /\ refresh' = NoToken
  /\ orphaned' = FALSE
  /\ UNCHANGED <<account, replica, held, request, now, ended, late, back>>

Replicate ==
  /\ account /\ ~replica
  /\ replica' = TRUE
  /\ UNCHANGED <<account, held, request, now, redisVars>>

Tick ==
  /\ now < MaxTime
  /\ now' = now + 1
  /\ UNCHANGED <<account, replica, held, request, redisVars>>

Next ==
  \/ \E d \in Devices :
       \/ Register(d) \/ CreateUser(d) \/ DuplicateEmail(d) \/ Login(d)
       \/ Refresh(d) \/ FindUser(d) \/ GenerateTokens(d) \/ SaveRefreshToken(d)
       \/ Answer(d) \/ Logout(d) \/ RequestFails(d)
  \/ ExpireToken \/ Replicate \/ Tick

Spec == Init /\ [][Next]_vars

-----------------------------------------------------------------------------
(* Properties.                                                             *)

\* After a logout the account stays logged out until somebody logs in, except
\* through a request that was already past its check when the logout came: a
\* refresh between its GET and its SET brings the session back.
LogoutSticks == ended /\ refresh # NoToken => back

\* A refresh that no logout overtook has found a token: with the user logged
\* out, one that a late request had brought back.
ChecksFollowTheToken ==
  /\ late \subseteq UnderWay
  /\ \A d \in UnderWay \ late : ended /\ ~request[d].entry => back

\* The token that d has once the answer on its way, if there is one, arrives.
LastToken(d) == IF request[d].step = "saved" THEN request[d].token ELSE held[d]

\* However logins and refreshes of several devices overlap, the token that Redis
\* will accept next is one that some device has or is about to get: overlapping
\* requests never lock everybody out. Only a lost answer does.
TokenIsHeld ==
  refresh # NoToken => orphaned \/ \E d \in Devices : LastToken(d) = refresh

\* Who signs or has a token has an account, and a signed token is a real one.
AccountFirst ==
  /\ replica => account
  /\ \A d \in Devices :
       /\ held[d] # NoToken => account
       /\ request[d].step \in {"checked", "signing", "saving", "saved"} => account
       /\ request[d].step \in {"saving", "saved"} => request[d].token # NoToken

\* Inductive: what each request in flight knows still holds, or a logout is to blame.
SessionInv == /\ TypeOK /\ AccountFirst /\ ChecksFollowTheToken
              /\ LogoutSticks /\ TokenIsHeld
=============================================================================
