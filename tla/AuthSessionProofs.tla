-------------------------- MODULE AuthSessionProofs --------------------------
(***************************************************************************)
(* SessionInv is inductive: every request in flight carries what it was    *)
(* allowed to do when it was checked, and the history variables say which  *)
(* logout has overtaken it.                                                *)
(***************************************************************************)
EXTENDS AuthSession, TLAPS

\* What happens to the request of a device leaves it well typed.
LEMMA RequestTypeStep ==
  ASSUME TypeOK, NEW d \in Devices
  PROVE  /\ \A step \in Steps, entry \in BOOLEAN :
              Begin(d, step, entry) => request' \in [Devices -> RequestType]
         /\ \A step \in Steps : GoTo(d, step) => request' \in [Devices -> RequestType]
         /\ End(d) => request' \in [Devices -> RequestType]
<1>1. request \in [Devices -> RequestType]
  BY DEF TypeOK
<1>2. ASSUME NEW step \in Steps, NEW entry \in BOOLEAN, Begin(d, step, entry)
      PROVE  request' \in [Devices -> RequestType]
  <2>1. [step |-> step, entry |-> entry, token |-> NoToken] \in RequestType
    BY DEF RequestType
  <2>2. QED
    BY <1>1, <1>2, <2>1 DEF Begin
<1>3. ASSUME NEW step \in Steps, GoTo(d, step)
      PROVE  request' \in [Devices -> RequestType]
  <2>1. [request[d] EXCEPT !.step = step] \in RequestType
    BY <1>1 DEF RequestType
  <2>2. QED
    BY <1>1, <1>3, <2>1 DEF GoTo
<1>4. Idle \in RequestType
  BY DEF Idle, RequestType, Steps
<1>5. End(d) => request' \in [Devices -> RequestType]
  BY <1>1, <1>4 DEF End
<1>6. QED
  BY <1>2, <1>3, <1>5

\* Every step leaves every variable in its type, whatever overlaps.
LEMMA TypeStep == TypeOK /\ [Next]_vars => TypeOK'
<1> SUFFICES ASSUME TypeOK, [Next]_vars PROVE TypeOK'
  OBVIOUS
<1>1. ASSUME NEW d \in Devices, Register(d) \/ Login(d) \/ Refresh(d) PROVE TypeOK'
  <2>1. request' \in [Devices -> RequestType]
    BY <1>1, RequestTypeStep DEF Register, Login, Refresh, Steps
  <2>2. QED
    BY <1>1, <2>1 DEF TypeOK, Register, Login, Refresh, redisVars
<1>2. ASSUME NEW d \in Devices, CreateUser(d) \/ FindUser(d) PROVE TypeOK'
  <2>1. request' \in [Devices -> RequestType]
    BY <1>2, RequestTypeStep DEF CreateUser, FindUser, Steps
  <2>2. QED
    BY <1>2, <2>1 DEF TypeOK, CreateUser, FindUser, redisVars
<1>3. ASSUME NEW d \in Devices, DuplicateEmail(d) \/ RequestFails(d) PROVE TypeOK'
  <2>1. request' \in [Devices -> RequestType]
    BY <1>3, RequestTypeStep DEF DuplicateEmail, RequestFails
  <2>2. QED
    BY <1>3, <2>1 DEF TypeOK, DuplicateEmail, RequestFails
<1>4. ASSUME NEW d \in Devices, GenerateTokens(d) PROVE TypeOK'
  <2>1. [request[d] EXCEPT !.step = "saving", !.token = now] \in RequestType
    BY DEF TypeOK, RequestType, Steps
  <2>2. request' \in [Devices -> RequestType]
    BY <1>4, <2>1 DEF GenerateTokens, TypeOK
  <2>3. QED
    BY <1>4, <2>2 DEF TypeOK, GenerateTokens, redisVars
<1>5. ASSUME NEW d \in Devices, SaveRefreshToken(d) PROVE TypeOK'
  <2>1. request' \in [Devices -> RequestType]
    BY <1>5, RequestTypeStep DEF SaveRefreshToken, Steps
  <2>2. request[d] \in RequestType
    BY DEF TypeOK
  <2>3. QED
    BY <1>5, <2>1, <2>2 DEF TypeOK, SaveRefreshToken, RequestType
<1>6. ASSUME NEW d \in Devices, Answer(d) PROVE TypeOK'
  <2>1. request' \in [Devices -> RequestType]
    BY <1>6, RequestTypeStep DEF Answer
  <2>2. request[d].token \in Token \cup {NoToken}
    BY DEF TypeOK, RequestType
  <2>3. QED
    BY <1>6, <2>1, <2>2 DEF TypeOK, Answer, redisVars
<1>7. ASSUME NEW d \in Devices, Logout(d) PROVE TypeOK'
  BY <1>7 DEF TypeOK, Logout, UnderWay
<1>8. CASE ExpireToken
  BY <1>8 DEF TypeOK, ExpireToken
<1>9. CASE Replicate
  BY <1>9 DEF TypeOK, Replicate, redisVars
<1>10. CASE Tick
  <2>1. now + 1 \in Token
    BY <1>10, TimeAssumption DEF TypeOK, Tick, Token
  <2>2. QED
    BY <1>10, <2>1 DEF TypeOK, Tick, redisVars
<1>11. CASE UNCHANGED vars
  BY <1>11 DEF TypeOK, vars, redisVars
<1>12. QED
  BY <1>1, <1>2, <1>3, <1>4, <1>5, <1>6, <1>7, <1>8, <1>9, <1>10, <1>11 DEF Next

\* Nobody gets into a session without an account, and the replica never runs
\* ahead of the primary.
LEMMA AccountStep == TypeOK /\ AccountFirst /\ [Next]_vars => AccountFirst'
<1> SUFFICES ASSUME TypeOK, AccountFirst, [Next]_vars PROVE AccountFirst'
  OBVIOUS
<1>1. request \in [Devices -> RequestType] /\ held \in [Devices -> Token \cup {NoToken}]
  BY DEF TypeOK
<1>2. ASSUME NEW d \in Devices, Register(d) \/ Login(d) \/ Refresh(d) PROVE AccountFirst'
  BY <1>1, <1>2 DEF AccountFirst, Register, Login, Refresh, Begin
<1>3. ASSUME NEW d \in Devices, CreateUser(d) \/ FindUser(d) \/ SaveRefreshToken(d)
      PROVE  AccountFirst'
  BY <1>1, <1>3 DEF AccountFirst, CreateUser, FindUser, SaveRefreshToken, GoTo, End, Idle,
                   RequestType
<1>4. ASSUME NEW d \in Devices, DuplicateEmail(d) \/ RequestFails(d) \/ Answer(d)
      PROVE  AccountFirst'
  BY <1>1, <1>4 DEF AccountFirst, DuplicateEmail, RequestFails, Answer, End, Idle
<1>5. ASSUME NEW d \in Devices, GenerateTokens(d) PROVE AccountFirst'
  <2>1. now # NoToken
    BY DEF TypeOK, Token, NoToken
  <2>2. QED
    BY <1>1, <1>5, <2>1 DEF AccountFirst, GenerateTokens, RequestType
<1>6. ASSUME NEW d \in Devices, Logout(d) PROVE AccountFirst'
  BY <1>6 DEF AccountFirst, Logout
<1>7. CASE ExpireToken \/ Replicate \/ Tick \/ UNCHANGED vars
  BY <1>7 DEF AccountFirst, ExpireToken, Replicate, Tick, vars
<1>8. QED
  BY <1>2, <1>3, <1>4, <1>5, <1>6, <1>7 DEF Next

\* A session ended by a logout comes back only through a request that the
\* logout overtook.
LEMMA LogoutStep ==
  TypeOK /\ ChecksFollowTheToken /\ LogoutSticks /\ [Next]_vars
    => ChecksFollowTheToken' /\ LogoutSticks'
<1> SUFFICES ASSUME TypeOK, ChecksFollowTheToken, LogoutSticks, [Next]_vars
             PROVE  ChecksFollowTheToken' /\ LogoutSticks'
  OBVIOUS
<1> USE DEF ChecksFollowTheToken, LogoutSticks, UnderWay
<1>1. request \in [Devices -> RequestType] /\ late \subseteq Devices
  BY DEF TypeOK
<1>2. ASSUME NEW d \in Devices, Register(d) \/ Login(d)
      PROVE  ChecksFollowTheToken' /\ LogoutSticks'
  BY <1>1, <1>2 DEF Register, Login, Begin, Idle, redisVars
<1>3. ASSUME NEW d \in Devices, Refresh(d) PROVE ChecksFollowTheToken' /\ LogoutSticks'
  BY <1>1, <1>3 DEF Refresh, Begin, Idle, redisVars
<1>4. ASSUME NEW d \in Devices, CreateUser(d) \/ GenerateTokens(d)
      PROVE  ChecksFollowTheToken' /\ LogoutSticks'
  BY <1>1, <1>4 DEF CreateUser, GenerateTokens, GoTo, RequestType, redisVars
<1>5. ASSUME NEW d \in Devices, FindUser(d) PROVE ChecksFollowTheToken' /\ LogoutSticks'
  BY <1>1, <1>5 DEF FindUser, GoTo, End, Idle, RequestType
<1>6. ASSUME NEW d \in Devices, DuplicateEmail(d) \/ RequestFails(d)
      PROVE  ChecksFollowTheToken' /\ LogoutSticks'
  BY <1>1, <1>6 DEF DuplicateEmail, RequestFails, End, Idle
<1>7. ASSUME NEW d \in Devices, SaveRefreshToken(d)
      PROVE  ChecksFollowTheToken' /\ LogoutSticks'
  BY <1>1, <1>7 DEF SaveRefreshToken, GoTo, RequestType
<1>8. ASSUME NEW d \in Devices, Answer(d) PROVE ChecksFollowTheToken' /\ LogoutSticks'
  BY <1>1, <1>8 DEF Answer, End, Idle, redisVars
<1>9. ASSUME NEW d \in Devices, Logout(d) PROVE ChecksFollowTheToken' /\ LogoutSticks'
  BY <1>1, <1>9 DEF Logout
<1>10. CASE ExpireToken \/ Replicate \/ Tick \/ UNCHANGED vars
  BY <1>10 DEF ExpireToken, Replicate, Tick, vars, redisVars
<1>11. QED
  BY <1>2, <1>3, <1>4, <1>5, <1>6, <1>7, <1>8, <1>9, <1>10 DEF Next

\* The device that owns the stored token stops owning it only when the token
\* goes, is replaced by one of its own, or is lost with an answer.
LEMMA TokenStep == TypeOK /\ TokenIsHeld /\ [Next]_vars => TokenIsHeld'
<1> SUFFICES ASSUME TypeOK, TokenIsHeld, [Next]_vars PROVE TokenIsHeld'
  OBVIOUS
<1> USE DEF TokenIsHeld, LastToken
<1>1. request \in [Devices -> RequestType] /\ held \in [Devices -> Token \cup {NoToken}]
  BY DEF TypeOK
<1>2. ASSUME NEW d \in Devices, Register(d) \/ Login(d) \/ Refresh(d) PROVE TokenIsHeld'
  BY <1>1, <1>2 DEF Register, Login, Refresh, Begin, Idle, redisVars
<1>3. ASSUME NEW d \in Devices, CreateUser(d) \/ GenerateTokens(d) PROVE TokenIsHeld'
  BY <1>1, <1>3 DEF CreateUser, GenerateTokens, GoTo, RequestType, redisVars
<1>4. ASSUME NEW d \in Devices, FindUser(d) PROVE TokenIsHeld'
  BY <1>1, <1>4 DEF FindUser, GoTo, End, Idle, RequestType
<1>5. ASSUME NEW d \in Devices, DuplicateEmail(d) \/ RequestFails(d) PROVE TokenIsHeld'
  <2>1. request' = [request EXCEPT ![d] = Idle] /\ UNCHANGED <<held, refresh>>
    BY <1>5 DEF DuplicateEmail, RequestFails, End
  <2>2. \A e \in Devices \ {d} : request'[e] = request[e]
    BY <1>1, <2>1
  <2>3. request'[d].step # "saved"
    BY <1>1, <2>1 DEF Idle
  <2>4. request[d].step = "saved" => orphaned'
    BY <1>5 DEF DuplicateEmail, RequestFails
  <2>5. orphaned => orphaned'
    BY <1>5 DEF DuplicateEmail, RequestFails
  <2>6. QED
    BY <2>1, <2>2, <2>3, <2>4, <2>5
<1>6. ASSUME NEW d \in Devices, SaveRefreshToken(d) PROVE TokenIsHeld'
  BY <1>1, <1>6 DEF SaveRefreshToken, GoTo, RequestType
<1>7. ASSUME NEW d \in Devices, Answer(d) PROVE TokenIsHeld'
  BY <1>1, <1>7 DEF Answer, End, Idle, redisVars
<1>8. ASSUME NEW d \in Devices, Logout(d) PROVE TokenIsHeld'
  BY <1>8 DEF Logout
<1>9. CASE ExpireToken \/ Replicate \/ Tick \/ UNCHANGED vars
  BY <1>9 DEF ExpireToken, Replicate, Tick, vars, redisVars
<1>10. QED
  BY <1>2, <1>3, <1>4, <1>5, <1>6, <1>7, <1>8, <1>9 DEF Next

\* SessionInv holds in every state of every run, for any number of devices and
\* any clock: account, requests, logouts and the stored token stay in step.
THEOREM SessionInvariant == Spec => []SessionInv
<1>1. Init => SessionInv
  <2>1. SUFFICES ASSUME Init PROVE SessionInv
    OBVIOUS
  <2>2. TypeOK
    <3>1. Idle \in RequestType
      BY DEF Idle, RequestType, Steps
    <3>2. request \in [Devices -> RequestType]
      BY <2>1, <3>1 DEF Init
    <3>3. 1 \in Token
      BY TimeAssumption DEF Token
    <3>4. QED
      BY <2>1, <3>2, <3>3 DEF Init, TypeOK
  <2>3. \A d \in Devices : request[d].step = "idle" /\ held[d] = NoToken
    BY <2>1 DEF Init, Idle
  <2>4. QED
    BY <2>1, <2>2, <2>3 DEF Init, SessionInv, AccountFirst, ChecksFollowTheToken, UnderWay,
                            LogoutSticks, TokenIsHeld
<1>2. SessionInv /\ [Next]_vars => SessionInv'
  BY TypeStep, AccountStep, LogoutStep, TokenStep DEF SessionInv
<1>3. QED
  BY <1>1, <1>2, PTL DEF Spec

\* A session that was ended stays ended unless a request that was already past
\* its check, or a new login, brings it back.
THEOREM LogoutIsFinal == Spec => []LogoutSticks
<1>1. SessionInv => LogoutSticks
  BY DEF SessionInv
<1>2. QED
  BY <1>1, SessionInvariant, PTL

\* Overlapping logins and refreshes leave in Redis a token that somebody has.
THEOREM StoredTokenIsHeld == Spec => []TokenIsHeld
<1>1. SessionInv => TokenIsHeld
  BY DEF SessionInv
<1>2. QED
  BY <1>1, SessionInvariant, PTL
=============================================================================
