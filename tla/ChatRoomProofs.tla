---------------------------- MODULE ChatRoomProofs ----------------------------
(***************************************************************************)
(* RoomInv is inductive.  The page a client has read and the messages      *)
(* emitted since the read overlap: whatever is saved in between is, for    *)
(* a socket in the room, shown, lost with its handler, or still pending.   *)
(***************************************************************************)
EXTENDS ChatRoom, TLAPS

\* What a step does to a request for a page leaves it well typed.
LEMMA FetchTyped ==
  ASSUME TypeOK, NEW u \in Users
  PROVE  /\ [fetch EXCEPT ![u] = NoFetch] \in [Users -> Fetch]
         /\ [fetch EXCEPT ![u].joined = FALSE] \in [Users -> Fetch]
         /\ [fetch EXCEPT ![u] = [step |-> "fetched", upto |-> Len(log), from |-> PageStart,
                                  joined |-> u \in room]] \in [Users -> Fetch]
<1>1. fetch \in [Users -> Fetch] /\ Len(log) \in Nat
  BY DEF TypeOK
<1>2. NoFetch \in Fetch
  BY DEF NoFetch, Fetch
<1>3. [fetch[u] EXCEPT !.joined = FALSE] \in Fetch
  BY <1>1 DEF Fetch
<1>4. PageStart \in Nat \ {0}
  BY <1>1, BoundsAssumption DEF PageStart
<1>5. [step |-> "fetched", upto |-> Len(log), from |-> PageStart, joined |-> u \in room] \in Fetch
  BY <1>1, <1>4 DEF Fetch
<1>6. QED
  BY <1>1, <1>2, <1>3, <1>5

\* What a step does to a handler leaves it well typed.
LEMMA SendTyped ==
  ASSUME TypeOK, NEW h \in Handlers
  PROVE  /\ [sending EXCEPT ![h] = Free] \in [Handlers -> Send]
         /\ \A n \in Nodes :
              [sending EXCEPT ![h] = [step |-> "saving", node |-> n, id |-> 0]]
                \in [Handlers -> Send]
         /\ [sending EXCEPT ![h].step = "saved", ![h].id = Len(log) + 1] \in [Handlers -> Send]
         /\ sending[h].id \in Nat
<1>1. sending \in [Handlers -> Send] /\ Len(log) \in Nat
  BY DEF TypeOK
<1>2. Free \in Send
  BY DEF Free, Send
<1>3. \A n \in Nodes : [step |-> "saving", node |-> n, id |-> 0] \in Send
  BY DEF Send
<1>4. [sending[h] EXCEPT !.step = "saved", !.id = Len(log) + 1] \in Send
  <2>1. Len(log) + 1 \in Nat /\ sending[h] \in Send
    BY <1>1
  <2>2. QED
    BY <2>1 DEF Send
<1>5. sending[h].id \in Nat
  BY <1>1 DEF Send
<1>6. QED
  BY <1>1, <1>2, <1>3, <1>4, <1>5

\* Every step leaves every variable in its type.
LEMMA TypeStep == TypeOK /\ HandlersKnowTheirMessage /\ [Next]_vars => TypeOK'
<1> SUFFICES ASSUME TypeOK, HandlersKnowTheirMessage, [Next]_vars PROVE TypeOK'
  OBVIOUS
<1>1. ASSUME NEW u \in Users, Connect(u) \/ JoinRoom(u) PROVE TypeOK'
  BY <1>1 DEF TypeOK, Connect, JoinRoom, clientVars
<1>2. ASSUME NEW u \in Users, LeaveRoom(u) \/ Disconnect(u) PROVE TypeOK'
  <2>1. fetch' \in [Users -> Fetch]
    BY <1>2, FetchTyped DEF LeaveRoom, Disconnect, StopFollowing
  <2>2. /\ room' = room \ {u}
        /\ since' = [since EXCEPT ![u] = 0]
    BY <1>2 DEF LeaveRoom, Disconnect, StopFollowing
  <2>3. socket' \in [Users -> Nodes \cup {Off}]
    BY <1>2 DEF TypeOK, LeaveRoom, Disconnect
  <2>4. QED
    BY <1>2, <2>1, <2>2, <2>3 DEF TypeOK, LeaveRoom, Disconnect
<1>3. ASSUME NEW u \in Users, ReadPage(u) \/ FetchFails(u) PROVE TypeOK'
  <2>1. fetch' \in [Users -> Fetch]
    BY <1>3, FetchTyped DEF ReadPage, FetchFails
  <2>2. QED
    BY <1>3, <2>1 DEF TypeOK, ReadPage, FetchFails, socketVars
<1>4. ASSUME NEW u \in Users, AnswerPage(u) PROVE TypeOK'
  <2>1. fetch[u].from \in Nat /\ fetch[u].upto \in Nat
    BY DEF TypeOK, Fetch
  <2>2. fetch[u].from .. fetch[u].upto \subseteq Nat
    BY <2>1
  <2>3. QED
    BY <1>4, <2>1, <2>2, FetchTyped DEF TypeOK, AnswerPage, socketVars
<1>5. ASSUME NEW h \in Handlers, SendMessage(h) PROVE TypeOK'
  <2>1. PICK u \in Members :
          socket[u] # Off /\
          sending' = [sending EXCEPT ![h] = [step |-> "saving", node |-> socket[u], id |-> 0]]
    BY <1>5 DEF SendMessage
  <2>2. socket[u] \in Nodes
    BY <2>1, RoomAssumption DEF TypeOK
  <2>3. QED
    BY <1>5, <2>1, <2>2, SendTyped DEF TypeOK, SendMessage, socketVars, clientVars
<1>6. ASSUME NEW h \in Handlers, SaveMessage(h) PROVE TypeOK'
  <2>1. sending[h].node \in Nodes
    BY <1>6 DEF SaveMessage, HandlersKnowTheirMessage
  <2>2. log' \in Seq(Nodes) /\ Len(log') = Len(log) + 1
    BY <1>6, <2>1 DEF SaveMessage, TypeOK
  <2>3. Len(log') <= MaxMessages
    BY <1>6, <2>2, BoundsAssumption DEF SaveMessage, TypeOK
  <2>4. QED
    BY <1>6, <2>2, <2>3, SendTyped DEF TypeOK, SaveMessage, socketVars, clientVars
<1>7. ASSUME NEW h \in Handlers, EmitMessage(h) PROVE TypeOK'
  <2>1. shown' \in [Users -> SUBSET Nat]
    BY <1>7, SendTyped DEF TypeOK, EmitMessage
  <2>2. QED
    BY <1>7, <2>1, SendTyped DEF TypeOK, EmitMessage, socketVars
<1>8. ASSUME NEW h \in Handlers, SendFails(h) PROVE TypeOK'
  BY <1>8, SendTyped DEF TypeOK, SendFails, socketVars, clientVars
<1>9. CASE UNCHANGED vars
  BY <1>9 DEF TypeOK, vars, socketVars, clientVars
<1>10. QED
  BY <1>1, <1>2, <1>3, <1>4, <1>5, <1>6, <1>7, <1>8, <1>9 DEF Next

\* Only a socket in the room follows it, and the log never falls behind a page.
LEMMA FollowersStep ==
  TypeOK /\ FollowersAreInside /\ [Next]_vars => FollowersAreInside'
<1> SUFFICES ASSUME TypeOK, FollowersAreInside, [Next]_vars PROVE FollowersAreInside'
  OBVIOUS
<1> USE DEF FollowersAreInside
<1>0. /\ fetch \in [Users -> Fetch] /\ since \in [Users -> Nat] /\ room \subseteq Users
      /\ socket \in [Users -> Nodes \cup {Off}] /\ Len(log) \in Nat
  BY DEF TypeOK
<1>1. ASSUME NEW u \in Users, Connect(u) \/ JoinRoom(u) PROVE FollowersAreInside'
  BY <1>0, <1>1, RoomAssumption DEF Connect, JoinRoom, clientVars
<1>2. ASSUME NEW u \in Users, LeaveRoom(u) \/ Disconnect(u) PROVE FollowersAreInside'
  <2>1. /\ room' = room \ {u}
        /\ since' = [since EXCEPT ![u] = 0]
        /\ fetch' = [fetch EXCEPT ![u].joined = FALSE]
        /\ log' = log
        /\ \A v \in Users \ {u} : socket'[v] = socket[v]
    BY <1>0, <1>2 DEF LeaveRoom, Disconnect, StopFollowing
  <2>2. since'[u] = 0 /\ fetch'[u].joined = FALSE /\ fetch'[u].upto = fetch[u].upto
    BY <1>0, <2>1 DEF Fetch
  <2>3. \A v \in Users \ {u} : since'[v] = since[v] /\ fetch'[v] = fetch[v]
    BY <1>0, <2>1
  <2>4. QED
    BY <1>0, <2>1, <2>2, <2>3
<1>3. ASSUME NEW u \in Users, ReadPage(u) PROVE FollowersAreInside'
  <2>1. /\ fetch' = [fetch EXCEPT ![u] = [step |-> "fetched", upto |-> Len(log),
                                          from |-> PageStart, joined |-> u \in room]]
        /\ UNCHANGED <<log, since, socket, room>>
    BY <1>3 DEF ReadPage, socketVars
  <2>2. fetch'[u].upto = Len(log) /\ (fetch'[u].joined => u \in room)
    BY <1>0, <2>1
  <2>3. \A v \in Users \ {u} : fetch'[v] = fetch[v]
    BY <1>0, <2>1
  <2>4. QED
    BY <1>0, <2>1, <2>2, <2>3
<1>4. ASSUME NEW u \in Users, AnswerPage(u) \/ FetchFails(u) PROVE FollowersAreInside'
  BY <1>0, <1>4 DEF AnswerPage, FetchFails, NoFetch, socketVars
<1>5. ASSUME NEW h \in Handlers, SaveMessage(h) PROVE FollowersAreInside'
  <2>1. Len(log') = Len(log) + 1
    BY <1>5 DEF SaveMessage, TypeOK
  <2>2. \A v \in Users : fetch[v].upto \in Nat
    BY <1>0 DEF Fetch
  <2>3. QED
    BY <1>0, <1>5, <2>1, <2>2 DEF SaveMessage, socketVars, clientVars
<1>6. ASSUME NEW h \in Handlers, SendMessage(h) \/ EmitMessage(h) \/ SendFails(h)
      PROVE  FollowersAreInside'
  BY <1>6 DEF SendMessage, EmitMessage, SendFails, socketVars, clientVars
<1>7. CASE UNCHANGED vars
  BY <1>7 DEF vars, socketVars, clientVars
<1>8. QED
  BY <1>1, <1>2, <1>3, <1>4, <1>5, <1>6, <1>7 DEF Next

\* The log keeps the node of every saved message, so a handler's claim lasts.
LEMMA HandlersStep ==
  TypeOK /\ HandlersKnowTheirMessage /\ [Next]_vars => HandlersKnowTheirMessage'
<1> SUFFICES ASSUME TypeOK, HandlersKnowTheirMessage, [Next]_vars
             PROVE  HandlersKnowTheirMessage'
  OBVIOUS
<1> USE DEF HandlersKnowTheirMessage
<1>0. sending \in [Handlers -> Send] /\ log \in Seq(Nodes) /\ Len(log) \in Nat
  BY DEF TypeOK
<1>1. ASSUME NEW h \in Handlers, SendMessage(h) PROVE HandlersKnowTheirMessage'
  <2>1. PICK u \in Members :
          socket[u] # Off /\
          sending' = [sending EXCEPT ![h] = [step |-> "saving", node |-> socket[u], id |-> 0]]
    BY <1>1 DEF SendMessage
  <2>2. socket[u] \in Nodes
    BY <2>1, RoomAssumption DEF TypeOK
  <2>3. QED
    BY <1>0, <1>1, <2>1, <2>2 DEF SendMessage
<1>2. ASSUME NEW h \in Handlers, SaveMessage(h) PROVE HandlersKnowTheirMessage'
  <2>1. /\ sending[h].step = "saving" /\ sending[h].node \in Nodes
        /\ log' = Append(log, sending[h].node)
        /\ sending' = [sending EXCEPT ![h].step = "saved", ![h].id = Len(log) + 1]
    BY <1>2 DEF SaveMessage
  <2>2. /\ DOMAIN log' = 1..(Len(log) + 1)
        /\ log'[Len(log) + 1] = sending[h].node
        /\ \A i \in DOMAIN log : i \in DOMAIN log' /\ log'[i] = log[i]
    BY <1>0, <2>1
  <2>3. /\ sending'[h].step = "saved" /\ sending'[h].node = sending[h].node
        /\ sending'[h].id = Len(log) + 1
    BY <1>0, <2>1 DEF Send
  <2>4. \A g \in Handlers \ {h} : sending'[g] = sending[g]
    BY <1>0, <2>1
  <2>5. QED
    BY <1>0, <2>1, <2>2, <2>3, <2>4
<1>3. ASSUME NEW h \in Handlers, EmitMessage(h) \/ SendFails(h)
      PROVE  HandlersKnowTheirMessage'
  BY <1>0, <1>3 DEF EmitMessage, SendFails, Free
<1>4. ASSUME NEW u \in Users,
             \/ Connect(u) \/ JoinRoom(u) \/ LeaveRoom(u) \/ Disconnect(u)
             \/ ReadPage(u) \/ AnswerPage(u) \/ FetchFails(u)
      PROVE  HandlersKnowTheirMessage'
  BY <1>4 DEF Connect, JoinRoom, LeaveRoom, Disconnect, ReadPage, AnswerPage, FetchFails
<1>5. CASE UNCHANGED vars
  BY <1>5 DEF vars
<1>6. QED
  BY <1>1, <1>2, <1>3, <1>4, <1>5 DEF Next

\* What was shown, lost or pending stays so: an emit shows the message to the
\* followers of its node, a failing handler loses it.
LEMMA ReachesStays ==
  ASSUME TypeOK, HandlersKnowTheirMessage, Next,
         NEW u \in Users, u \in room, socket'[u] = socket[u],
         NEW i \in DOMAIN log, Reaches(u, i) \/ log[i] # socket[u]
  PROVE  Reaches(u, i)' \/ log'[i] # socket'[u]
<1> USE DEF Reaches, Pending
<1>0. /\ sending \in [Handlers -> Send] /\ log \in Seq(Nodes) /\ Len(log) \in Nat
      /\ shown \in [Users -> SUBSET Nat]
  BY DEF TypeOK
<1>1. ASSUME NEW h \in Handlers, SendMessage(h) PROVE Reaches(u, i)' \/ log'[i] # socket'[u]
  <2>1. \A g \in Handlers : sending[g].step = "saved" => sending'[g] = sending[g]
    BY <1>0, <1>1 DEF SendMessage, Free
  <2>2. UNCHANGED <<log, lost, shown>>
    BY <1>1 DEF SendMessage, clientVars
  <2>3. QED
    BY <2>1, <2>2
<1>2. ASSUME NEW h \in Handlers, SaveMessage(h) PROVE Reaches(u, i)' \/ log'[i] # socket'[u]
  <2>1. \A g \in Handlers : sending[g].step = "saved" => sending'[g] = sending[g]
    BY <1>0, <1>2 DEF SaveMessage
  <2>2. log'[i] = log[i]
    BY <1>0, <1>2 DEF SaveMessage
  <2>3. UNCHANGED <<lost, shown>>
    BY <1>2 DEF SaveMessage, clientVars
  <2>4. QED
    BY <2>1, <2>2, <2>3
<1>3. ASSUME NEW h \in Handlers, EmitMessage(h) PROVE Reaches(u, i)' \/ log'[i] # socket'[u]
  <2>1. /\ sending[h].step = "saved"
        /\ \A g \in Handlers \ {h} : sending'[g] = sending[g]
        /\ UNCHANGED <<log, lost>>
    BY <1>0, <1>3 DEF EmitMessage
  <2>2. /\ shown[u] \subseteq shown'[u]
        /\ socket[u] = sending[h].node => sending[h].id \in shown'[u]
    BY <1>0, <1>3 DEF EmitMessage, RoomAt
  <2>3. log[sending[h].id] = sending[h].node
    BY <2>1 DEF HandlersKnowTheirMessage
  <2>4. QED
    BY <2>1, <2>2, <2>3
<1>4. ASSUME NEW h \in Handlers, SendFails(h) PROVE Reaches(u, i)' \/ log'[i] # socket'[u]
  <2>1. /\ \A g \in Handlers \ {h} : sending'[g] = sending[g]
        /\ lost \subseteq lost'
        /\ sending[h].step = "saved" => sending[h].id \in lost'
        /\ UNCHANGED <<log, shown>>
    BY <1>0, <1>4 DEF SendFails, clientVars
  <2>2. QED
    BY <2>1
<1>5. ASSUME NEW v \in Users, AnswerPage(v) PROVE Reaches(u, i)' \/ log'[i] # socket'[u]
  <2>1. shown[u] \subseteq shown'[u] /\ UNCHANGED <<log, lost, sending>>
    BY <1>0, <1>5 DEF AnswerPage
  <2>2. QED
    BY <2>1
<1>6. ASSUME NEW v \in Users,
             \/ Connect(v) \/ JoinRoom(v) \/ LeaveRoom(v) \/ Disconnect(v)
             \/ ReadPage(v) \/ FetchFails(v)
      PROVE  Reaches(u, i)' \/ log'[i] # socket'[u]
  <2>1. UNCHANGED <<log, lost, sending, shown>>
    BY <1>6 DEF Connect, JoinRoom, LeaveRoom, Disconnect, ReadPage, FetchFails, clientVars
  <2>2. QED
    BY <2>1
<1>7. QED
  BY <1>1, <1>2, <1>3, <1>4, <1>5, <1>6 DEF Next

\* A message that a step adds to the log is pending in the next state.
LEMMA NewIsPending ==
  ASSUME TypeOK, Next, NEW i \in Nat \ {0}, i <= Len(log'), i \notin DOMAIN log
  PROVE  Pending(i)'
<1>0. sending \in [Handlers -> Send] /\ log \in Seq(Nodes) /\ Len(log) \in Nat
  BY DEF TypeOK
<1>1. ASSUME NEW h \in Handlers, SaveMessage(h) PROVE Pending(i)'
  <2>1. log' = Append(log, sending[h].node) /\ Len(log') = Len(log) + 1
    BY <1>0, <1>1 DEF SaveMessage
  <2>2. i = Len(log) + 1
    BY <1>0, <2>1
  <2>3. sending'[h].step = "saved" /\ sending'[h].id = Len(log) + 1
    BY <1>0, <1>1 DEF SaveMessage, Send
  <2>4. QED
    BY <2>2, <2>3 DEF Pending
<1>2. log' = log \/ \E h \in Handlers : SaveMessage(h)
  BY DEF Next, Connect, JoinRoom, LeaveRoom, Disconnect, ReadPage, AnswerPage, FetchFails,
         SendMessage, EmitMessage, SendFails
<1>3. log' # log
  BY <1>0
<1>4. QED
  BY <1>1, <1>2, <1>3

\* Who follows the room after a step either did before, on the same socket, or
\* is answered the page it read from inside the room.
LEMMA FollowersBefore ==
  ASSUME TypeOK, FollowersAreInside, Next, NEW u \in Users, since'[u] # 0
  PROVE  /\ u \in room /\ socket'[u] = socket[u]
         /\ \/ since'[u] = since[u]
            \/ /\ fetch[u].joined /\ since'[u] = fetch[u].from
               /\ shown'[u] = shown[u] \cup fetch[u].from .. fetch[u].upto
<1> USE DEF FollowersAreInside
<1>0. /\ fetch \in [Users -> Fetch] /\ since \in [Users -> Nat]
      /\ socket \in [Users -> Nodes \cup {Off}] /\ shown \in [Users -> SUBSET Nat]
  BY DEF TypeOK
<1>1. ASSUME NEW v \in Users, Connect(v) \/ LeaveRoom(v) \/ Disconnect(v)
      PROVE  u \in room /\ socket'[u] = socket[u] /\ since'[u] = since[u]
  <2>1. since'[u] = since[u] /\ u \in room /\ socket[u] # Off
    BY <1>0, <1>1 DEF Connect, LeaveRoom, Disconnect, StopFollowing, clientVars
  <2>2. socket'[u] = socket[u]
    BY <1>0, <1>1, <2>1 DEF Connect, LeaveRoom, Disconnect, StopFollowing
  <2>3. QED
    BY <2>1, <2>2
<1>2. ASSUME NEW v \in Users, AnswerPage(v)
      PROVE  /\ u \in room /\ socket'[u] = socket[u]
             /\ \/ since'[u] = since[u]
                \/ /\ fetch[u].joined /\ since'[u] = fetch[u].from
                   /\ shown'[u] = shown[u] \cup fetch[u].from .. fetch[u].upto
  BY <1>0, <1>2 DEF AnswerPage, socketVars
<1>3. ASSUME NEW v \in Users, JoinRoom(v) \/ ReadPage(v) \/ FetchFails(v)
      PROVE  u \in room /\ socket'[u] = socket[u] /\ since'[u] = since[u]
  BY <1>3 DEF JoinRoom, ReadPage, FetchFails, socketVars, clientVars
<1>4. ASSUME NEW h \in Handlers,
             SendMessage(h) \/ SaveMessage(h) \/ EmitMessage(h) \/ SendFails(h)
      PROVE  u \in room /\ socket'[u] = socket[u] /\ since'[u] = since[u]
  BY <1>4 DEF SendMessage, SaveMessage, EmitMessage, SendFails, socketVars, clientVars
<1>5. QED
  BY <1>1, <1>2, <1>3, <1>4 DEF Next

\* A page read from inside the room either was read before, by a client whose
\* socket has not moved, or reaches to the end of the log.
LEMMA JoinedBefore ==
  ASSUME TypeOK, FollowersAreInside, Next, NEW u \in Users, fetch'[u].joined
  PROVE  \/ fetch[u].joined /\ u \in room /\ socket'[u] = socket[u] /\ fetch'[u] = fetch[u]
         \/ log' = log /\ fetch'[u].upto = Len(log)
<1> USE DEF FollowersAreInside
<1>0. /\ fetch \in [Users -> Fetch] /\ socket \in [Users -> Nodes \cup {Off}]
  BY DEF TypeOK
<1>1. ASSUME NEW v \in Users, Connect(v) \/ LeaveRoom(v) \/ Disconnect(v)
      PROVE  fetch[u].joined /\ u \in room /\ socket'[u] = socket[u] /\ fetch'[u] = fetch[u]
  <2>1. LeaveRoom(v) \/ Disconnect(v) => u # v
    BY <1>0 DEF LeaveRoom, Disconnect, StopFollowing, Fetch
  <2>2. fetch'[u] = fetch[u]
    BY <1>0, <1>1, <2>1 DEF Connect, LeaveRoom, Disconnect, StopFollowing, clientVars
  <2>3. fetch[u].joined /\ u \in room /\ socket[u] # Off
    BY <2>2
  <2>4. socket'[u] = socket[u]
    BY <1>0, <1>1, <2>1, <2>3 DEF Connect, LeaveRoom, Disconnect
  <2>5. QED
    BY <2>2, <2>3, <2>4
<1>2. ASSUME NEW v \in Users, ReadPage(v)
      PROVE  \/ fetch[u].joined /\ u \in room /\ socket'[u] = socket[u] /\ fetch'[u] = fetch[u]
             \/ log' = log /\ fetch'[u].upto = Len(log)
  BY <1>0, <1>2 DEF ReadPage, socketVars
<1>3. ASSUME NEW v \in Users, AnswerPage(v) \/ FetchFails(v)
      PROVE  fetch[u].joined /\ u \in room /\ socket'[u] = socket[u] /\ fetch'[u] = fetch[u]
  BY <1>0, <1>3 DEF AnswerPage, FetchFails, NoFetch, socketVars
<1>4. ASSUME NEW v \in Users, JoinRoom(v)
      PROVE  fetch[u].joined /\ u \in room /\ socket'[u] = socket[u] /\ fetch'[u] = fetch[u]
  BY <1>4 DEF JoinRoom, clientVars
<1>5. ASSUME NEW h \in Handlers,
             SendMessage(h) \/ SaveMessage(h) \/ EmitMessage(h) \/ SendFails(h)
      PROVE  fetch[u].joined /\ u \in room /\ socket'[u] = socket[u] /\ fetch'[u] = fetch[u]
  BY <1>5 DEF SendMessage, SaveMessage, EmitMessage, SendFails, socketVars, clientVars
<1>6. QED
  BY <1>1, <1>2, <1>3, <1>4, <1>5 DEF Next

\* The page and the live messages keep overlapping.
LEMMA GapStep == RoomInv /\ Next => NoGap' /\ FetchLeavesNoGap'
<1> SUFFICES ASSUME RoomInv, Next PROVE NoGap' /\ FetchLeavesNoGap'
  OBVIOUS
<1>0. /\ fetch \in [Users -> Fetch] /\ since \in [Users -> Nat]
      /\ log \in Seq(Nodes) /\ Len(log) \in Nat /\ DOMAIN log = 1..Len(log)
      /\ TypeOK /\ FollowersAreInside /\ HandlersKnowTheirMessage
  BY DEF TypeOK, RoomInv
<1>00. Len(log') \in Nat
  BY <1>0, TypeStep DEF TypeOK
<1>1. NoGap'
  <2> SUFFICES ASSUME NEW u \in Users, since'[u] # 0, NEW i \in since'[u]..Len(log')
               PROVE  Reaches(u, i)' \/ log'[i] # socket'[u]
    BY DEF NoGap
  <2>1. since'[u] \in Nat
    BY <1>0, TypeStep DEF TypeOK
  <2>2. i \in Nat \ {0} /\ i <= Len(log')
    BY <1>00, <2>1
  <2>3. CASE i \notin DOMAIN log
    BY <1>0, <2>2, <2>3, NewIsPending DEF Reaches
  <2>4. CASE i \in DOMAIN log
    <3>1. u \in room /\ socket'[u] = socket[u]
      BY <1>0, FollowersBefore
    <3>2. CASE since'[u] = since[u]
      <4>1. Reaches(u, i) \/ log[i] # socket[u]
        BY <1>0, <2>1, <2>2, <2>4, <3>2 DEF RoomInv, NoGap
      <4>2. QED
        BY <1>0, <2>4, <3>1, <4>1, ReachesStays
    <3>3. CASE /\ fetch[u].joined /\ since'[u] = fetch[u].from
               /\ shown'[u] = shown[u] \cup fetch[u].from .. fetch[u].upto
      <4>1. fetch[u].upto \in Nat /\ fetch[u].from \in Nat
        BY <1>0 DEF Fetch
      <4>2. CASE i <= fetch[u].upto
        BY <2>1, <2>2, <3>3, <4>1, <4>2 DEF Reaches
      <4>3. CASE ~(i <= fetch[u].upto)
        <5>1. Reaches(u, i) \/ log[i] # socket[u]
          BY <1>0, <2>2, <2>4, <3>3, <4>1, <4>3 DEF RoomInv, FetchLeavesNoGap
        <5>2. QED
          BY <1>0, <2>4, <3>1, <5>1, ReachesStays
      <4>4. QED
        BY <4>2, <4>3
    <3>4. QED
      BY <1>0, <3>2, <3>3, FollowersBefore
  <2>5. QED
    BY <2>3, <2>4
<1>2. FetchLeavesNoGap'
  <2> SUFFICES ASSUME NEW u \in Users, fetch'[u].joined,
                      NEW i \in (fetch'[u].upto + 1)..Len(log')
               PROVE  Reaches(u, i)' \/ log'[i] # socket'[u]
    BY DEF FetchLeavesNoGap
  <2>1. fetch'[u].upto \in Nat
    BY <1>0, TypeStep DEF TypeOK, Fetch
  <2>2. i \in Nat \ {0} /\ i <= Len(log') /\ i > fetch'[u].upto
    BY <1>00, <2>1
  <2>3. CASE log' = log /\ fetch'[u].upto = Len(log)
    BY <1>0, <2>2, <2>3
  <2>4. CASE i \notin DOMAIN log
    BY <1>0, <2>2, <2>4, NewIsPending DEF Reaches
  <2>5. CASE /\ fetch[u].joined /\ u \in room /\ socket'[u] = socket[u]
             /\ fetch'[u] = fetch[u] /\ i \in DOMAIN log
    <3>1. Reaches(u, i) \/ log[i] # socket[u]
      BY <1>0, <2>1, <2>2, <2>5 DEF RoomInv, FetchLeavesNoGap
    <3>2. QED
      BY <1>0, <2>5, <3>1, ReachesStays
  <2>6. QED
    BY <1>0, <2>3, <2>4, <2>5, JoinedBefore
<1>3. QED
  BY <1>1, <1>2

\* RoomInv holds in every state of every run, for any number of users, nodes,
\* handlers and messages and any page size.
THEOREM RoomInvariant == Spec => []RoomInv
<1>1. Init => RoomInv
  <2>1. SUFFICES ASSUME Init PROVE RoomInv
    OBVIOUS
  <2>2. TypeOK
    <3>1. Free \in Send /\ NoFetch \in Fetch
      BY DEF Free, Send, NoFetch, Fetch
    <3>2. log \in Seq(Nodes) /\ Len(log) = 0
      BY <2>1 DEF Init
    <3>3. QED
      BY <2>1, <3>1, <3>2, BoundsAssumption DEF Init, TypeOK
  <2>3. Len(log) = 0
    BY <2>1 DEF Init
  <2>4. QED
    BY <2>1, <2>2, <2>3 DEF Init, RoomInv, FollowersAreInside, HandlersKnowTheirMessage,
                            FetchLeavesNoGap, NoGap, Free, NoFetch
<1>2. RoomInv /\ [Next]_vars => RoomInv'
  <2>1. RoomInv /\ Next => RoomInv'
    BY TypeStep, FollowersStep, HandlersStep, GapStep DEF RoomInv
  <2>2. RoomInv /\ UNCHANGED vars => RoomInv'
    BY DEF vars, socketVars, clientVars, RoomInv, TypeOK, FollowersAreInside,
           HandlersKnowTheirMessage, FetchLeavesNoGap, NoGap, Reaches, Pending
  <2>3. QED
    BY <2>1, <2>2
<1>3. QED
  BY <1>1, <1>2, PTL DEF Spec

\* Who joins the room before fetching the page misses no message of its node.
THEOREM RoomHasNoGap == Spec => []NoGap
<1>1. RoomInv => NoGap
  BY DEF RoomInv
<1>2. QED
  BY <1>1, RoomInvariant, PTL
=============================================================================
