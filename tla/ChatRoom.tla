------------------------------- MODULE ChatRoom -------------------------------
(***************************************************************************)
(* One chat room: members send messages over Socket.io and fetch the page  *)
(* of the newest ones over HTTP.  A message is saved on the primary and    *)
(* then emitted to the sockets in the room, which every node keeps in its  *)
(* own memory.  Sends, fetches and sockets that come and go interleave.    *)
(* Who wrote a message, what it says and whether it is marked read decide  *)
(* nothing here and are left out.                                          *)
(***************************************************************************)
EXTENDS Integers, Sequences, FiniteSets

CONSTANTS
  Users,        \* users with a socket
  Members,      \* the users of the room's ChatRoomUser rows; no code changes them
  Nodes,        \* processes that serve sockets
  Handlers,     \* send_message handlers under way, reused
  PageSize,     \* the limit of a page
  MaxMessages,  \* bound: messages of the room
  Off           \* not connected, no node

ASSUME RoomAssumption == Members \subseteq Users /\ Off \notin Nodes
ASSUME BoundsAssumption == PageSize \in Nat \ {0} /\ MaxMessages \in Nat

VARIABLES
  log,       \* the room's messages in commit order: the node whose handler saved each
  socket,    \* socket[u]: the node that holds u's socket, or Off
  room,      \* users whose socket is in the room on its node
  sending,   \* sending[h]: step, node and saved message of a handler
  fetch,     \* fetch[u]: u's getMessages: newest row and start of the page
  shown,     \* shown[u]: messages emitted to u's socket or answered on a page
  since,     \* history: since[u], the first message u follows, 0 if it does not
  lost       \* history: saved messages whose handler failed before the emit

socketVars == <<socket, room>>
clientVars == <<fetch, shown, since>>
vars == <<log, sending, lost, socketVars, clientVars>>

Free == [step |-> "free", node |-> Off, id |-> 0]

\* joined: u's socket has been in the room, without a break, since the page was read.
NoFetch == [step |-> "none", upto |-> 0, from |-> 1, joined |-> FALSE]

Send  == [step : {"free", "saving", "saved"}, node : Nodes \cup {Off}, id : Nat]
Fetch == [step : {"none", "fetched"}, upto : Nat, from : Nat \ {0}, joined : BOOLEAN]

TypeOK ==
  /\ log \in Seq(Nodes) /\ Len(log) <= MaxMessages
  /\ socket \in [Users -> Nodes \cup {Off}]
  /\ room \subseteq Users
  /\ sending \in [Handlers -> Send]
  /\ fetch \in [Users -> Fetch]
  /\ shown \in [Users -> SUBSET Nat]
  /\ since \in [Users -> Nat]
  /\ lost \subseteq Nat

Init ==
  /\ log = <<>>
  /\ socket = [u \in Users |-> Off] /\ room = {}
  /\ sending = [h \in Handlers |-> Free]
  /\ fetch = [u \in Users |-> NoFetch]
  /\ shown = [u \in Users |-> {}]
  /\ since = [u \in Users |-> 0]
  /\ lost = {}

-----------------------------------------------------------------------------
(* Sockets.                                                                *)

Connect(u) ==
  /\ socket[u] = Off
  /\ \E n \in Nodes : socket' = [socket EXCEPT ![u] = n]
  /\ UNCHANGED <<log, room, sending, lost, clientVars>>

JoinRoom(u) ==
  /\ socket[u] # Off
  /\ room' = room \cup {u}
  /\ UNCHANGED <<log, socket, sending, lost, clientVars>>

\* The socket of u leaves the room: u stops following it.
StopFollowing(u) ==
  /\ room' = room \ {u}
  /\ since' = [since EXCEPT ![u] = 0]
  /\ fetch' = [fetch EXCEPT ![u].joined = FALSE]

LeaveRoom(u) ==
  /\ u \in room
  /\ StopFollowing(u)
  /\ UNCHANGED <<log, socket, sending, shown, lost>>

\* The client, the network or the node closes the socket. The handlers it has
\* started run on.
Disconnect(u) ==
  /\ socket[u] # Off
  /\ socket' = [socket EXCEPT ![u] = Off]
  /\ StopFollowing(u)
  /\ UNCHANGED <<log, sending, shown, lost>>

-----------------------------------------------------------------------------
(* send_message.                                                           *)

\* findUnique finds the membership; a user without one is answered an error.
SendMessage(h) ==
  /\ sending[h] = Free
  /\ \E u \in Members :
       /\ socket[u] # Off
       /\ sending' = [sending EXCEPT ![h] = [step |-> "saving", node |-> socket[u], id |-> 0]]
  /\ UNCHANGED <<log, lost, socketVars, clientVars>>

\* Mutant of SaveMessage: the message is emitted without waiting for the create.
SaveMessageUnawaited(h) ==
  /\ sending[h].step = "saving"
  /\ Len(log) < MaxMessages
  /\ sending' = [sending EXCEPT ![h].step = "saved", ![h].id = Len(log) + 1]
  /\ UNCHANGED <<log, lost, socketVars, clientVars>>

SaveMessage(h) ==
  /\ sending[h].step = "saving"
  /\ Len(log) < MaxMessages
  /\ log' = Append(log, sending[h].node)
  /\ sending' = [sending EXCEPT ![h].step = "saved", ![h].id = Len(log) + 1]
  /\ UNCHANGED <<lost, socketVars, clientVars>>

\* The sockets of the room that the node n knows of.
RoomAt(n) == {u \in room : socket[u] = n}

\* Mutant of EmitMessage: the room is named wrongly, and nobody is in it.
EmitElsewhere(h) ==
  /\ sending[h].step = "saved"
  /\ sending' = [sending EXCEPT ![h] = Free]
  /\ UNCHANGED <<log, lost, socketVars, clientVars>>

\* io.to(roomId).emit: the default adapter reaches the sockets of this node.
EmitMessage(h) ==
  /\ sending[h].step = "saved"
  /\ shown' = [u \in Users |->
       IF u \in RoomAt(sending[h].node) THEN shown[u] \cup {sending[h].id} ELSE shown[u]]
  /\ sending' = [sending EXCEPT ![h] = Free]
  /\ UNCHANGED <<log, fetch, since, lost, socketVars>>

\* A query fails, its answer is lost, or the node dies.
SendFails(h) ==
  /\ sending[h] # Free
  /\ lost' = IF sending[h].step = "saved" THEN lost \cup {sending[h].id} ELSE lost
  /\ sending' = [sending EXCEPT ![h] = Free]
  /\ UNCHANGED <<log, socketVars, clientVars>>

-----------------------------------------------------------------------------
(* GET /chat/:roomId/messages, first page.                                 *)

\* Where the page of the newest rows starts; createdAt is taken to follow the commits.
PageStart == IF Len(log) > PageSize THEN Len(log) - PageSize + 1 ELSE 1

\* A member gets the newest rows and their count from one transaction.
ReadPage(u) ==
  /\ u \in Members
  /\ fetch[u] = NoFetch
  /\ fetch' = [fetch EXCEPT ![u] =
       [step |-> "fetched", upto |-> Len(log), from |-> PageStart, joined |-> u \in room]]
  /\ UNCHANGED <<log, sending, shown, since, lost, socketVars>>

\* After updateMany. A client whose socket joined before the page was read
\* follows the room from the start of the page.
AnswerPage(u) ==
  /\ fetch[u].step = "fetched"
  /\ shown' = [shown EXCEPT ![u] = @ \cup fetch[u].from .. fetch[u].upto]
  /\ since' = [since EXCEPT ![u] = IF @ = 0 /\ fetch[u].joined THEN fetch[u].from ELSE @]
  /\ fetch' = [fetch EXCEPT ![u] = NoFetch]
  /\ UNCHANGED <<log, sending, lost, socketVars>>

\* A query fails, the node dies or the answer gets lost.
FetchFails(u) ==
  /\ fetch[u].step = "fetched"
  /\ fetch' = [fetch EXCEPT ![u] = NoFetch]
  /\ UNCHANGED <<log, sending, shown, since, lost, socketVars>>

-----------------------------------------------------------------------------
Next ==
  \/ \E u \in Users : \/ Connect(u) \/ JoinRoom(u) \/ LeaveRoom(u) \/ Disconnect(u)
                      \/ ReadPage(u) \/ AnswerPage(u) \/ FetchFails(u)
  \/ \E h \in Handlers : SendMessage(h) \/ SaveMessage(h) \/ EmitMessage(h) \/ SendFails(h)

Spec == Init /\ [][Next]_vars

-----------------------------------------------------------------------------
(* Properties.                                                             *)

\* The handler that saved message i has yet to emit it.
Pending(i) == \E h \in Handlers : sending[h].step = "saved" /\ sending[h].id = i

\* Message i has reached u or will be emitted to the room, unless its handler failed.
Reaches(u, i) == i \in shown[u] \cup lost \/ Pending(i)

\* A client that joins the room before it fetches the page has no gap between
\* the page and the live messages of its own node, however sends overlap with
\* the join and the fetch: each is there, or will come, or its handler failed
\* after the save.
NoGap ==
  \A u \in Users : since[u] # 0 =>
    \A i \in since[u]..Len(log) : Reaches(u, i) \/ log[i] # socket[u]

\* Only who is in the room follows it, and a page never runs ahead of the log.
FollowersAreInside ==
  \A u \in Users : /\ u \in room => socket[u] # Off
                   /\ since[u] # 0 \/ fetch[u].joined => u \in room
                   /\ fetch[u].upto <= Len(log)

\* A handler under way has a node, and names a message it has saved there.
HandlersKnowTheirMessage ==
  \A h \in Handlers :
    /\ sending[h].step # "free" => sending[h].node \in Nodes
    /\ sending[h].step = "saved" => /\ sending[h].id \in DOMAIN log
                                    /\ log[sending[h].id] = sending[h].node

\* From the moment its page is read, a client that has joined misses nothing.
FetchLeavesNoGap ==
  \A u \in Users : fetch[u].joined =>
    \A i \in (fetch[u].upto + 1)..Len(log) : Reaches(u, i) \/ log[i] # socket[u]

\* Inductive: the page under way and the live messages overlap at every moment.
RoomInv == /\ TypeOK /\ FollowersAreInside /\ HandlersKnowTheirMessage
           /\ FetchLeavesNoGap /\ NoGap

\* VIOLATED with two nodes. README.md:40: "All session/state is moved to
\* Redis/DB, allowing infinite horizontal scaling of API nodes." Socket.io
\* rooms stay in each node's memory: a message never reaches the sockets of its
\* room on another node.
RoomSpansNodes ==
  \A u \in Users : since[u] # 0 => \A i \in since[u]..Len(log) : Reaches(u, i)
=============================================================================
