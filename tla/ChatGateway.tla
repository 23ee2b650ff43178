---------------------------- MODULE ChatGateway ----------------------------
(***************************************************************************)
(* ChatGateway: the sockets of socket.io (external), the rooms they have   *)
(* joined and the presence that the gateway announces.  All of it is in    *)
(* the memory of one process.                                              *)
(*                                                                         *)
(* A room that a socket would join after it has gone has no effect, and a  *)
(* socket never comes back under the same name while a call of it runs.    *)
(***************************************************************************)
EXTENDS ChatRooms

CONSTANTS
  Sockets  \* connections

Connection == [user : Users, rooms : SUBSET Nat]

ASSUME GateAssumption == None \notin Connection

VARIABLES
  socket,      \* None or the userId of a connection and its rooms
  userSockets, \* userId -> sockets; without an entry the set is empty
  shown,       \* the presence of each user last announced in each room
  (* History: *)
  been,        \* the users each connection has authenticated as
  excused,     \* <<socket, conversation>>: a user of it has lost the seat under it
  unheard,     \* <<conversation, user>>: seats taken since the user's last announcement
  stirred      \* users of whom announcements overlapped, died or were asked for, or
               \* a socket changed hands, until one is announced undisturbed

gateVars == <<socket, userSockets, shown, been, excused, unheard, stirred>>
chatVars == <<roomVars, gateVars, chat, chatLeft>>

-----------------------------------------------------------------------------
\* authenticateSocket on its way to its rooms, conversation:join, and
\* broadcastPresence.
RoomsCall    == [pc : {"seats", "enter"}, user : Users, socket : Sockets, rooms : SUBSET Nat]
JoinCall     == [pc : {"join"}, user : Users, socket : Sockets, rooms : SUBSET Nat]
PresenceCall == [pc : {"presence"}, user : Users, status : {"ONLINE", "OFFLINE", "AWAY"}]
GateCall == RoomsCall \cup JoinCall \cup PresenceCall

Presence == [Users -> {"ONLINE", "OFFLINE", "AWAY"}]
Unseen == [u \in Users |-> "OFFLINE"]   \* a room in which nothing was announced

GateTypeOK ==
  /\ socket \in [Sockets -> Connection \cup {None}]
  /\ \A k \in Sockets : socket[k] # None => socket[k].rooms \subseteq DOMAIN conversation
  /\ userSockets \in [Users -> SUBSET Sockets]
  /\ shown \in [DOMAIN conversation -> Presence]
  /\ been \in [Sockets -> SUBSET Users]
  /\ excused \subseteq Sockets \X Nat
  /\ unheard \subseteq (DOMAIN conversation) \X Users
  /\ stirred \subseteq Users

ChatTypeOK ==
  /\ RoomTypeOK /\ GateTypeOK
  /\ chat \in [Slots -> {Idle} \cup RoomCall \cup GateCall]
  /\ chatLeft \in Nat

GateInit ==
  /\ socket = [k \in Sockets |-> None]
  /\ userSockets = [u \in Users |-> {}]
  /\ shown = [c \in DOMAIN conversation |-> Unseen]
  /\ been = [k \in Sockets |-> {}]
  /\ excused = {}
  /\ unheard = {}
  /\ stirred = {}

Connected(u) == {k \in Sockets : socket[k] # None /\ socket[k].user = u}

\* A call that announces when it gets there, and the users that are announced.
Announces(s) == chat[s].pc \in {"seats", "enter", "presence"}
Announcing(u) == \E s \in Slots : Announces(s) /\ chat[s].user = u

\* An announcement begins.  It settles what was stirred if no other is on its
\* way and userSockets knows the connections.
Known(u) == userSockets'[u] = {k \in Sockets : socket'[k] # None /\ socket'[k].user = u}
Stirs(u) == IF Announcing(u) THEN stirred \cup {u}
            ELSE IF Known(u) THEN stirred \ {u} ELSE stirred

Names(s, k) == "socket" \in DOMAIN chat[s] /\ chat[s].socket = k

\* A call about a socket begins.
GateBegins(s, call) ==
  /\ Begin(chat, chatLeft, s, call)
  /\ UNCHANGED roomVars

-----------------------------------------------------------------------------
(* Connections.                                                            *)

\* authenticateSocket up to its first await: from handleConnection with a token
\* in the handshake, or from the message `authenticate`.  A connection counts
\* from then on; before, it can do nothing.  The userId is overwritten; what
\* the socket had as another user stays.
AuthenticateSocket(s, k, u) ==
  /\ \A t \in Slots : ~Names(t, k) \/ socket[k] # None
  /\ GateBegins(s, [pc |-> "seats", user |-> u, socket |-> k, rooms |-> {}])
  /\ socket' = [socket EXCEPT ![k] = IF @ = None THEN [user |-> u, rooms |-> {}]
                                     ELSE [@ EXCEPT !.user = u]]
  /\ userSockets' = [userSockets EXCEPT ![u] = @ \cup {k}]
  /\ been' = [been EXCEPT ![k] = @ \cup {u}]
  /\ stirred' = Stirs(u) \cup (been[k] \ {u})
  /\ UNCHANGED <<shown, excused, unheard>>

ReadSeats(s) == LET c == chat[s] IN
  /\ c.pc = "seats"
  /\ ChatGoto(s, [c EXCEPT !.pc = "enter", !.rooms = SeatsOf(c.user)])
  /\ UNCHANGED <<roomVars, gateVars>>

\* It joins the rooms it has read of, and goes on to broadcastPresence; the
\* join of a single room ends here.
EnterRooms(s) == LET c == chat[s] IN
  /\ c.pc \in {"enter", "join"}
  /\ socket' = IF socket[c.socket] = None THEN socket
               ELSE [socket EXCEPT ![c.socket].rooms = @ \cup c.rooms]
  /\ ChatGoto(s, IF c.pc = "join" THEN Idle
                 ELSE [pc |-> "presence", user |-> c.user, status |-> "ONLINE"])
  /\ UNCHANGED <<roomVars, userSockets, shown, been, excused, unheard, stirred>>

\* Mutant: anybody may join.
JoinAny(s, k, c) ==
  /\ socket[k] # None
  /\ GateBegins(s, [pc |-> "join", user |-> socket[k].user, socket |-> k, rooms |-> {c}])
  /\ UNCHANGED gateVars

\* conversation:join has read that the user has a seat.
HandleJoinConversation(s, k, c) ==
  /\ socket[k] # None
  /\ c \in SeatsOf(socket[k].user)
  /\ GateBegins(s, [pc |-> "join", user |-> socket[k].user, socket |-> k, rooms |-> {c}])
  /\ UNCHANGED gateVars

\* message:send and message:read of a client that has authenticated.
HandleMessageSend(s, k, c) ==
  /\ socket[k] # None
  /\ SendMessage(s, socket[k].user, c)
  /\ UNCHANGED gateVars

HandleMessageRead(s, k, c) ==
  /\ socket[k] # None
  /\ MarkAsRead(s, socket[k].user, c)
  /\ UNCHANGED gateVars

\* The connection is gone: of the user it had last, the entry, and if it was
\* the last one, OFFLINE is announced.
Leaving(u, k) == userSockets[u] # {} /\ userSockets[u] \subseteq {k}

Disconnected(k) ==
  /\ socket' = [socket EXCEPT ![k] = None]
  /\ userSockets' = [userSockets EXCEPT ![socket[k].user] = @ \ {k}]
  /\ been' = [been EXCEPT ![k] = {}]
  /\ excused' = {e \in excused : e[1] # k}
  /\ UNCHANGED <<roomVars, shown, unheard>>

\* Mutant: the first socket to go announces OFFLINE.
GoOfflineAny(s, k) == LET u == socket[k].user IN
  /\ socket[k] # None
  /\ chat[s] = Idle
  /\ ChatGoto(s, [pc |-> "presence", user |-> u, status |-> "OFFLINE"])
  /\ Disconnected(k)
  /\ stirred' = Stirs(u)

\* handleDisconnect of the last socket of its user, and of any other.
GoOffline(s, k) == LET u == socket[k].user IN
  /\ socket[k] # None /\ Leaving(u, k)
  /\ chat[s] = Idle
  /\ ChatGoto(s, [pc |-> "presence", user |-> u, status |-> "OFFLINE"])
  /\ Disconnected(k)
  /\ stirred' = Stirs(u)

HandleDisconnect(k) ==
  /\ socket[k] # None
  /\ ~Leaving(socket[k].user, k)
  /\ Disconnected(k)
  /\ UNCHANGED <<stirred, chat, chatLeft>>

-----------------------------------------------------------------------------
(* Presence.                                                               *)

\* presence:update, with whatever status the client sends.
HandlePresenceUpdate(s, k) ==
  /\ socket[k] # None
  /\ GateBegins(s, [pc |-> "presence", user |-> socket[k].user, status |-> "AWAY"])
  /\ stirred' = stirred \cup {socket[k].user}
  /\ UNCHANGED <<socket, userSockets, shown, been, excused, unheard>>

\* broadcastPresence, when its query has answered: to the rooms of the seats
\* that the user has then.  The room of a seat that is lost keeps what it shows.
BroadcastPresence(s) == LET c == chat[s] IN
  /\ c.pc = "presence"
  /\ shown' = [r \in DOMAIN shown |->
       IF r \in SeatsOf(c.user) THEN [shown[r] EXCEPT ![c.user] = c.status] ELSE shown[r]]
  /\ unheard' = {p \in unheard : p[2] # c.user}
  /\ ChatGoto(s, Idle)
  /\ UNCHANGED <<roomVars, socket, userSockets, been, excused, stirred>>

\* Nobody waits for broadcastPresence or catches what it throws: an error of
\* its query ends the process, as a crash does.  Connections and calls are gone.
ProcessEnds ==
  /\ MayFail
  /\ chatLeft > 0 /\ chatLeft' = chatLeft - 1
  /\ socket' = [k \in Sockets |-> None]
  /\ userSockets' = [u \in Users |-> {}]
  /\ been' = [k \in Sockets |-> {}]
  /\ excused' = {}
  /\ stirred' = Users
  /\ chat' = [s \in Slots |-> Idle]
  /\ UNCHANGED <<roomVars, shown, unheard>>

\* Another call throws.
ChatDie(s) ==
  /\ Die(chat, chatLeft, s)
  /\ chat[s].pc # "presence"
  /\ stirred' = IF Announces(s) THEN stirred \cup {chat[s].user} ELSE stirred
  /\ UNCHANGED <<roomVars, socket, userSockets, shown, been, excused, unheard>>

-----------------------------------------------------------------------------
(* The sockets of a room get what is emitted to it; handleMemberRemoved    *)
(* looks for the sockets of the user in a map that the namespace does not  *)
(* have, so that none of them leaves.                                      *)

InRoom(c) == {k \in Sockets : socket[k] # None /\ c \in socket[k].rooms}

\* A step of ChatService, with what becomes of the seats.  Nothing is announced.
Lost(c, u) == Member(c, u) /\ conversation'[c].seats[u] = None
Taken(c, u) == /\ conversation'[c].seats[u] # None
               /\ c \in DOMAIN conversation => ~Member(c, u)

ServiceStep ==
  /\ RoomNext
  /\ UNCHANGED <<socket, userSockets, been, stirred>>
  /\ shown' = [c \in DOMAIN conversation' |-> IF c \in DOMAIN shown THEN shown[c] ELSE Unseen]
  /\ excused' = excused \cup
       {e \in Sockets \X DOMAIN conversation : \E u \in been[e[1]] : Lost(e[2], u)}
  /\ unheard' = unheard \cup {p \in (DOMAIN conversation') \X Users : Taken(p[1], p[2])}

GateStep(s) == ReadSeats(s) \/ EnterRooms(s) \/ BroadcastPresence(s)

GateRequest(s) ==
  /\ Free(chat, chatLeft, s)
  /\ \E k \in Sockets :
       \/ \E u \in Users : AuthenticateSocket(s, k, u)
       \/ \E c \in DOMAIN conversation :
            \/ HandleJoinConversation(s, k, c)
            \/ HandleMessageSend(s, k, c) \/ HandleMessageRead(s, k, c)
       \/ HandlePresenceUpdate(s, k)

GateNext ==
  \/ ProcessEnds
  \/ \E k \in Sockets : HandleDisconnect(k)
  \/ \E s \in Slots :
       \/ GateRequest(s) \/ GateStep(s) \/ ChatDie(s)
       \/ \E k \in Sockets : GoOffline(s, k)

ChatInit == RoomInit /\ GateInit

ChatNext == ServiceStep \/ GateNext

ChatSpec == ChatInit /\ [][ChatNext]_chatVars

-----------------------------------------------------------------------------
(* Properties.                                                             *)

\* A socket that has come after a removal does not get what is said in the
\* room: it is in a room only if a user it has authenticated as has a seat
\* there, or if one of them lost it while the socket was connected.
RoomsFollowSeats == \A c \in DOMAIN conversation : \A k \in InRoom(c) :
  been[k] \cap Members(c) # {} \/ <<k, c>> \in excused

\* When nothing about a user is on its way, the presence last announced in the
\* rooms of the user's seats is true: ONLINE with one connection or more,
\* OFFLINE without.  Excepted are seats taken since, and what was stirred by
\* overlapping announcements or a socket that changed hands, until the next
\* announcement that runs undisturbed.
PresenceSettles == \A u \in Users \ stirred : ~Announcing(u) =>
  \A c \in SeatsOf(u) : <<c, u>> \in unheard \/
    shown[c][u] = IF Connected(u) # {} THEN "ONLINE" ELSE "OFFLINE"
=============================================================================
