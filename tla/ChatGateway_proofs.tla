------------------------- MODULE ChatGateway_proofs -------------------------
(***************************************************************************)
(* Theorems about ChatRooms and ChatGateway, for every number of users,    *)
(* sockets and calls in flight.                                            *)
(***************************************************************************)
EXTENDS ChatGateway, SequenceTheorems, FiniteSetTheorems, WellFoundedInduction, TLAPS

-----------------------------------------------------------------------------
(***************************************************************************)
(* Types, of what RoomsFollow and LateEdits need.  Of a call of ChatRooms  *)
(* only its statement is typed, and the kind of conversation to open.      *)
(***************************************************************************)
RoomLabels == {"open", "store", "touch", "mark", "edit", "delete", "moderate", "reactor",
               "react", "find", "pin", "unpin", "kick", "page", "scrolled"}

IsRoomCall(c) == /\ c.pc \in RoomLabels /\ "pc" \in DOMAIN c
                 /\ c.pc = "open" => c.type \in {"DIRECT", "GROUP"}

\* A message has the two fields that matter.
IsMessage(m) == {"content", "isDeleted"} \subseteq DOMAIN m /\ m.isDeleted \in BOOLEAN

ChatCallType(c) == c = Idle \/ c \in GateCall \/ IsRoomCall(c)

ChatType ==
  /\ conversation \in Seq(Conversation)
  /\ \E S : message \in Seq(S)
  /\ \A m \in DOMAIN message : IsMessage(message[m])
  /\ socket \in [Sockets -> Connection \cup {None}]
  /\ been \in [Sockets -> SUBSET Users]
  /\ chat = [s \in Slots |-> chat[s]]
  /\ \A s \in Slots : ChatCallType(chat[s])

\* A connection `k` may be in the room of `c`.
Covered(k, c) == been[k] \cap Members(c) # {} \/ <<k, c>> \in excused

\* A call about a connection that is still there acts for one of its users,
\* and will enter rooms where it may be.
SocketOK(c) ==
  c.pc \in {"seats", "enter", "join"} /\ socket[c.socket] # None =>
    /\ c.user \in been[c.socket]
    /\ c.pc # "seats" => \A d \in c.rooms : d \in DOMAIN conversation /\ Covered(c.socket, d)

\* An edit on its way whose message has been deleted is known as late.
EditOK(c) == c.pc = "edit" =>
  c.message \in DOMAIN message /\ (message[c.message].isDeleted => c.message \in late)

ConnectionOK(k) == socket[k] # None =>
  /\ socket[k].user \in been[k]
  /\ \A c \in socket[k].rooms : c \in DOMAIN conversation /\ Covered(k, c)

\* The invariant.
ChatInv ==
  /\ ChatType
  /\ \A s \in Slots : SocketOK(chat[s]) /\ EditOK(chat[s])
  /\ \A k \in Sockets : ConnectionOK(k)
  /\ LateEditOnly

-----------------------------------------------------------------------------
LEMMA ChatCallKinds ==
  ASSUME NEW c, ChatCallType(c)
  PROVE  /\ c.pc \in RoomLabels => IsRoomCall(c)
         /\ c.pc \in {"seats", "enter"} => c \in RoomsCall
         /\ c.pc = "join" => c \in JoinCall
         /\ c.pc = "presence" => c \in PresenceCall
BY DEF ChatCallType, IsRoomCall, GateCall, RoomsCall, JoinCall, PresenceCall, RoomLabels, Idle

LEMMA ChatIdleOK == ChatCallType(Idle) /\ Idle.pc = "idle"
BY DEF ChatCallType, Idle

LEMMA InvGivesRooms == ChatInv => RoomsFollowSeats
<1> SUFFICES ASSUME ChatInv, NEW c \in DOMAIN conversation, NEW k \in InRoom(c)
             PROVE  Covered(k, c)
  BY DEF RoomsFollowSeats, Covered
<1>1. k \in Sockets /\ socket[k] # None /\ c \in socket[k].rooms
  BY DEF InRoom
<1> QED BY <1>1 DEF ChatInv, ConnectionOK

LEMMA ChatInitInv == ChatInit => ChatInv
<1> SUFFICES ASSUME ChatInit PROVE ChatInv
  OBVIOUS
<1>1. conversation \in Seq(Conversation)
  <2>1. PICK row : row = [type |-> "EVENT",
          seats |-> [u \in Users |-> IF u = Organizer THEN "ADMIN" ELSE "MEMBER"]]
    OBVIOUS
  <2>2. row \in Conversation
    BY <2>1 DEF Conversation
  <2>3. conversation = <<row>>
    BY <2>1 DEF ChatInit, RoomInit
  <2> QED BY <2>2, <2>3
<1>2. /\ message \in Seq(Message)
      /\ \A m \in DOMAIN message : IsMessage(message[m]) /\ ~message[m].isDeleted
  <2>1. PICK n \in Nat : n = Len(Past) /\ DOMAIN Past = 1 .. n
    BY ChatAssumption
  <2>2. \A m \in 1 .. n : Past[m] \in Nat
    BY <2>1, ChatAssumption
  <2>3. message = [m \in 1 .. n |-> [conversation |-> 1, sender |-> Organizer, at |-> Past[m],
                                     isDeleted |-> FALSE, content |-> "sent"]]
    BY <2>1 DEF ChatInit, RoomInit
  <2>4. \A m \in 1 .. n : message[m] \in Message /\ ~message[m].isDeleted
    BY <2>2, <2>3, ChatAssumption DEF Message
  <2>5. message \in [1 .. n -> Message]
    BY <2>3, <2>4
  <2>6. \A m \in Message : IsMessage(m)
    BY DEF IsMessage, Message
  <2> QED BY <2>1, <2>3, <2>4, <2>5, <2>6
<1>3. ChatType
  BY <1>1, <1>2, ChatIdleOK DEF ChatInit, RoomInit, GateInit, ChatType
<1>4. \A s \in Slots : chat[s].pc = "idle"
  BY ChatIdleOK DEF ChatInit, RoomInit
<1>5. \A k \in Sockets : ConnectionOK(k)
  BY DEF ChatInit, GateInit, ConnectionOK
<1> QED BY <1>2, <1>3, <1>4, <1>5 DEF ChatInv, SocketOK, EditOK, LateEditOnly

-----------------------------------------------------------------------------
(***************************************************************************)
(* What all steps of ChatService have in common: one call goes on, with    *)
(* some statement of ChatService or none; conversations stay.              *)
(***************************************************************************)
\* A call that may be put in a slot by ChatService.
Next1(q) == q = Idle \/ IsRoomCall(q)

RoomMove(s) == \E q : Next1(q) /\ q.pc # "edit" /\ chat' = [chat EXCEPT ![s] = q]

LEMMA KeepsPc ==
  ASSUME NEW c, IsRoomCall(c), NEW l \in RoomLabels \ {"open"}
  PROVE  IsRoomCall([c EXCEPT !.pc = l]) /\ [c EXCEPT !.pc = l].pc = l
BY DEF IsRoomCall

LEMMA IdleMove ==
  ASSUME NEW s, ChatGoto(s, Idle)
  PROVE  RoomMove(s)
BY ChatIdleOK DEF RoomMove, Next1, ChatGoto, Goto

LEMMA RequestMove ==
  ASSUME NEW s, NEW q, IsRoomCall(q), q.pc # "edit", Begins(s, q)
  PROVE  RoomMove(s) /\ UNCHANGED <<conversation, message, late>>
BY DEF RoomMove, Next1, Begins, Begin

LEMMA RequestShape ==
  ASSUME ChatInv, NEW s \in Slots, RoomRequest(s)
  PROVE  /\ UNCHANGED <<conversation, message, late>>
         /\ \/ RoomMove(s)
            \/ \E u \in Users, m \in DOMAIN message :
                 /\ ~message[m].isDeleted
                 /\ chat' = [chat EXCEPT ![s] = [pc |-> "edit", user |-> u, message |-> m]]
<1>1. ASSUME NEW u \in Users, NEW type \in {"DIRECT", "GROUP"}, NEW with \in SUBSET Users,
             CreateConversation(s, u, type, with)
      PROVE  RoomMove(s) /\ UNCHANGED <<conversation, message, late>>
  <2>1. PICK q : q = [pc |-> "open", user |-> u, type |-> type, with |-> with]
    OBVIOUS
  <2>2. IsRoomCall(q) /\ q.pc = "open"
    BY <2>1 DEF IsRoomCall, RoomLabels
  <2> QED BY <1>1, <2>1, <2>2, RequestMove DEF CreateConversation
<1>2. ASSUME NEW u, NEW c, NEW l \in {"store", "mark"},
             Begins(s, [pc |-> l, user |-> u, conversation |-> c])
      PROVE  RoomMove(s) /\ UNCHANGED <<conversation, message, late>>
  <2>1. PICK q : q = [pc |-> l, user |-> u, conversation |-> c]
    OBVIOUS
  <2>2. q.pc = l /\ "pc" \in DOMAIN q
    BY <2>1
  <2>3. IsRoomCall(q) /\ q.pc # "edit"
    BY <2>2 DEF IsRoomCall, RoomLabels
  <2> QED BY <1>2, <2>1, <2>3, RequestMove
<1>3. ASSUME NEW u, NEW c, Scroll(s, u, c)
      PROVE  RoomMove(s) /\ UNCHANGED <<conversation, message, late>>
  <2>1. PICK q : q = [pc |-> "page", user |-> u, conversation |-> c, before |-> 0, seen |-> {},
                      start |-> Live(c)]
    OBVIOUS
  <2>2. IsRoomCall(q) /\ q.pc = "page"
    BY <2>1 DEF IsRoomCall, RoomLabels
  <2>3. Begins(s, q)
    BY <1>3, <2>1 DEF Scroll, Begins, Begin
  <2> QED BY <2>2, <2>3, RequestMove
<1>4. ASSUME NEW u, NEW c, NEW m, NEW l \in {"find", "unpin"},
             Begins(s, [pc |-> l, user |-> u, conversation |-> c, message |-> m])
      PROVE  RoomMove(s) /\ UNCHANGED <<conversation, message, late>>
  <2>1. PICK q : q = [pc |-> l, user |-> u, conversation |-> c, message |-> m]
    OBVIOUS
  <2>2. IsRoomCall(q) /\ q.pc # "edit"
    BY <2>1 DEF IsRoomCall, RoomLabels
  <2> QED BY <1>4, <2>1, <2>2, RequestMove
<1>5. ASSUME NEW u, NEW c, NEW target, KickMember(s, u, c, target)
      PROVE  RoomMove(s) /\ UNCHANGED <<conversation, message, late>>
  <2>1. PICK q : q = [pc |-> "kick", user |-> u, conversation |-> c, target |-> target]
    OBVIOUS
  <2>2. IsRoomCall(q) /\ q.pc = "kick"
    BY <2>1 DEF IsRoomCall, RoomLabels
  <2> QED BY <1>5, <2>1, <2>2, RequestMove DEF KickMember
<1>6. ASSUME NEW u, NEW m, NEW l \in {"delete", "moderate", "reactor"},
             Begins(s, [pc |-> l, user |-> u, message |-> m])
      PROVE  RoomMove(s) /\ UNCHANGED <<conversation, message, late>>
  <2>1. PICK q : q = [pc |-> l, user |-> u, message |-> m]
    OBVIOUS
  <2>2. IsRoomCall(q) /\ q.pc # "edit"
    BY <2>1 DEF IsRoomCall, RoomLabels
  <2> QED BY <1>6, <2>1, <2>2, RequestMove
<1>7. ASSUME NEW u \in Users, NEW m \in DOMAIN message, UpdateMessage(s, u, m)
      PROVE  /\ UNCHANGED <<conversation, message, late>> /\ ~message[m].isDeleted
             /\ chat' = [chat EXCEPT ![s] = [pc |-> "edit", user |-> u, message |-> m]]
  BY <1>7 DEF UpdateMessage, OwnMessage, Begins, Begin
<1>8. ASSUME NEW u \in Users, NEW c \in DOMAIN conversation,
             \/ SendMessage(s, u, c) \/ MarkAsRead(s, u, c) \/ Scroll(s, u, c)
             \/ UnpinMessage(s, u, c)
             \/ \E target \in Users : KickMember(s, u, c, target)
             \/ \E m \in DOMAIN message : PinMessage(s, u, c, m)
      PROVE  RoomMove(s) /\ UNCHANGED <<conversation, message, late>>
  BY <1>2, <1>3, <1>4, <1>5, <1>8 DEF SendMessage, MarkAsRead, UnpinMessage, PinMessage
<1>9. ASSUME NEW u \in Users, NEW m \in DOMAIN message,
             DeleteMessage(s, u, m) \/ ModerateDelete(s, u, m) \/ AddReaction(s, u, m)
      PROVE  RoomMove(s) /\ UNCHANGED <<conversation, message, late>>
  BY <1>6, <1>9 DEF DeleteMessage, ModerateDelete, AddReaction
<1> QED BY <1>1, <1>7, <1>8, <1>9 DEF RoomRequest

LEMMA StepShape ==
  ASSUME ChatInv, NEW s \in Slots, RoomStep(s)
  PROVE  RoomMove(s)
<1> DEFINE c == chat[s]
<1>1. ChatCallType(c)
  BY DEF ChatInv, ChatType
<1>2. ASSUME NEW l \in {"touch", "react", "pin", "scrolled"}, c.pc \in RoomLabels,
             chat' = [chat EXCEPT ![s] = [c EXCEPT !.pc = l]]
      PROVE  RoomMove(s)
  <2>1. IsRoomCall(c)
    BY <1>1, <1>2, ChatCallKinds
  <2>2. l \in RoomLabels \ {"open"}
    BY DEF RoomLabels
  <2>3. PICK q : q = [c EXCEPT !.pc = l]
    OBVIOUS
  <2>4. IsRoomCall(q) /\ q.pc # "edit"
    BY <2>1, <2>2, <2>3, KeepsPc
  <2> QED BY <1>2, <2>3, <2>4 DEF RoomMove, Next1
<1>3. CASE OpenConversation(s) \/ DeleteSeat(s) \/ TouchConversation(s) \/ WriteMessage(s)
           \/ React(s) \/ Scrolled(s) \/ WritePin(s)
  BY <1>3, IdleMove DEF OpenConversation, DeleteSeat, TouchConversation, WriteMessage, React,
                        Scrolled, WritePin
<1>4. CASE StoreMessage(s)
  BY <1>2, <1>4 DEF StoreMessage, RoomLabels, ChatGoto, Goto
<1>5. CASE Reactor(s)
  <2>1. CASE ChatGoto(s, Idle)
    BY <2>1, IdleMove
  <2>2. CASE ~ChatGoto(s, Idle)
    BY <1>2, <1>5, <2>2 DEF Reactor, RoomLabels, ChatGoto, Goto
  <2> QED BY <2>1, <2>2
<1>6. CASE FindPinned(s)
  <2>1. CASE ChatGoto(s, Idle)
    BY <2>1, IdleMove
  <2>2. CASE ~ChatGoto(s, Idle)
    BY <1>2, <1>6, <2>2 DEF FindPinned, RoomLabels, ChatGoto, Goto
  <2> QED BY <2>1, <2>2
<1>7. CASE GetMessages(s)
  <2>1. c.pc = "page" /\ IsRoomCall(c)
    BY <1>1, <1>7, ChatCallKinds DEF GetMessages, RoomLabels
  <2>2. CASE ChatGoto(s, Idle)
    BY <2>2, IdleMove
  <2>3. ASSUME NEW page, ChatGoto(s, [c EXCEPT !.pc = "scrolled", !.seen = @ \cup page])
        PROVE  RoomMove(s)
    <3>1. PICK q : q = [c EXCEPT !.pc = "scrolled", !.seen = @ \cup page]
      OBVIOUS
    <3>2. IsRoomCall(q) /\ q.pc = "scrolled"
      BY <2>1, <3>1 DEF IsRoomCall, RoomLabels
    <3> QED BY <2>3, <3>1, <3>2 DEF RoomMove, Next1, ChatGoto, Goto
  <2>4. ASSUME NEW page, NEW last, ChatGoto(s, [c EXCEPT !.before = last, !.seen = @ \cup page])
        PROVE  RoomMove(s)
    <3>1. PICK q : q = [c EXCEPT !.before = last, !.seen = @ \cup page]
      OBVIOUS
    <3>2. IsRoomCall(q) /\ q.pc = "page"
      BY <2>1, <3>1 DEF IsRoomCall, RoomLabels
    <3> QED BY <2>4, <3>1, <3>2 DEF RoomMove, Next1, ChatGoto, Goto
  <2>5. \/ ChatGoto(s, Idle)
        \/ \E page \in Pages(c.conversation, c.before) :
             \/ ChatGoto(s, [c EXCEPT !.pc = "scrolled", !.seen = @ \cup page])
             \/ \E last \in page : ChatGoto(s, [c EXCEPT !.before = last, !.seen = @ \cup page])
    BY <1>7 DEF GetMessages
  <2> QED BY <2>2, <2>3, <2>4, <2>5
<1> QED BY <1>3, <1>4, <1>5, <1>6, <1>7 DEF RoomStep

-----------------------------------------------------------------------------
(* Conversations stay what they are, up to their seats.                    *)

LEMMA ConversationsStay ==
  ASSUME ChatInv, RoomNext
  PROVE  conversation' \in Seq(Conversation) /\ DOMAIN conversation \subseteq DOMAIN conversation'
<1>1. PICK n \in Nat : n = Len(conversation) /\ DOMAIN conversation = 1 .. n
  BY DEF ChatInv, ChatType
<1>2. conversation \in Seq(Conversation)
  BY DEF ChatInv, ChatType
<1>3. ASSUME NEW c, NEW u, NEW r \in {"MEMBER", None},
             conversation' = [conversation EXCEPT ![c].seats[u] = r]
      PROVE  conversation' \in Seq(Conversation) /\ DOMAIN conversation' = DOMAIN conversation
  <2>1. CASE c \in DOMAIN conversation
    <3>1. c \in 1 .. Len(conversation) /\ conversation[c] \in Conversation
      BY <1>1, <1>2, <2>1, ElementOfSeq
    <3>2. PICK seats : seats = [conversation[c].seats EXCEPT ![u] = r]
      OBVIOUS
    <3>3. seats \in [Users -> {"ADMIN", "MEMBER", None}]
      BY <3>1, <3>2 DEF Conversation
    <3>4. PICK row : row = [conversation[c] EXCEPT !.seats = seats]
      OBVIOUS
    <3>5. row \in Conversation
      BY <3>1, <3>3, <3>4 DEF Conversation
    <3>6. conversation' = [conversation EXCEPT ![c] = row]
      BY <1>3, <3>1, <3>2, <3>4 DEF Conversation
    <3>7. conversation' \in Seq(Conversation) /\ Len(conversation') = Len(conversation)
      BY <1>2, <3>1, <3>5, <3>6, ExceptSeq
    <3> QED BY <1>2, <3>7
  <2>2. CASE c \notin DOMAIN conversation
    <3>1. conversation' = conversation
      BY <1>2, <1>3, <2>2
    <3> QED BY <1>2, <3>1
  <2> QED BY <2>1, <2>2
<1>4. ASSUME NEW s \in Slots, OpenConversation(s)
      PROVE  conversation' \in Seq(Conversation) /\ DOMAIN conversation \subseteq DOMAIN conversation'
  <2>1. PICK c : c = chat[s] /\ c.pc = "open"
    BY <1>4 DEF OpenConversation
  <2>2. PICK row : row = [type |-> c.type, seats |-> [u \in Users |->
          IF u = c.user THEN "ADMIN" ELSE IF u \in c.with THEN "MEMBER" ELSE None]]
    OBVIOUS
  <2>3. conversation' = Append(conversation, row)
    BY <1>4, <2>1, <2>2 DEF OpenConversation
  <2>4. row \in Conversation
    <3>1. c.type \in {"DIRECT", "GROUP"}
      BY <2>1, ChatCallKinds DEF ChatInv, ChatType, RoomLabels, IsRoomCall
    <3> QED BY <2>2, <3>1 DEF Conversation
  <2>5. conversation' \in Seq(Conversation) /\ Len(conversation') = n + 1
    BY <1>1, <1>2, <2>3, <2>4, AppendProperties
  <2> QED BY <1>1, <2>5
<1>5. ASSUME NEW s \in Slots, RoomStep(s)
      PROVE  conversation' \in Seq(Conversation) /\ DOMAIN conversation \subseteq DOMAIN conversation'
  <2>1. CASE OpenConversation(s)
    BY <1>4, <2>1
  <2>2. CASE DeleteSeat(s)
    <3>1. PICK c : c = chat[s]
      OBVIOUS
    <3>2. PICK d, u : conversation' = [conversation EXCEPT ![d].seats[u] = None]
      BY <2>2 DEF DeleteSeat
    <3> QED BY <1>3, <3>2
  <2>3. CASE UNCHANGED conversation
    BY <1>2, <2>3
  <2>4. StoreMessage(s) \/ TouchConversation(s) \/ WriteMessage(s) \/ Reactor(s) \/ React(s)
        => UNCHANGED conversation
    BY DEF StoreMessage, TouchConversation, WriteMessage, Reactor, React, roomVars
  <2>5. GetMessages(s) \/ Scrolled(s) \/ FindPinned(s) \/ WritePin(s) => UNCHANGED conversation
    BY DEF GetMessages, Scrolled, FindPinned, WritePin, roomVars
  <2> QED BY <1>5, <2>1, <2>2, <2>3, <2>4, <2>5 DEF RoomStep
<1>6. ASSUME NEW s \in Slots, RoomRequest(s) PROVE UNCHANGED conversation
  BY <1>6, RequestShape
<1>7. ASSUME NEW u \in Users, JoinEventChat(u)
      PROVE  conversation' \in Seq(Conversation) /\ DOMAIN conversation' = DOMAIN conversation
  BY <1>3, <1>7 DEF JoinEventChat
<1>8. ASSUME NEW u \in Users, NEW c \in DOMAIN conversation, PostBroadcast(u, c)
      PROVE  UNCHANGED conversation
  BY <1>8 DEF PostBroadcast
<1>9. ASSUME NEW u \in Users, NEW m \in DOMAIN message, RemoveReaction(u, m)
      PROVE  UNCHANGED conversation
  BY <1>9 DEF RemoveReaction
<1> QED BY <1>2, <1>5, <1>6, <1>7, <1>8, <1>9 DEF RoomNext

-----------------------------------------------------------------------------
(* Rooms, at a step of ChatService.                                        *)

LEMMA RoomShape ==
  ASSUME ChatInv, RoomNext
  PROVE  \/ UNCHANGED chat
         \/ \E s \in Slots : RoomMove(s)
         \/ \E s \in Slots, u \in Users, m \in DOMAIN message :
              /\ ~message[m].isDeleted
              /\ chat' = [chat EXCEPT ![s] = [pc |-> "edit", user |-> u, message |-> m]]
<1>1. ASSUME NEW u \in Users, JoinEventChat(u) PROVE UNCHANGED chat
  BY <1>1 DEF JoinEventChat
<1>2. ASSUME NEW u \in Users, NEW c \in DOMAIN conversation, PostBroadcast(u, c)
      PROVE  UNCHANGED chat
  BY <1>2 DEF PostBroadcast
<1>3. ASSUME NEW u \in Users, NEW m \in DOMAIN message, RemoveReaction(u, m)
      PROVE  UNCHANGED chat
  BY <1>3 DEF RemoveReaction
<1> QED BY <1>1, <1>2, <1>3, RequestShape, StepShape DEF RoomNext

\* A slot that has changed has a call of ChatService or none.
LEMMA RoomSlots ==
  ASSUME ChatInv, RoomNext
  PROVE  /\ chat' = [t \in Slots |-> chat'[t]]
         /\ \A t \in Slots : ChatCallType(chat'[t])
         /\ \A t \in Slots : chat'[t] = chat[t] \/ chat'[t].pc \notin {"seats", "enter", "join"}
<1>1. CASE UNCHANGED chat
  BY <1>1 DEF ChatInv, ChatType
<1>2. ASSUME NEW s \in Slots, NEW q, Next1(q), chat' = [chat EXCEPT ![s] = q]
      PROVE  /\ chat' = [t \in Slots |-> chat'[t]]
             /\ \A t \in Slots : ChatCallType(chat'[t])
             /\ \A t \in Slots : chat'[t] = chat[t] \/ chat'[t].pc \notin {"seats", "enter", "join"}
  <2>1. ChatCallType(q) /\ q.pc \notin {"seats", "enter", "join"}
    BY <1>2, ChatIdleOK DEF Next1, ChatCallType, IsRoomCall, RoomLabels
  <2>2. \A t \in Slots : chat'[t] = IF t = s THEN q ELSE chat[t]
    BY <1>2 DEF ChatInv, ChatType
  <2>3. chat' = [t \in Slots |-> chat'[t]]
    BY <1>2 DEF ChatInv, ChatType
  <2> QED BY <2>1, <2>2, <2>3 DEF ChatInv, ChatType
<1>3. ASSUME NEW u, NEW m PROVE Next1([pc |-> "edit", user |-> u, message |-> m])
  BY DEF Next1, IsRoomCall, RoomLabels
<1> QED BY <1>1, <1>2, <1>3, RoomShape DEF RoomMove

\* Who loses a seat excuses the sockets that have been theirs.
LEMMA CoveredStays ==
  ASSUME ChatInv, ServiceStep, NEW k \in Sockets, socket[k] # None,
         NEW c \in DOMAIN conversation, Covered(k, c)
  PROVE  Covered(k, c)'
<1>1. /\ UNCHANGED <<socket, been>>
      /\ excused' = excused \cup
           {e \in Sockets \X DOMAIN conversation : \E u \in been[e[1]] : Lost(e[2], u)}
  BY DEF ServiceStep
<1>2. CASE <<k, c>> \in excused
  BY <1>1, <1>2 DEF Covered
<1>3. CASE <<k, c>> \notin excused
  <2>1. PICK u \in Users : u \in been[k] /\ Member(c, u)
    BY <1>3 DEF Covered, Members
  <2>2. CASE conversation'[c].seats[u] # None
    BY <1>1, <2>1, <2>2 DEF Covered, Members, Member
  <2>3. CASE conversation'[c].seats[u] = None
    <3>1. PICK e : e = <<k, c>>
      OBVIOUS
    <3>2. e \in Sockets \X DOMAIN conversation /\ e[1] = k /\ e[2] = c
      BY <3>1
    <3>3. Lost(c, u)
      BY <2>1, <2>3 DEF Lost
    <3>4. e \in excused'
      BY <1>1, <2>1, <3>2, <3>3
    <3> QED BY <3>1, <3>4 DEF Covered
  <2> QED BY <2>2, <2>3
<1> QED BY <1>2, <1>3

LEMMA RoomsAtService ==
  ASSUME ChatInv, ServiceStep
  PROVE  /\ \A t \in Slots : SocketOK(chat[t])'
         /\ \A k \in Sockets : ConnectionOK(k)'
<1>1. RoomNext /\ UNCHANGED <<socket, been>>
  BY DEF ServiceStep
<1>2. DOMAIN conversation \subseteq DOMAIN conversation'
  BY <1>1, ConversationsStay
<1>3. ASSUME NEW t \in Slots PROVE SocketOK(chat[t])'
  <2>1. CASE chat'[t].pc \notin {"seats", "enter", "join"}
    BY <2>1 DEF SocketOK
  <2>2. CASE chat'[t].pc \in {"seats", "enter", "join"}
    <3>1. PICK c : c = chat[t]
      OBVIOUS
    <3>2. chat'[t] = c /\ c.pc \in {"seats", "enter", "join"} /\ ChatCallType(c) /\ SocketOK(c)
      BY <1>1, <2>2, <3>1, RoomSlots DEF ChatInv, ChatType
    <3>3. PICK k : k = c.socket /\ k \in Sockets
      BY <3>2, ChatCallKinds DEF RoomsCall, JoinCall
    <3>4. CASE socket[k] = None
      BY <1>1, <3>2, <3>3, <3>4 DEF SocketOK
    <3>5. CASE socket[k] # None
      <4>1. c.user \in been[k]
        BY <3>2, <3>3, <3>5 DEF SocketOK
      <4>2. ASSUME NEW d \in c.rooms, c.pc # "seats"
            PROVE  d \in DOMAIN conversation' /\ Covered(k, d)'
        <5>1. d \in DOMAIN conversation /\ Covered(k, d)
          BY <3>2, <3>3, <3>5, <4>2 DEF SocketOK
        <5> QED BY <1>2, <3>3, <3>5, <5>1, CoveredStays
      <4> QED BY <1>1, <3>2, <3>3, <4>1, <4>2 DEF SocketOK, Covered, Members, Member
    <3> QED BY <3>4, <3>5
  <2> QED BY <2>1, <2>2
<1>4. ASSUME NEW k \in Sockets PROVE ConnectionOK(k)'
  <2> SUFFICES ASSUME socket[k] # None
               PROVE  /\ socket[k].user \in been[k]
                      /\ \A c \in socket[k].rooms : c \in DOMAIN conversation' /\ Covered(k, c)'
    BY <1>1 DEF ConnectionOK, Covered, Members, Member
  <2>1. ConnectionOK(k)
    BY DEF ChatInv
  <2> QED BY <1>2, <2>1, CoveredStays DEF ConnectionOK
<1> QED BY <1>3, <1>4

-----------------------------------------------------------------------------
(* Messages, at a step of ChatService.                                     *)

LEMMA AppendAny ==
  ASSUME NEW S, NEW seq \in Seq(S), NEW row
  PROVE  /\ Append(seq, row) \in Seq(S \cup {row})
         /\ DOMAIN Append(seq, row) = DOMAIN seq \cup {Len(seq) + 1}
         /\ Len(seq) + 1 \notin DOMAIN seq
         /\ \A i \in DOMAIN seq : Append(seq, row)[i] = seq[i]
         /\ Append(seq, row)[Len(seq) + 1] = row
<1>1. seq \in Seq(S \cup {row})
  OBVIOUS
<1>2. PICK n \in Nat : n = Len(seq) /\ DOMAIN seq = 1 .. n
  OBVIOUS
<1>3. /\ Append(seq, row) \in Seq(S \cup {row}) /\ Len(Append(seq, row)) = n + 1
      /\ \A i \in 1 .. n : Append(seq, row)[i] = seq[i]
      /\ Append(seq, row)[n + 1] = row
  BY <1>1, <1>2, AppendProperties
<1>4. DOMAIN Append(seq, row) = 1 .. n + 1
  BY <1>3
<1> QED BY <1>2, <1>3, <1>4

LEMMA ExceptAny ==
  ASSUME NEW S, NEW seq \in Seq(S), NEW i \in DOMAIN seq, NEW row
  PROVE  /\ [seq EXCEPT ![i] = row] \in Seq(S \cup {row})
         /\ DOMAIN [seq EXCEPT ![i] = row] = DOMAIN seq
         /\ \A j \in DOMAIN seq : [seq EXCEPT ![i] = row][j] = IF j = i THEN row ELSE seq[j]
<1>1. seq \in Seq(S \cup {row}) /\ i \in 1 .. Len(seq)
  OBVIOUS
<1>2. [seq EXCEPT ![i] = row] \in Seq(S \cup {row})
  BY <1>1, ExceptSeq
<1> QED BY <1>2

LEMMA PostStep ==
  ASSUME ChatInv, NEW u, NEW c, Posted(c, u), UNCHANGED late
  PROVE  /\ \E S : message' \in Seq(S)
         /\ \A m \in DOMAIN message' : IsMessage(message'[m])
         /\ LateEditOnly'
         /\ \A q : EditOK(q) => EditOK(q)'
<1>1. PICK at : message' = Append(message, [conversation |-> c, sender |-> u, at |-> at,
                                            isDeleted |-> FALSE, content |-> "sent"])
  BY DEF Posted
<1>2. PICK row : row = [conversation |-> c, sender |-> u, at |-> at,
                        isDeleted |-> FALSE, content |-> "sent"]
  OBVIOUS
<1>3. IsMessage(row) /\ ~row.isDeleted
  BY <1>2 DEF IsMessage
<1>4. PICK S : message \in Seq(S)
  BY DEF ChatInv, ChatType
<1>5. PICK n : n = Len(message) + 1
  OBVIOUS
<1>6. /\ message' \in Seq(S \cup {row})
      /\ DOMAIN message' = DOMAIN message \cup {n} /\ n \notin DOMAIN message
      /\ \A m \in DOMAIN message : message'[m] = message[m]
      /\ message'[n] = row
  BY <1>1, <1>2, <1>4, <1>5, AppendAny
<1>7. \A m \in DOMAIN message' : IsMessage(message'[m])
  BY <1>3, <1>6 DEF ChatInv, ChatType
<1>8. LateEditOnly'
  BY <1>3, <1>6 DEF ChatInv, LateEditOnly
<1>9. \A q : EditOK(q) => EditOK(q)'
  BY <1>6 DEF EditOK
<1> QED BY <1>6, <1>7, <1>8, <1>9

LEMMA WriteMessageStep ==
  ASSUME ChatInv, NEW s \in Slots, WriteMessage(s)
  PROVE  /\ \E S : message' \in Seq(S)
         /\ \A m \in DOMAIN message' : IsMessage(message'[m])
         /\ LateEditOnly'
         /\ \A t \in Slots : EditOK(chat[t]) => EditOK(chat[t])'
<1>1. PICK c, m : c = chat[s] /\ m = c.message
  OBVIOUS
<1>2. c.pc \in {"edit", "delete", "moderate"}
  BY <1>1 DEF WriteMessage
<1>3. PICK text : text = CASE c.pc = "edit" -> "edited" [] c.pc = "delete" -> None
                           [] c.pc = "moderate" -> "removed"
  OBVIOUS
<1>4. /\ c.pc # "edit" => text \notin {"sent", "edited"}
      /\ message' = [message EXCEPT ![m].content = text,
                                    ![m].isDeleted = @ \/ c.pc # "edit"]
      /\ late' = IF c.pc # "edit" /\ \E t \in Slots : chat[t].pc = "edit" /\ chat[t].message = m
                 THEN late \cup {m} ELSE late
      /\ \A t \in Slots : t # s => chat'[t] = chat[t]
      /\ chat'[s] = Idle
  BY <1>1, <1>2, <1>3, ChatAssumption DEF WriteMessage, ChatGoto, Goto, ChatInv, ChatType
<1>5. PICK S : message \in Seq(S)
  BY DEF ChatInv, ChatType
<1>6. CASE m \notin DOMAIN message
  <2>1. message' = message
    BY <1>4, <1>5, <1>6
  <2>2. late \subseteq late'
    BY <1>4
  <2>3. \A t \in Slots : EditOK(chat[t]) => EditOK(chat[t])'
    BY <1>4, <2>1, <2>2, ChatIdleOK DEF EditOK
  <2> QED BY <1>5, <2>1, <2>2, <2>3 DEF ChatInv, ChatType, LateEditOnly
<1>7. CASE m \in DOMAIN message
  <2>1. PICK old : old = message[m] /\ IsMessage(old)
    BY <1>7 DEF ChatInv, ChatType
  <2>2. \E d \in BOOLEAN : d <=> (old.isDeleted \/ c.pc # "edit")
    OBVIOUS
  <2>3. PICK row : row = [old EXCEPT !.content = text, !.isDeleted = @ \/ c.pc # "edit"]
    OBVIOUS
  <2>4. IsMessage(row) /\ row.content = text /\ (row.isDeleted <=> (old.isDeleted \/ c.pc # "edit"))
    BY <2>1, <2>3 DEF IsMessage
  <2>5. message' = [message EXCEPT ![m] = row]
    BY <1>4, <1>5, <1>7, <2>1, <2>3
  <2>6. /\ message' \in Seq(S \cup {row}) /\ DOMAIN message' = DOMAIN message
        /\ \A j \in DOMAIN message : message'[j] = IF j = m THEN row ELSE message[j]
    BY <1>5, <1>7, <2>5, ExceptAny
  <2>7. \A j \in DOMAIN message' : IsMessage(message'[j])
    BY <2>4, <2>6 DEF ChatInv, ChatType
  <2>8. LateEditOnly'
    <3> SUFFICES ASSUME NEW j \in DOMAIN message, message'[j].isDeleted,
                        message'[j].content \in {"sent", "edited"}
                 PROVE  j \in late'
      BY <2>6 DEF LateEditOnly
    <3>1. CASE j # m
      BY <1>4, <2>6, <3>1 DEF ChatInv, LateEditOnly
    <3>2. CASE j = m
      <4>1. c.pc = "edit"
        BY <1>4, <2>4, <2>6, <3>2
      <4>2. old.isDeleted
        BY <2>4, <2>6, <3>2, <4>1
      <4> QED BY <1>1, <1>4, <2>1, <3>2, <4>1, <4>2 DEF ChatInv, EditOK
    <3> QED BY <3>1, <3>2
  <2>9. ASSUME NEW t \in Slots, EditOK(chat[t]) PROVE EditOK(chat[t])'
    <3> SUFFICES ASSUME chat'[t].pc = "edit"
                 PROVE  /\ chat'[t].message \in DOMAIN message'
                        /\ message'[chat'[t].message].isDeleted => chat'[t].message \in late'
      BY DEF EditOK
    <3>1. t # s /\ chat'[t] = chat[t]
      BY <1>4, ChatIdleOK
    <3>2. PICK j : j = chat[t].message /\ j \in DOMAIN message
      BY <2>9, <3>1 DEF EditOK
    <3>3. CASE j # m
      BY <1>4, <2>6, <2>9, <3>1, <3>2, <3>3 DEF EditOK
    <3>4. CASE j = m /\ c.pc # "edit"
      BY <1>4, <2>6, <3>1, <3>2, <3>4
    <3>5. CASE j = m /\ c.pc = "edit"
      BY <1>4, <2>1, <2>4, <2>6, <2>9, <3>1, <3>2, <3>5 DEF EditOK
    <3> QED BY <3>3, <3>4, <3>5
  <2> QED BY <2>6, <2>7, <2>8, <2>9
<1> QED BY <1>6, <1>7

\* Edits, when no message that was there becomes deleted unnoticed.
LEMMA EditsAtMove ==
  ASSUME ChatInv, \A q : EditOK(q) => EditOK(q)',
         UNCHANGED chat \/ \E s \in Slots : RoomMove(s)
  PROVE  \A t \in Slots : EditOK(chat[t])'
<1> SUFFICES ASSUME NEW t \in Slots PROVE EditOK(chat[t])'
  OBVIOUS
<1>1. CASE chat'[t] = chat[t]
  <2>1. PICK q : q = chat[t] /\ EditOK(q)
    BY DEF ChatInv
  <2>2. EditOK(q)'
    BY <2>1
  <2> QED BY <1>1, <2>1, <2>2 DEF EditOK
<1>2. CASE chat'[t] # chat[t]
  <2>1. chat'[t].pc # "edit"
    BY <1>2 DEF RoomMove, ChatInv, ChatType
  <2> QED BY <2>1 DEF EditOK
<1> QED BY <1>1, <1>2

LEMMA MessagesStay ==
  ASSUME ChatInv, UNCHANGED <<message, late>>
  PROVE  /\ \E S : message' \in Seq(S)
         /\ \A m \in DOMAIN message' : IsMessage(message'[m])
         /\ LateEditOnly'
         /\ \A q : EditOK(q) => EditOK(q)'
BY DEF ChatInv, ChatType, LateEditOnly, EditOK

LEMMA MessagesAtService ==
  ASSUME ChatInv, RoomNext
  PROVE  /\ \E S : message' \in Seq(S)
         /\ \A m \in DOMAIN message' : IsMessage(message'[m])
         /\ LateEditOnly'
         /\ \A t \in Slots : EditOK(chat[t])'
<1>1. ASSUME UNCHANGED <<message, late>>, UNCHANGED chat \/ \E s \in Slots : RoomMove(s)
      PROVE  /\ \E S : message' \in Seq(S)
             /\ \A m \in DOMAIN message' : IsMessage(message'[m])
             /\ LateEditOnly'
             /\ \A t \in Slots : EditOK(chat[t])'
  BY <1>1, MessagesStay, EditsAtMove
<1>2. ASSUME NEW u, NEW c, Posted(c, u), UNCHANGED late,
             UNCHANGED chat \/ \E s \in Slots : RoomMove(s)
      PROVE  /\ \E S : message' \in Seq(S)
             /\ \A m \in DOMAIN message' : IsMessage(message'[m])
             /\ LateEditOnly'
             /\ \A t \in Slots : EditOK(chat[t])'
  BY <1>2, PostStep, EditsAtMove
<1>3. ASSUME NEW s \in Slots, NEW u \in Users, NEW m \in DOMAIN message,
             UNCHANGED <<message, late>>, ~message[m].isDeleted,
             chat' = [chat EXCEPT ![s] = [pc |-> "edit", user |-> u, message |-> m]]
      PROVE  /\ \E S : message' \in Seq(S)
             /\ \A n \in DOMAIN message' : IsMessage(message'[n])
             /\ LateEditOnly'
             /\ \A t \in Slots : EditOK(chat[t])'
  <2>1. ASSUME NEW t \in Slots PROVE EditOK(chat[t])'
    <3>1. CASE t = s
      <4>1. chat'[s].message = m
        BY <1>3 DEF ChatInv, ChatType
      <4> QED BY <1>3, <3>1, <4>1 DEF EditOK
    <3>2. CASE t # s
      <4>1. PICK q : q = chat[t] /\ EditOK(q)
        BY DEF ChatInv
      <4>2. EditOK(q)'
        BY <1>3, <4>1, MessagesStay
      <4>3. chat'[t] = q
        BY <1>3, <3>2, <4>1 DEF ChatInv, ChatType
      <4> QED BY <4>2, <4>3 DEF EditOK
    <3> QED BY <3>1, <3>2
  <2> QED BY <1>3, <2>1, MessagesStay
<1>4. ASSUME NEW s \in Slots, RoomRequest(s)
      PROVE  /\ \E S : message' \in Seq(S)
             /\ \A n \in DOMAIN message' : IsMessage(message'[n])
             /\ LateEditOnly'
             /\ \A t \in Slots : EditOK(chat[t])'
  BY <1>1, <1>3, <1>4, RequestShape
<1>5. ASSUME NEW s \in Slots, RoomStep(s)
      PROVE  /\ \E S : message' \in Seq(S)
             /\ \A n \in DOMAIN message' : IsMessage(message'[n])
             /\ LateEditOnly'
             /\ \A t \in Slots : EditOK(chat[t])'
  <2>1. CASE WriteMessage(s)
    BY <2>1, WriteMessageStep DEF ChatInv
  <2>2. CASE StoreMessage(s)
    BY <1>2, <1>5, <2>2, StepShape DEF StoreMessage
  <2>3. CASE UNCHANGED <<message, late>>
    BY <1>1, <1>5, <2>3, StepShape
  <2>4. OpenConversation(s) \/ DeleteSeat(s) \/ TouchConversation(s) \/ Reactor(s) \/ React(s)
        => UNCHANGED <<message, late>>
    BY DEF OpenConversation, DeleteSeat, TouchConversation, Reactor, React, roomVars
  <2>5. GetMessages(s) \/ Scrolled(s) \/ FindPinned(s) \/ WritePin(s) => UNCHANGED <<message, late>>
    BY DEF GetMessages, Scrolled, FindPinned, WritePin, roomVars
  <2> QED BY <1>5, <2>1, <2>2, <2>3, <2>4, <2>5 DEF RoomStep
<1>6. ASSUME NEW u \in Users, JoinEventChat(u)
      PROVE  UNCHANGED <<message, late, chat>>
  BY <1>6 DEF JoinEventChat
<1>7. ASSUME NEW u \in Users, NEW m \in DOMAIN message, RemoveReaction(u, m)
      PROVE  UNCHANGED <<message, late, chat>>
  BY <1>7 DEF RemoveReaction
<1>8. ASSUME NEW u \in Users, NEW c \in DOMAIN conversation, PostBroadcast(u, c)
      PROVE  Posted(c, u) /\ UNCHANGED <<late, chat>>
  BY <1>8 DEF PostBroadcast
<1> QED BY <1>1, <1>2, <1>4, <1>5, <1>6, <1>7, <1>8 DEF RoomNext

-----------------------------------------------------------------------------
(***************************************************************************)
(* The gateway's own steps.                                                *)
(***************************************************************************)
\* A step that leaves the tables alone and puts one call in one slot.
LEMMA GateMove ==
  ASSUME ChatInv, NEW s \in Slots, NEW q, ChatCallType(q), q.pc # "edit",
         chat' = [chat EXCEPT ![s] = q], UNCHANGED <<conversation, message, late>>
  PROVE  /\ chat' = [t \in Slots |-> chat'[t]]
         /\ \A t \in Slots : chat'[t] = IF t = s THEN q ELSE chat[t]
         /\ \A t \in Slots : ChatCallType(chat'[t])
         /\ \A t \in Slots : EditOK(chat[t])'
         /\ LateEditOnly'
<1>1. \A t \in Slots : chat'[t] = IF t = s THEN q ELSE chat[t]
  BY DEF ChatInv, ChatType
<1>2. chat' = [t \in Slots |-> chat'[t]]
  BY DEF ChatInv, ChatType
<1>3. ASSUME NEW t \in Slots PROVE ChatCallType(chat'[t]) /\ EditOK(chat[t])'
  <2>1. CASE t = s
    BY <1>1, <2>1 DEF EditOK
  <2>2. CASE t # s
    <3>1. PICK c : c = chat[t] /\ chat'[t] = c /\ ChatCallType(c) /\ EditOK(c)
      BY <1>1, <2>2 DEF ChatInv, ChatType
    <3>2. EditOK(c)'
      BY <3>1, MessagesStay
    <3> QED BY <3>1, <3>2 DEF EditOK
  <2> QED BY <2>1, <2>2
<1> QED BY <1>1, <1>2, <1>3, MessagesStay

\* A step that also leaves the connections alone.
LEMMA ChatQuietMove ==
  ASSUME ChatInv, NEW s \in Slots, NEW q, ChatCallType(q), q.pc # "edit", SocketOK(q),
         chat' = [chat EXCEPT ![s] = q],
         UNCHANGED <<conversation, message, late, socket, been, excused>>
  PROVE  ChatInv'
<1>1. ASSUME NEW t \in Slots PROVE SocketOK(chat[t])'
  <2>1. PICK c : c = chat'[t] /\ SocketOK(c)
    BY GateMove DEF ChatInv
  <2>2. SocketOK(c)'
    BY <2>1 DEF SocketOK, Covered, Members, Member
  <2> QED BY <2>1, <2>2 DEF SocketOK
<1>2. \A k \in Sockets : ConnectionOK(k)'
  BY DEF ChatInv, ConnectionOK, Covered, Members, Member
<1>3. ChatType'
  BY GateMove DEF ChatInv, ChatType
<1> QED BY <1>1, <1>2, <1>3, GateMove DEF ChatInv

LEMMA ReadSeatsStep ==
  ASSUME ChatInv, NEW s \in Slots, ReadSeats(s)
  PROVE  ChatInv'
<1>1. PICK c : c = chat[s] /\ c.pc = "seats" /\ ChatCallType(c) /\ SocketOK(c)
  BY DEF ReadSeats, ChatInv, ChatType
<1>2. c \in RoomsCall
  BY <1>1, ChatCallKinds
<1>3. PICK rooms : rooms = SeatsOf(c.user)
  OBVIOUS
<1>4. PICK n \in Nat : DOMAIN conversation = 1 .. n
  BY DEF ChatInv, ChatType
<1>5. rooms \in SUBSET Nat /\ \A d \in rooms : d \in DOMAIN conversation /\ Member(d, c.user)
  BY <1>3, <1>4 DEF SeatsOf
<1>6. PICK q : q = [c EXCEPT !.pc = "enter", !.rooms = rooms]
  OBVIOUS
<1>7. /\ q \in RoomsCall /\ q.pc = "enter" /\ q.user = c.user /\ q.socket = c.socket
      /\ q.rooms = rooms
  BY <1>2, <1>5, <1>6 DEF RoomsCall
<1>8. ChatCallType(q)
  BY <1>7 DEF ChatCallType, GateCall
<1>9. SocketOK(q)
  BY <1>1, <1>2, <1>5, <1>7 DEF SocketOK, RoomsCall, Covered, Members
<1>10. /\ chat' = [chat EXCEPT ![s] = q]
       /\ UNCHANGED <<conversation, message, late, socket, been, excused>>
  BY <1>1, <1>3, <1>6 DEF ReadSeats, ChatGoto, Goto, roomVars, gateVars
<1> QED BY <1>7, <1>8, <1>9, <1>10, ChatQuietMove

LEMMA EnterRoomsStep ==
  ASSUME ChatInv, NEW s \in Slots, EnterRooms(s)
  PROVE  ChatInv'
<1>1. PICK c : c = chat[s] /\ c.pc \in {"enter", "join"} /\ ChatCallType(c) /\ SocketOK(c)
  BY DEF EnterRooms, ChatInv, ChatType
<1>2. c \in RoomsCall \cup JoinCall
  BY <1>1, ChatCallKinds
<1>3. PICK q : q = IF c.pc = "join" THEN Idle
                   ELSE [pc |-> "presence", user |-> c.user, status |-> "ONLINE"]
  OBVIOUS
<1>4. ChatCallType(q) /\ q.pc \in {"idle", "presence"}
  <2>1. CASE c.pc = "join"
    BY <1>3, <2>1, ChatIdleOK
  <2>2. CASE c.pc # "join"
    BY <1>2, <1>3, <2>2 DEF ChatCallType, GateCall, PresenceCall, RoomsCall, JoinCall
  <2> QED BY <2>1, <2>2
<1>5. PICK k : k = c.socket
  OBVIOUS
<1>6. /\ chat' = [chat EXCEPT ![s] = q]
      /\ UNCHANGED <<conversation, message, late, been, excused>>
      /\ socket' = IF socket[k] = None THEN socket
                   ELSE [socket EXCEPT ![k].rooms = @ \cup c.rooms]
  BY <1>1, <1>3, <1>5 DEF EnterRooms, ChatGoto, Goto, roomVars
<1>7. k \in Sockets /\ c.rooms \in SUBSET Nat
  BY <1>2, <1>5 DEF RoomsCall, JoinCall
<1>8. CASE socket[k] = None
  <2>1. SocketOK(q)
    BY <1>4 DEF SocketOK
  <2> QED BY <1>4, <1>6, <1>8, <2>1, ChatQuietMove
<1>9. CASE socket[k] # None
  <2>1. PICK old : old = socket[k] /\ old \in Connection
    BY <1>7, <1>9 DEF ChatInv, ChatType
  <2>2. PICK row : row = [old EXCEPT !.rooms = @ \cup c.rooms]
    OBVIOUS
  <2>3. row \in Connection /\ row.user = old.user /\ row.rooms = old.rooms \cup c.rooms
    BY <1>7, <2>1, <2>2 DEF Connection
  <2>4. socket' = [socket EXCEPT ![k] = row]
    BY <1>6, <1>7, <1>9, <2>1, <2>2 DEF ChatInv, ChatType
  <2>5. \A j \in Sockets : socket'[j] = IF j = k THEN row ELSE socket[j]
    BY <2>4 DEF ChatInv, ChatType
  <2>6. \A j \in Sockets : socket'[j] # None => socket[j] # None
    BY <1>9, <2>5
  <2>7. ASSUME NEW t \in Slots PROVE SocketOK(chat[t])'
    <3>1. CASE t = s
      <4>1. chat'[t] = q
        BY <1>6, <3>1 DEF ChatInv, ChatType
      <4> QED BY <1>4, <4>1 DEF SocketOK
    <3>2. CASE t # s
      <4>1. PICK d : d = chat[t] /\ ChatCallType(d) /\ SocketOK(d)
        BY DEF ChatInv, ChatType
      <4>2. chat'[t] = d
        BY <1>6, <3>2, <4>1 DEF ChatInv, ChatType
      <4>3. d.pc \in {"seats", "enter", "join"} => d.socket \in Sockets
        BY <4>1, ChatCallKinds DEF RoomsCall, JoinCall
      <4> QED BY <1>6, <2>6, <4>1, <4>2, <4>3 DEF SocketOK, Covered, Members, Member
    <3> QED BY <3>1, <3>2
  <2>8. ASSUME NEW j \in Sockets PROVE ConnectionOK(j)'
    <3>1. CASE j = k
      <4>1. \A d \in c.rooms : d \in DOMAIN conversation /\ Covered(k, d)
        BY <1>1, <1>5, <1>9 DEF SocketOK
      <4>2. old.user \in been[k] /\ \A d \in old.rooms : d \in DOMAIN conversation /\ Covered(k, d)
        BY <1>7, <1>9, <2>1 DEF ChatInv, ConnectionOK
      <4> QED BY <1>6, <2>3, <2>5, <3>1, <4>1, <4>2 DEF ConnectionOK, Covered, Members, Member
    <3>2. CASE j # k
      <4>1. ConnectionOK(j)
        BY DEF ChatInv
      <4> QED BY <1>6, <2>5, <3>2, <4>1 DEF ConnectionOK, Covered, Members, Member
    <3> QED BY <3>1, <3>2
  <2>9. socket' \in [Sockets -> Connection \cup {None}]
    BY <2>3, <2>4 DEF ChatInv, ChatType
  <2>10. ChatType'
    BY <1>4, <1>6, <2>9, GateMove DEF ChatInv, ChatType
  <2> QED BY <1>4, <1>6, <2>7, <2>8, <2>10, GateMove DEF ChatInv
<1> QED BY <1>8, <1>9

LEMMA AuthenticateStep ==
  ASSUME ChatInv, NEW s \in Slots, NEW k \in Sockets, NEW u \in Users,
         AuthenticateSocket(s, k, u)
  PROVE  ChatInv'
<1>1. PICK q : q = [pc |-> "seats", user |-> u, socket |-> k, rooms |-> {}]
  OBVIOUS
<1>2. q \in RoomsCall /\ q.pc = "seats" /\ q.user = u /\ q.socket = k
  BY <1>1 DEF RoomsCall
<1>3. ChatCallType(q)
  BY <1>2 DEF ChatCallType, GateCall
<1>4. /\ chat' = [chat EXCEPT ![s] = q]
      /\ UNCHANGED <<conversation, message, late, excused>>
      /\ been' = [been EXCEPT ![k] = @ \cup {u}]
      /\ socket' = [socket EXCEPT ![k] = IF @ = None THEN [user |-> u, rooms |-> {}]
                                         ELSE [@ EXCEPT !.user = u]]
      /\ \A t \in Slots : ~Names(t, k) \/ socket[k] # None
  BY <1>1 DEF AuthenticateSocket, GateBegins, Begin, roomVars
<1>5. PICK row : row = IF socket[k] = None THEN [user |-> u, rooms |-> {}]
                       ELSE [socket[k] EXCEPT !.user = u]
  OBVIOUS
<1>6. /\ row \in Connection /\ row.user = u
      /\ row.rooms = IF socket[k] = None THEN {} ELSE socket[k].rooms
  <2>1. CASE socket[k] = None
    BY <1>5, <2>1 DEF Connection
  <2>2. CASE socket[k] # None
    <3>1. socket[k] \in Connection
      BY <2>2 DEF ChatInv, ChatType
    <3> QED BY <1>5, <2>2, <3>1 DEF Connection
  <2> QED BY <2>1, <2>2
<1>7. socket' = [socket EXCEPT ![k] = row]
  BY <1>4, <1>5 DEF ChatInv, ChatType
<1>8. \A j \in Sockets : socket'[j] = IF j = k THEN row ELSE socket[j]
  BY <1>7 DEF ChatInv, ChatType
<1>9. \A j \in Sockets : been[j] \subseteq been'[j]
  BY <1>4 DEF ChatInv, ChatType
<1>10. u \in been'[k]
  BY <1>4 DEF ChatInv, ChatType
<1>11. ASSUME NEW j \in Sockets, NEW d \in DOMAIN conversation, Covered(j, d) PROVE Covered(j, d)'
  BY <1>4, <1>9, <1>11 DEF Covered, Members, Member
<1>12. ASSUME NEW t \in Slots PROVE SocketOK(chat[t])'
  <2>1. CASE t = s
    <3>1. chat'[t] = q
      BY <1>4, <2>1 DEF ChatInv, ChatType
    <3> QED BY <1>2, <1>10, <3>1 DEF SocketOK
  <2>2. CASE t # s
    <3>1. PICK d : d = chat[t] /\ ChatCallType(d) /\ SocketOK(d)
      BY DEF ChatInv, ChatType
    <3>2. chat'[t] = d
      BY <1>4, <2>2, <3>1 DEF ChatInv, ChatType
    <3>3. CASE d.pc \notin {"seats", "enter", "join"}
      BY <3>2, <3>3 DEF SocketOK
    <3>4. CASE d.pc \in {"seats", "enter", "join"}
      <4>1. d \in RoomsCall \cup JoinCall
        BY <3>1, <3>4, ChatCallKinds
      <4>2. d.socket \in Sockets /\ "socket" \in DOMAIN d
        BY <4>1 DEF RoomsCall, JoinCall
      <4>3. PICK j : j = d.socket /\ j \in Sockets
        BY <4>2
      <4>4. socket'[j] # None => socket[j] # None
        BY <1>4, <1>8, <3>1, <4>2, <4>3 DEF Names
      <4>5. socket[j] # None =>
              /\ d.user \in been[j]
              /\ d.pc # "seats" => \A e \in d.rooms : e \in DOMAIN conversation /\ Covered(j, e)
        BY <3>1, <3>4, <4>3 DEF SocketOK
      <4>6. socket[j] # None =>
              /\ d.user \in been'[j]
              /\ d.pc # "seats" => \A e \in d.rooms : e \in DOMAIN conversation' /\ Covered(j, e)'
        BY <1>4, <1>9, <1>11, <4>3, <4>5
      <4> QED BY <3>2, <4>3, <4>4, <4>6 DEF SocketOK, Covered, Members, Member
    <3> QED BY <3>3, <3>4
  <2> QED BY <2>1, <2>2
<1>13. ASSUME NEW j \in Sockets PROVE ConnectionOK(j)'
  <2>1. ConnectionOK(j)
    BY DEF ChatInv
  <2>2. CASE j = k
    <3>1. \A d \in row.rooms : d \in DOMAIN conversation /\ Covered(j, d)
      BY <1>6, <2>1, <2>2 DEF ConnectionOK
    <3>2. \A d \in row.rooms : d \in DOMAIN conversation' /\ Covered(j, d)'
      BY <1>4, <1>11, <3>1
    <3> QED BY <1>6, <1>8, <1>10, <2>2, <3>2 DEF ConnectionOK
  <2>3. CASE j # k
    BY <1>4, <1>8, <1>9, <1>11, <2>1, <2>3 DEF ConnectionOK
  <2> QED BY <2>2, <2>3
<1>14. socket' \in [Sockets -> Connection \cup {None}]
  BY <1>6, <1>7 DEF ChatInv, ChatType
<1>15. been' \in [Sockets -> SUBSET Users]
  BY <1>4 DEF ChatInv, ChatType
<1>16. ChatType'
  BY <1>2, <1>3, <1>4, <1>14, <1>15, GateMove DEF ChatInv, ChatType
<1> QED BY <1>2, <1>3, <1>4, <1>12, <1>13, <1>16, GateMove DEF ChatInv

LEMMA JoinStep ==
  ASSUME ChatInv, NEW s \in Slots, NEW k \in Sockets, NEW c \in DOMAIN conversation,
         HandleJoinConversation(s, k, c)
  PROVE  ChatInv'
<1>1. socket[k] # None /\ c \in SeatsOf(socket[k].user)
  BY DEF HandleJoinConversation
<1>2. socket[k] \in Connection
  BY <1>1 DEF ChatInv, ChatType
<1>3. PICK u : u = socket[k].user /\ u \in Users /\ u \in been[k]
  BY <1>1, <1>2 DEF ChatInv, ConnectionOK, Connection
<1>4. c \in Nat
  BY DEF ChatInv, ChatType
<1>5. PICK q : q = [pc |-> "join", user |-> u, socket |-> k, rooms |-> {c}]
  OBVIOUS
<1>6. q \in JoinCall /\ q.pc = "join" /\ q.user = u /\ q.socket = k /\ q.rooms = {c}
  BY <1>3, <1>4, <1>5 DEF JoinCall
<1>7. ChatCallType(q)
  BY <1>6 DEF ChatCallType, GateCall
<1>8. Covered(k, c)
  BY <1>1, <1>3 DEF Covered, Members, SeatsOf
<1>9. SocketOK(q)
  BY <1>3, <1>6, <1>8 DEF SocketOK
<1>10. /\ chat' = [chat EXCEPT ![s] = q]
       /\ UNCHANGED <<conversation, message, late, socket, been, excused>>
  BY <1>3, <1>5 DEF HandleJoinConversation, GateBegins, Begin, roomVars, gateVars
<1> QED BY <1>6, <1>7, <1>9, <1>10, ChatQuietMove

\* A step of ChatService that a socket asks for, a statement of presence, and
\* a call that dies.
LEMMA QuietSteps ==
  ASSUME ChatInv, NEW s \in Slots,
         \/ \E k \in Sockets, c \in DOMAIN conversation :
              HandleMessageSend(s, k, c) \/ HandleMessageRead(s, k, c)
         \/ \E k \in Sockets : HandlePresenceUpdate(s, k)
         \/ BroadcastPresence(s)
         \/ ChatDie(s)
  PROVE  ChatInv'
<1>1. ASSUME NEW q, ChatCallType(q), q.pc \notin {"edit", "seats", "enter", "join"},
             chat' = [chat EXCEPT ![s] = q],
             UNCHANGED <<conversation, message, late, socket, been, excused>>
      PROVE  ChatInv'
  <2>1. SocketOK(q)
    BY <1>1 DEF SocketOK
  <2> QED BY <1>1, <2>1, ChatQuietMove
<1>2. ASSUME NEW u, NEW c, NEW l \in {"store", "mark"},
             chat' = [chat EXCEPT ![s] = [pc |-> l, user |-> u, conversation |-> c]],
             UNCHANGED <<conversation, message, late, socket, been, excused>>
      PROVE  ChatInv'
  <2>1. PICK q : q = [pc |-> l, user |-> u, conversation |-> c]
    OBVIOUS
  <2>2. q.pc = l /\ "pc" \in DOMAIN q
    BY <2>1
  <2>3. ChatCallType(q)
    BY <2>2 DEF ChatCallType, IsRoomCall, RoomLabels
  <2>4. /\ chat' = [chat EXCEPT ![s] = q]
        /\ UNCHANGED <<conversation, message, late, socket, been, excused>>
    BY <1>2, <2>1
  <2> QED BY <1>1, <2>2, <2>3, <2>4
<1>3. ASSUME NEW k \in Sockets, NEW c \in DOMAIN conversation,
             HandleMessageSend(s, k, c) \/ HandleMessageRead(s, k, c)
      PROVE  ChatInv'
  <2>1. PICK u : u = socket[k].user
    OBVIOUS
  <2>2. UNCHANGED <<conversation, message, late, socket, been, excused>>
    BY <1>3 DEF HandleMessageSend, HandleMessageRead, SendMessage, MarkAsRead, Begins, gateVars
  <2>3. CASE HandleMessageSend(s, k, c)
    <3>1. chat' = [chat EXCEPT ![s] = [pc |-> "store", user |-> u, conversation |-> c]]
      BY <2>1, <2>3 DEF HandleMessageSend, SendMessage, Begins, Begin
    <3> QED BY <1>2, <2>2, <3>1
  <2>4. CASE HandleMessageRead(s, k, c)
    <3>1. chat' = [chat EXCEPT ![s] = [pc |-> "mark", user |-> u, conversation |-> c]]
      BY <2>1, <2>4 DEF HandleMessageRead, MarkAsRead, Begins, Begin
    <3> QED BY <1>2, <2>2, <3>1
  <2> QED BY <1>3, <2>3, <2>4
<1>4. ASSUME NEW k \in Sockets, HandlePresenceUpdate(s, k) PROVE ChatInv'
  <2>1. socket[k] \in Connection
    BY <1>4 DEF HandlePresenceUpdate, ChatInv, ChatType
  <2>2. PICK q : q = [pc |-> "presence", user |-> socket[k].user, status |-> "AWAY"]
    OBVIOUS
  <2>3. ChatCallType(q) /\ q.pc = "presence"
    BY <2>1, <2>2 DEF ChatCallType, GateCall, PresenceCall, Connection
  <2>4. /\ chat' = [chat EXCEPT ![s] = q]
        /\ UNCHANGED <<conversation, message, late, socket, been, excused>>
    BY <1>4, <2>2 DEF HandlePresenceUpdate, GateBegins, Begin, roomVars
  <2> QED BY <1>1, <2>3, <2>4
<1>5. CASE BroadcastPresence(s)
  <2>1. /\ chat' = [chat EXCEPT ![s] = Idle]
        /\ UNCHANGED <<conversation, message, late, socket, been, excused>>
    BY <1>5 DEF BroadcastPresence, ChatGoto, Goto, roomVars
  <2> QED BY <1>1, <2>1, ChatIdleOK
<1>6. CASE ChatDie(s)
  <2>1. /\ chat' = [chat EXCEPT ![s] = Idle]
        /\ UNCHANGED <<conversation, message, late, socket, been, excused>>
    BY <1>6 DEF ChatDie, Die, Goto, roomVars
  <2> QED BY <1>1, <2>1, ChatIdleOK
<1> QED BY <1>3, <1>4, <1>5, <1>6

\* A connection is gone; calls about it may run on, and find nothing.
LEMMA Disconnects ==
  ASSUME ChatInv, NEW k \in Sockets, Disconnected(k)
  PROVE  /\ socket' \in [Sockets -> Connection \cup {None}]
         /\ been' \in [Sockets -> SUBSET Users]
         /\ \A q : ChatCallType(q) /\ SocketOK(q) => SocketOK(q)'
         /\ \A j \in Sockets : ConnectionOK(j)'
<1>1. /\ socket' = [socket EXCEPT ![k] = None]
      /\ been' = [been EXCEPT ![k] = {}]
      /\ excused' = {e \in excused : e[1] # k}
      /\ UNCHANGED conversation
  BY DEF Disconnected, roomVars
<1>2. \A j \in Sockets : /\ socket'[j] = IF j = k THEN None ELSE socket[j]
                         /\ been'[j] = IF j = k THEN {} ELSE been[j]
  BY <1>1 DEF ChatInv, ChatType
<1>3. ASSUME NEW j \in Sockets, j # k, NEW c, Covered(j, c) PROVE Covered(j, c)'
  <2>1. been'[j] = been[j]
    BY <1>2, <1>3
  <2>2. <<j, c>> \in excused => <<j, c>> \in excused'
    <3> SUFFICES ASSUME <<j, c>> \in excused PROVE <<j, c>> \in excused'
      OBVIOUS
    <3>1. PICK e : e = <<j, c>>
      OBVIOUS
    <3>2. e[1] = j
      BY <3>1
    <3> QED BY <1>1, <1>3, <3>1, <3>2
  <2> QED BY <1>1, <1>3, <2>1, <2>2 DEF Covered, Members, Member
<1>4. ASSUME NEW q, ChatCallType(q), SocketOK(q) PROVE SocketOK(q)'
  <2>1. CASE q.pc \notin {"seats", "enter", "join"}
    BY <2>1 DEF SocketOK
  <2>2. CASE q.pc \in {"seats", "enter", "join"}
    <3>1. PICK j : j = q.socket /\ j \in Sockets
      BY <1>4, <2>2, ChatCallKinds DEF RoomsCall, JoinCall
    <3>2. CASE j = k
      BY <1>2, <3>1, <3>2 DEF SocketOK
    <3>3. CASE j # k
      <4>1. socket[j] # None =>
              /\ q.user \in been[j]
              /\ q.pc # "seats" => \A e \in q.rooms : e \in DOMAIN conversation /\ Covered(j, e)
        BY <1>4, <2>2, <3>1 DEF SocketOK
      <4>2. socket[j] # None =>
              /\ q.user \in been'[j]
              /\ q.pc # "seats" => \A e \in q.rooms : e \in DOMAIN conversation' /\ Covered(j, e)'
        BY <1>1, <1>2, <1>3, <3>1, <3>3, <4>1
      <4> QED BY <1>2, <3>1, <3>3, <4>2 DEF SocketOK, Covered, Members, Member
    <3> QED BY <3>2, <3>3
  <2> QED BY <2>1, <2>2
<1>5. ASSUME NEW j \in Sockets PROVE ConnectionOK(j)'
  <2>1. CASE j = k
    BY <1>2, <2>1 DEF ConnectionOK
  <2>2. CASE j # k
    <3>1. ConnectionOK(j)
      BY DEF ChatInv
    <3> QED BY <1>1, <1>2, <1>3, <2>2, <3>1 DEF ConnectionOK
  <2> QED BY <2>1, <2>2
<1>6. /\ socket' \in [Sockets -> Connection \cup {None}]
      /\ been' \in [Sockets -> SUBSET Users]
  BY <1>1 DEF ChatInv, ChatType
<1> QED BY <1>4, <1>5, <1>6

LEMMA DisconnectSteps ==
  ASSUME ChatInv, NEW k \in Sockets,
         HandleDisconnect(k) \/ \E s \in Slots : GoOffline(s, k)
  PROVE  ChatInv'
<1>1. Disconnected(k) /\ UNCHANGED <<conversation, message, late>>
  BY DEF HandleDisconnect, GoOffline, Disconnected, roomVars
<1>2. CASE HandleDisconnect(k)
  <2>1. UNCHANGED chat
    BY <1>2 DEF HandleDisconnect
  <2>2. ASSUME NEW t \in Slots PROVE SocketOK(chat[t])' /\ EditOK(chat[t])'
    <3>1. PICK c : c = chat[t] /\ ChatCallType(c) /\ SocketOK(c) /\ EditOK(c)
      BY DEF ChatInv, ChatType
    <3>2. SocketOK(c)' /\ EditOK(c)'
      BY <1>1, <3>1, Disconnects, MessagesStay
    <3> QED BY <2>1, <3>1, <3>2 DEF SocketOK, EditOK, Covered, Members, Member
  <2>3. ChatType'
    BY <1>1, <2>1, Disconnects DEF ChatInv, ChatType
  <2> QED BY <1>1, <2>2, <2>3, Disconnects, MessagesStay DEF ChatInv
<1>3. ASSUME NEW s \in Slots, GoOffline(s, k) PROVE ChatInv'
  <2>1. socket[k] \in Connection
    BY <1>3 DEF GoOffline, ChatInv, ChatType
  <2>2. PICK q : q = [pc |-> "presence", user |-> socket[k].user, status |-> "OFFLINE"]
    OBVIOUS
  <2>3. ChatCallType(q) /\ q.pc = "presence"
    BY <2>1, <2>2 DEF ChatCallType, GateCall, PresenceCall, Connection
  <2>4. chat' = [chat EXCEPT ![s] = q]
    BY <1>3, <2>2 DEF GoOffline, ChatGoto, Goto
  <2>5. ASSUME NEW t \in Slots PROVE SocketOK(chat[t])'
    <3>1. CASE t = s
      BY <1>1, <2>3, <2>4, <3>1, GateMove DEF SocketOK
    <3>2. CASE t # s
      <4>1. PICK c : c = chat[t] /\ ChatCallType(c) /\ SocketOK(c)
        BY DEF ChatInv, ChatType
      <4>2. chat'[t] = c
        BY <1>1, <2>3, <2>4, <3>2, <4>1, GateMove
      <4>3. SocketOK(c)'
        BY <1>1, <4>1, Disconnects
      <4> QED BY <4>2, <4>3 DEF SocketOK, Covered, Members, Member
    <3> QED BY <3>1, <3>2
  <2>6. ChatType'
    BY <1>1, <2>3, <2>4, Disconnects, GateMove DEF ChatInv, ChatType
  <2> QED BY <1>1, <2>3, <2>4, <2>5, <2>6, Disconnects, GateMove DEF ChatInv
<1> QED BY <1>2, <1>3

LEMMA ProcessEndsStep ==
  ASSUME ChatInv, ProcessEnds
  PROVE  ChatInv'
<1>1. /\ socket' = [k \in Sockets |-> None] /\ been' = [k \in Sockets |-> {}]
      /\ chat' = [s \in Slots |-> Idle]
      /\ UNCHANGED <<conversation, message, late>>
  BY DEF ProcessEnds, roomVars
<1>2. \A s \in Slots : chat'[s] = Idle /\ chat'[s].pc = "idle"
  BY <1>1, ChatIdleOK
<1>3. \A k \in Sockets : socket'[k] = None
  BY <1>1
<1>4. ChatType'
  BY <1>1, <1>2, ChatIdleOK DEF ChatInv, ChatType
<1> QED BY <1>1, <1>2, <1>3, <1>4, MessagesStay DEF ChatInv, SocketOK, EditOK, ConnectionOK

LEMMA ServiceStepInv ==
  ASSUME ChatInv, ServiceStep
  PROVE  ChatInv'
<1>1. RoomNext /\ UNCHANGED <<socket, been>>
  BY DEF ServiceStep
<1>2. ChatType'
  BY <1>1, ConversationsStay, RoomSlots, MessagesAtService DEF ChatInv, ChatType
<1> QED BY <1>1, <1>2, RoomsAtService, MessagesAtService DEF ChatInv

LEMMA ChatStepInv == ChatInv /\ [ChatNext]_chatVars => ChatInv'
<1> SUFFICES ASSUME ChatInv, [ChatNext]_chatVars PROVE ChatInv'
  OBVIOUS
<1>1. CASE UNCHANGED chatVars
  BY <1>1 DEF ChatInv, ChatType, ChatCallType, SocketOK, EditOK, ConnectionOK, Covered, Members,
              Member, LateEditOnly, chatVars, roomVars, gateVars
<1>2. CASE ServiceStep
  BY <1>2, ServiceStepInv
<1>3. ASSUME NEW s \in Slots, GateRequest(s) PROVE ChatInv'
  BY <1>3, AuthenticateStep, JoinStep, QuietSteps DEF GateRequest
<1>4. ASSUME NEW s \in Slots, GateStep(s) PROVE ChatInv'
  BY <1>4, ReadSeatsStep, EnterRoomsStep, QuietSteps DEF GateStep
<1>5. ASSUME NEW s \in Slots, ChatDie(s) PROVE ChatInv'
  BY <1>5, QuietSteps
<1>6. ASSUME NEW k \in Sockets, HandleDisconnect(k) \/ \E s \in Slots : GoOffline(s, k)
      PROVE  ChatInv'
  BY <1>6, DisconnectSteps
<1> QED BY <1>1, <1>2, <1>3, <1>4, <1>5, <1>6, ProcessEndsStep DEF ChatNext, GateNext

-----------------------------------------------------------------------------
(* The theorems.                                                           *)

\* A connection gets what is said in a conversation only while a user it has
\* authenticated as has a seat there, or since one of them lost it under it.
THEOREM RoomsFollow == ChatSpec => []RoomsFollowSeats
<1>1. ChatInv => RoomsFollowSeats
  BY InvGivesRooms
<1> QED BY <1>1, ChatInitInv, ChatStepInv, PTL DEF ChatSpec

\* A deleted message shows a text again only through an edit that had passed
\* its checks before the deletion.
THEOREM LateEdits == ChatSpec => []LateEditOnly
<1>1. ChatInv => LateEditOnly
  BY DEF ChatInv
<1> QED BY <1>1, ChatInitInv, ChatStepInv, PTL DEF ChatSpec

-----------------------------------------------------------------------------
(***************************************************************************)
(* Types of all variables, and what a call knows of the tables.            *)
(***************************************************************************)
ChatCall == {Idle} \cup RoomCall \cup GateCall

RoomTables ==
  /\ conversation \in Seq(Conversation)
  /\ message \in Seq(Message)
  /\ \A m \in DOMAIN message : message[m].conversation \in DOMAIN conversation
  /\ reaction \subseteq (DOMAIN message) \X Users
  /\ pinned \in [1 .. MaxChat + 1 -> {0} \cup DOMAIN message]
  /\ \A c \in DOMAIN pinned : pinned[c] # 0 => message[pinned[c]].conversation = c
  /\ rushed \subseteq SUBSET Users
  /\ late \subseteq DOMAIN message

\* Another message of the conversation is as old by the clock.
Tied(m) == \E n \in DOMAIN message \ {m} : /\ message[n].conversation = message[m].conversation
                                           /\ message[n].at = message[m].at

\* A message that a scrolling client has not got is still to come, or excused.
StillToCome(c, m) ==
  /\ m \in DOMAIN message /\ message[m].conversation = c.conversation
  /\ \/ message[m].isDeleted
     \/ Tied(m)
     \/ c.pc = "page" /\ (c.before = 0 \/ message[m].at < message[c.before].at)

\* What a call has found is there, and stays.
OpenKnows(c) ==
  /\ c.user \in c.with
  /\ c.type = "DIRECT" => \E u, v \in Users : u # v /\ c.with = {u, v}
PinKnows(c) ==
  /\ c.conversation \in DOMAIN conversation
  /\ c.pc \in {"find", "pin"} => c.message \in DOMAIN message
  /\ c.pc = "pin" => message[c.message].conversation = c.conversation
  /\ c.pc = "unpin" => c.message = 0
ScrollKnows(c) ==
  /\ c.conversation \in DOMAIN conversation
  /\ c.before \in {0} \cup DOMAIN message
  /\ \A m \in c.start \ c.seen : StillToCome(c, m)

ChatKnows(c) ==
  /\ c \in OpenCall => OpenKnows(c)
  /\ c \in SendCall \cup KickCall => c.conversation \in DOMAIN conversation
  /\ c \in ChangeCall => c.message \in DOMAIN message
  /\ c \in PinCall => PinKnows(c)
  /\ c \in ScrollCall => ScrollKnows(c)

ChatCallsOK ==
  /\ chat \in [Slots -> ChatCall] /\ chatLeft \in Nat
  /\ \A s \in Slots : ChatKnows(chat[s])

TalkInv == ChatInv /\ RoomTables /\ ChatCallsOK

-----------------------------------------------------------------------------
LEMMA ChatKinds ==
  ASSUME NEW c \in ChatCall
  PROVE  /\ c.pc = "open" => c \in OpenCall
         /\ c.pc \in {"store", "touch", "mark"} => c \in SendCall
         /\ c.pc \in {"edit", "delete", "moderate", "reactor", "react"} => c \in ChangeCall
         /\ c.pc \in {"find", "pin", "unpin"} => c \in PinCall
         /\ c.pc = "kick" => c \in KickCall
         /\ c.pc \in {"page", "scrolled"} => c \in ScrollCall
         /\ c.pc \in {"seats", "enter"} => c \in RoomsCall
         /\ c.pc = "join" => c \in JoinCall
         /\ c.pc = "presence" => c \in PresenceCall
         /\ c.pc = "idle" => c = Idle
         /\ c # Idle => c.user \in Users /\ c.pc # "idle"
BY DEF ChatCall, RoomCall, GateCall, OpenCall, SendCall, ChangeCall, PinCall, KickCall,
       ScrollCall, RoomsCall, JoinCall, PresenceCall, Idle

LEMMA LabelsApart ==
  /\ Idle.pc = "idle"
  /\ \A c \in OpenCall : c.pc = "open"
  /\ \A c \in SendCall : c.pc \in {"store", "touch", "mark"}
  /\ \A c \in ChangeCall : c.pc \in {"edit", "delete", "moderate", "reactor", "react"}
  /\ \A c \in PinCall : c.pc \in {"find", "pin", "unpin"}
  /\ \A c \in KickCall : c.pc = "kick"
  /\ \A c \in ScrollCall : c.pc \in {"page", "scrolled"}
  /\ \A c \in GateCall : c.pc \in {"seats", "enter", "join", "presence"}
BY DEF OpenCall, SendCall, ChangeCall, PinCall, KickCall, ScrollCall, GateCall, RoomsCall,
       JoinCall, PresenceCall, Idle

LEMMA GateKnows ==
  ASSUME NEW c, c = Idle \/ c \in GateCall
  PROVE  ChatKnows(c) /\ c \in ChatCall
BY LabelsApart DEF ChatKnows, ChatCall

-----------------------------------------------------------------------------
(***************************************************************************)
(* Nothing is ever taken out of the tables of conversations and messages,  *)
(* and of a message only the content and the deletion change.              *)
(***************************************************************************)
ChatGrows ==
  /\ DOMAIN conversation \subseteq DOMAIN conversation'
  /\ DOMAIN message \subseteq DOMAIN message'
  /\ \A m \in DOMAIN message :
       /\ message'[m].conversation = message[m].conversation
       /\ message'[m].at = message[m].at
       /\ message[m].isDeleted => message'[m].isDeleted

LEMMA TiedStays ==
  ASSUME ChatGrows, NEW m \in DOMAIN message, Tied(m)
  PROVE  Tied(m)'
<1>1. PICK n \in DOMAIN message \ {m} : /\ message[n].conversation = message[m].conversation
                                       /\ message[n].at = message[m].at
  BY DEF Tied
<1>2. /\ n \in DOMAIN message' \ {m}
      /\ message'[n].conversation = message'[m].conversation
      /\ message'[n].at = message'[m].at
  BY <1>1 DEF ChatGrows
<1> QED BY <1>2 DEF Tied

LEMMA KnowledgeStays ==
  ASSUME ChatGrows, NEW c, ChatKnows(c)
  PROVE  ChatKnows(c)'
<1>1. OpenKnows(c) => OpenKnows(c)'
  BY DEF OpenKnows
<1>2. PinKnows(c) => PinKnows(c)'
  BY DEF PinKnows, ChatGrows
<1>3. ASSUME ScrollKnows(c) PROVE ScrollKnows(c)'
  <2>1. ASSUME NEW m \in c.start \ c.seen PROVE StillToCome(c, m)'
    <3>1. StillToCome(c, m) /\ c.before \in {0} \cup DOMAIN message
      BY <1>3, <2>1 DEF ScrollKnows
    <3>2. m \in DOMAIN message' /\ message'[m].conversation = c.conversation
      BY <3>1 DEF StillToCome, ChatGrows
    <3>3. CASE message[m].isDeleted
      BY <3>1, <3>2, <3>3 DEF StillToCome, ChatGrows
    <3>4. CASE Tied(m)
      BY <3>1, <3>2, <3>4, TiedStays DEF StillToCome
    <3>5. CASE c.pc = "page" /\ (c.before = 0 \/ message[m].at < message[c.before].at)
      <4>1. c.before = 0 \/ message'[m].at < message'[c.before].at
        <5>1. CASE c.before = 0
          BY <5>1
        <5>2. CASE c.before # 0
          <6>1. c.before \in DOMAIN message /\ m \in DOMAIN message
            BY <3>1, <5>2 DEF StillToCome
          <6> QED BY <3>5, <5>2, <6>1 DEF ChatGrows
        <5> QED BY <5>1, <5>2
      <4> QED BY <3>2, <3>5, <4>1 DEF StillToCome
    <3> QED BY <3>1, <3>3, <3>4, <3>5 DEF StillToCome
  <2>2. c.conversation \in DOMAIN conversation' /\ c.before \in {0} \cup DOMAIN message'
    BY <1>3 DEF ScrollKnows, ChatGrows
  <2> QED BY <2>1, <2>2 DEF ScrollKnows
<1>4. DOMAIN conversation \subseteq DOMAIN conversation' /\ DOMAIN message \subseteq DOMAIN message'
  BY DEF ChatGrows
<1> QED BY <1>1, <1>2, <1>3, <1>4 DEF ChatKnows

\* One call goes on as q, a new one or none.
LEMMA CallGoesOn ==
  ASSUME TalkInv, ChatGrows, NEW s \in Slots, NEW q \in ChatCall, ChatKnows(q),
         chat' = [chat EXCEPT ![s] = q],
         chatLeft' = chatLeft \/ (chatLeft > 0 /\ chatLeft' = chatLeft - 1)
  PROVE  ChatCallsOK'
<1>1. chat \in [Slots -> ChatCall] /\ chatLeft \in Nat
  BY DEF TalkInv, ChatCallsOK
<1>2. chat' \in [Slots -> ChatCall] /\ \A t \in Slots : chat'[t] = IF t = s THEN q ELSE chat[t]
  BY <1>1
<1>3. chatLeft' \in Nat
  BY <1>1
<1>4. ASSUME NEW t \in Slots PROVE ChatKnows(chat[t])'
  <2>1. PICK c : c = chat'[t]
    OBVIOUS
  <2>2. ChatKnows(c)
    BY <1>2, <2>1 DEF TalkInv, ChatCallsOK
  <2>3. ChatKnows(c)'
    BY <2>2, KnowledgeStays
  <2> QED BY <2>1, <2>3 DEF ChatKnows, OpenKnows, PinKnows, ScrollKnows, StillToCome, Tied
<1> QED BY <1>2, <1>3, <1>4 DEF ChatCallsOK

LEMMA ChatCallsStay ==
  ASSUME TalkInv, ChatGrows, UNCHANGED chat,
         chatLeft' = chatLeft \/ (chatLeft > 0 /\ chatLeft' = chatLeft - 1)
  PROVE  ChatCallsOK'
<1>1. chatLeft \in Nat
  BY DEF TalkInv, ChatCallsOK
<1>2. chatLeft' \in Nat
  BY <1>1
<1>3. ASSUME NEW t \in Slots PROVE ChatKnows(chat[t])'
  <2>1. PICK c : c = chat[t]
    OBVIOUS
  <2>2. ChatKnows(c)'
    BY <2>1, KnowledgeStays DEF TalkInv, ChatCallsOK
  <2> QED BY <2>1, <2>2 DEF ChatKnows, OpenKnows, PinKnows, ScrollKnows, StillToCome, Tied
<1> QED BY <1>2, <1>3 DEF TalkInv, ChatCallsOK

\* Steps that leave conversations and messages alone.
LEMMA NothingGrows ==
  ASSUME UNCHANGED <<conversation, message>>
  PROVE  ChatGrows
BY DEF ChatGrows

-----------------------------------------------------------------------------
(***************************************************************************)
(* What begins and what goes on in ChatService.                            *)
(***************************************************************************)
\* A creation has found no DIRECT conversation; it rushes if another of the
\* same pair is on its way.
DirectBegins(q) ==
  /\ \E v \in Users \ {q.user} : q.with = {q.user, v} /\ DirectOf(q.user, v) = {}
  /\ rushed' = IF \E t \in Slots : /\ chat[t].pc = "open" /\ chat[t].type = "DIRECT"
                                   /\ chat[t].with = q.with
               THEN rushed \cup {q.with} ELSE rushed

RoomBegins(s, q) ==
  /\ q \in RoomCall /\ ChatKnows(q)
  /\ Begins(s, q)
  /\ IF q.pc = "open" /\ q.type = "DIRECT" THEN DirectBegins(q) ELSE UNCHANGED rushed

RoomGoesOn(s, q) ==
  /\ chat[s] \in RoomCall
  /\ q = Idle \/ q \in RoomCall
  /\ ChatKnows(q) /\ q.pc # "open"
  /\ chat' = [chat EXCEPT ![s] = q] /\ UNCHANGED chatLeft

LEMMA OpenBegins ==
  ASSUME TalkInv, NEW s \in Slots, NEW u \in Users, NEW type \in {"DIRECT", "GROUP"},
         NEW with \in SUBSET Users, CreateConversation(s, u, type, with)
  PROVE  \E q : RoomBegins(s, q)
<1>1. PICK q : q = [pc |-> "open", user |-> u, type |-> type, with |-> with]
  OBVIOUS
<1>2. q \in OpenCall /\ q.pc = "open" /\ q.user = u /\ q.type = type /\ q.with = with
  BY <1>1 DEF OpenCall
<1>3. Begins(s, q)
  BY <1>1 DEF CreateConversation
<1>4. q.user \in q.with
  BY <1>2 DEF CreateConversation
<1>5. CASE type = "DIRECT"
  <2>1. \E v \in Users \ {u} : with = {u, v} /\ DirectOf(u, v) = {}
    BY <1>5 DEF CreateConversation
  <2>2. \E v \in Users \ {q.user} : q.with = {q.user, v} /\ DirectOf(q.user, v) = {}
    BY <1>2, <2>1
  <2>3. rushed' = IF \E t \in Slots : /\ chat[t].pc = "open" /\ chat[t].type = "DIRECT"
                                      /\ chat[t].with = q.with
                  THEN rushed \cup {q.with} ELSE rushed
    BY <1>2, <1>5 DEF CreateConversation
  <2>4. DirectBegins(q)
    BY <2>2, <2>3 DEF DirectBegins
  <2>5. OpenKnows(q)
    BY <1>2, <1>4, <2>2 DEF OpenKnows
  <2>6. ChatKnows(q)
    BY <1>2, <2>5, LabelsApart DEF ChatKnows
  <2> QED BY <1>2, <1>3, <1>5, <2>4, <2>6 DEF RoomBegins, RoomCall
<1>6. CASE type # "DIRECT"
  <2>1. UNCHANGED rushed /\ OpenKnows(q)
    BY <1>2, <1>4, <1>6 DEF CreateConversation, OpenKnows
  <2> QED BY <1>2, <1>3, <1>6, <2>1, LabelsApart DEF RoomBegins, ChatKnows, RoomCall
<1> QED BY <1>5, <1>6

LEMMA Indices ==
  ASSUME TalkInv
  PROVE  DOMAIN conversation \subseteq Nat \ {0} /\ DOMAIN message \subseteq Nat \ {0}
<1>1. conversation \in Seq(Conversation) /\ message \in Seq(Message)
  BY DEF TalkInv, RoomTables
<1>2. DOMAIN conversation = 1 .. Len(conversation) /\ DOMAIN message = 1 .. Len(message)
  BY <1>1
<1> QED BY <1>2

LEMMA SendBegins ==
  ASSUME TalkInv, NEW s \in Slots, NEW u \in Users, NEW c \in DOMAIN conversation,
         SendMessage(s, u, c) \/ MarkAsRead(s, u, c)
  PROVE  \E q : RoomBegins(s, q)
<1>1. PICK l \in {"store", "mark"} : Begins(s, [pc |-> l, user |-> u, conversation |-> c])
  BY DEF SendMessage, MarkAsRead
<1>2. PICK q : q = [pc |-> l, user |-> u, conversation |-> c]
  OBVIOUS
<1>3. q \in SendCall /\ q.conversation = c
  BY <1>2, Indices DEF SendCall
<1>4. ChatKnows(q)
  BY <1>3, LabelsApart DEF ChatKnows
<1>5. UNCHANGED rushed
  BY DEF SendMessage, MarkAsRead
<1>6. Begins(s, q)
  BY <1>1, <1>2
<1> QED BY <1>3, <1>4, <1>5, <1>6, LabelsApart DEF RoomBegins, RoomCall

LEMMA ScrollBegins ==
  ASSUME TalkInv, NEW s \in Slots, NEW u \in Users, NEW c \in DOMAIN conversation, Scroll(s, u, c)
  PROVE  \E q : RoomBegins(s, q)
<1>1. PICK q : q = [pc |-> "page", user |-> u, conversation |-> c, before |-> 0, seen |-> {},
                    start |-> Live(c)]
  OBVIOUS
<1>2. Live(c) \subseteq DOMAIN message /\ Live(c) \subseteq Nat
  BY Indices DEF Live
<1>3. /\ q \in ScrollCall /\ q.conversation = c /\ q.pc = "page" /\ q.before = 0
      /\ q.start = Live(c) /\ q.seen = {}
  BY <1>1, <1>2, Indices DEF ScrollCall
<1>4. ScrollKnows(q)
  BY <1>3 DEF ScrollKnows, StillToCome, Live
<1>5. ChatKnows(q)
  BY <1>3, <1>4, LabelsApart DEF ChatKnows
<1>6. Begins(s, q) /\ UNCHANGED rushed
  BY <1>1 DEF Scroll, Begins, Begin
<1> QED BY <1>3, <1>5, <1>6, LabelsApart DEF RoomBegins, RoomCall

LEMMA PinBegins ==
  ASSUME TalkInv, NEW s \in Slots, NEW u \in Users, NEW c \in DOMAIN conversation,
         UnpinMessage(s, u, c) \/ \E m \in DOMAIN message : PinMessage(s, u, c, m)
  PROVE  \E q : RoomBegins(s, q)
<1>1. PICK l \in {"find", "unpin"}, m \in {0} \cup DOMAIN message :
        /\ l = "find" => m \in DOMAIN message
        /\ l = "unpin" => m = 0
        /\ Begins(s, [pc |-> l, user |-> u, conversation |-> c, message |-> m])
  BY DEF UnpinMessage, PinMessage
<1>2. PICK q : q = [pc |-> l, user |-> u, conversation |-> c, message |-> m]
  OBVIOUS
<1>3. q \in PinCall /\ q.conversation = c /\ q.pc = l /\ q.message = m
  BY <1>1, <1>2, Indices DEF PinCall
<1>4. PinKnows(q)
  BY <1>1, <1>3 DEF PinKnows
<1>5. ChatKnows(q)
  BY <1>3, <1>4, LabelsApart DEF ChatKnows
<1>6. UNCHANGED rushed
  BY DEF UnpinMessage, PinMessage
<1>7. Begins(s, q)
  BY <1>1, <1>2
<1> QED BY <1>3, <1>5, <1>6, <1>7, LabelsApart DEF RoomBegins, RoomCall

LEMMA KickBegins ==
  ASSUME TalkInv, NEW s \in Slots, NEW u \in Users, NEW c \in DOMAIN conversation,
         NEW target \in Users, KickMember(s, u, c, target)
  PROVE  \E q : RoomBegins(s, q)
<1>1. PICK q : q = [pc |-> "kick", user |-> u, conversation |-> c, target |-> target]
  OBVIOUS
<1>2. q \in KickCall /\ q.conversation = c
  BY <1>1, Indices DEF KickCall
<1>3. ChatKnows(q)
  BY <1>2, LabelsApart DEF ChatKnows
<1>4. Begins(s, q) /\ UNCHANGED rushed
  BY <1>1 DEF KickMember
<1> QED BY <1>2, <1>3, <1>4, LabelsApart DEF RoomBegins, RoomCall

LEMMA ChangeBegins ==
  ASSUME TalkInv, NEW s \in Slots, NEW u \in Users, NEW m \in DOMAIN message,
         \/ UpdateMessage(s, u, m) \/ DeleteMessage(s, u, m) \/ ModerateDelete(s, u, m)
         \/ AddReaction(s, u, m)
  PROVE  \E q : RoomBegins(s, q)
<1>1. PICK l \in {"edit", "delete", "moderate", "reactor"} :
        Begins(s, [pc |-> l, user |-> u, message |-> m])
  BY DEF UpdateMessage, DeleteMessage, ModerateDelete, AddReaction
<1>2. PICK q : q = [pc |-> l, user |-> u, message |-> m]
  OBVIOUS
<1>3. q \in ChangeCall /\ q.message = m
  BY <1>2, Indices DEF ChangeCall
<1>4. ChatKnows(q)
  BY <1>3, LabelsApart DEF ChatKnows
<1>5. UNCHANGED rushed
  BY DEF UpdateMessage, DeleteMessage, ModerateDelete, AddReaction
<1>6. Begins(s, q)
  BY <1>1, <1>2
<1> QED BY <1>3, <1>4, <1>5, <1>6, LabelsApart DEF RoomBegins, RoomCall

LEMMA RequestBegins ==
  ASSUME TalkInv, NEW s \in Slots, RoomRequest(s)
  PROVE  \E q : RoomBegins(s, q)
BY OpenBegins, SendBegins, ScrollBegins, PinBegins, KickBegins, ChangeBegins DEF RoomRequest

-----------------------------------------------------------------------------
(* The statements of ChatService.                                          *)

\* A statement ends the call, or leaves it at the label l.
LEMMA EndsHere ==
  ASSUME TalkInv, NEW s \in Slots, chat[s] \in RoomCall, ChatGoto(s, Idle)
  PROVE  \E q : RoomGoesOn(s, q)
<1>1. ChatKnows(Idle) /\ Idle.pc # "open"
  BY GateKnows, LabelsApart
<1>2. chat' = [chat EXCEPT ![s] = Idle] /\ UNCHANGED chatLeft
  BY DEF ChatGoto, Goto
<1> QED BY <1>1, <1>2 DEF RoomGoesOn

\* A call with a statement of ChatService is a call of ChatService.
LEMMA RoomLabel ==
  ASSUME TalkInv, NEW s \in Slots, chat[s].pc \in RoomLabels
  PROVE  chat[s] \in RoomCall
<1>1. PICK c \in ChatCall : c = chat[s]
  BY DEF TalkInv, ChatCallsOK
<1>2. c.pc \in RoomLabels
  BY <1>1
<1>3. c # Idle /\ c \notin GateCall
  BY <1>2, LabelsApart DEF RoomLabels
<1> QED BY <1>1, <1>3 DEF ChatCall

LEMMA EndingSteps ==
  ASSUME TalkInv, NEW s \in Slots,
         \/ OpenConversation(s) \/ DeleteSeat(s) \/ TouchConversation(s) \/ WriteMessage(s)
         \/ React(s) \/ Scrolled(s) \/ WritePin(s)
  PROVE  \E q : RoomGoesOn(s, q)
<1>1. chat[s].pc \in RoomLabels
  BY DEF OpenConversation, DeleteSeat, TouchConversation, WriteMessage, React, Scrolled, WritePin,
         RoomLabels
<1>2. ChatGoto(s, Idle)
  BY DEF OpenConversation, DeleteSeat, TouchConversation, WriteMessage, React, Scrolled, WritePin
<1> QED BY <1>1, <1>2, RoomLabel, EndsHere

LEMMA StoreGoesOn ==
  ASSUME TalkInv, NEW s \in Slots, StoreMessage(s)
  PROVE  \E q : RoomGoesOn(s, q)
<1>1. PICK c \in SendCall : c = chat[s] /\ c.pc = "store" /\ ChatKnows(c)
  BY ChatKinds DEF StoreMessage, TalkInv, ChatCallsOK
<1>2. PICK q : q = [c EXCEPT !.pc = "touch"]
  OBVIOUS
<1>3. q \in SendCall /\ q.conversation = c.conversation
  BY <1>1, <1>2 DEF SendCall
<1>4. ChatKnows(q) /\ q.pc # "open"
  BY <1>1, <1>3, LabelsApart DEF ChatKnows
<1>5. chat' = [chat EXCEPT ![s] = q] /\ UNCHANGED chatLeft
  BY <1>1, <1>2 DEF StoreMessage, ChatGoto, Goto
<1> QED BY <1>1, <1>3, <1>4, <1>5 DEF RoomGoesOn, RoomCall

LEMMA ReactorGoesOn ==
  ASSUME TalkInv, NEW s \in Slots, Reactor(s)
  PROVE  \E q : RoomGoesOn(s, q)
<1>1. PICK c \in ChangeCall : c = chat[s] /\ c.pc = "reactor" /\ ChatKnows(c)
  BY ChatKinds DEF Reactor, TalkInv, ChatCallsOK
<1>2. PICK q : q = [c EXCEPT !.pc = "react"]
  OBVIOUS
<1>3. q \in ChangeCall /\ q.message = c.message
  BY <1>1, <1>2 DEF ChangeCall
<1>4. ChatKnows(q) /\ q.pc # "open"
  BY <1>1, <1>3, LabelsApart DEF ChatKnows
<1>5. CASE ChatGoto(s, q)
  BY <1>1, <1>3, <1>4, <1>5 DEF ChatGoto, Goto, RoomGoesOn, RoomCall
<1>6. CASE ChatGoto(s, Idle)
  BY <1>1, <1>6, EndsHere DEF RoomCall
<1>7. ChatGoto(s, IF Member(message[chat[s].message].conversation, chat[s].user)
                    THEN [chat[s] EXCEPT !.pc = "react"] ELSE Idle)
  BY DEF Reactor
<1>8. CASE ChatGoto(s, [chat[s] EXCEPT !.pc = "react"])
  BY <1>1, <1>2, <1>5, <1>8 DEF ChatGoto, Goto
<1> QED BY <1>6, <1>7, <1>8 DEF ChatGoto, Goto

LEMMA FindGoesOn ==
  ASSUME TalkInv, NEW s \in Slots, FindPinned(s)
  PROVE  \E q : RoomGoesOn(s, q)
<1>1. PICK c \in PinCall : c = chat[s] /\ c.pc = "find" /\ ChatKnows(c)
  BY ChatKinds DEF FindPinned, TalkInv, ChatCallsOK
<1>2. PICK q : q = [c EXCEPT !.pc = "pin"]
  OBVIOUS
<1>3. q \in PinCall /\ q.pc = "pin" /\ q.conversation = c.conversation /\ q.message = c.message
  BY <1>1, <1>2 DEF PinCall
<1>4. CASE ChatGoto(s, q) /\ c.message \in Live(c.conversation)
  <2>1. PinKnows(q)
    BY <1>1, <1>3, <1>4 DEF ChatKnows, PinKnows, Live
  <2>2. ChatKnows(q) /\ q.pc # "open"
    BY <1>3, <2>1, LabelsApart DEF ChatKnows
  <2> QED BY <1>1, <1>3, <1>4, <2>2 DEF ChatGoto, Goto, RoomGoesOn, RoomCall
<1>5. CASE ChatGoto(s, Idle)
  BY <1>1, <1>5, EndsHere DEF RoomCall
<1>6. ChatGoto(s, IF chat[s].message \in Live(chat[s].conversation)
                    THEN [chat[s] EXCEPT !.pc = "pin"] ELSE Idle)
  BY DEF FindPinned
<1>7. CASE ChatGoto(s, [chat[s] EXCEPT !.pc = "pin"]) /\ chat[s].message \in Live(chat[s].conversation)
  BY <1>1, <1>2, <1>4, <1>7 DEF ChatGoto, Goto
<1> QED BY <1>5, <1>6, <1>7 DEF ChatGoto, Goto

-----------------------------------------------------------------------------
(***************************************************************************)
(* A page of messages.  What is older than the page and not tied with its  *)
(* last message is older than that one; a short page is all there is.      *)
(***************************************************************************)
LEMMA OlderFinite ==
  ASSUME TalkInv, NEW c, NEW before
  PROVE  IsFiniteSet(Older(c, before)) /\ Cardinality(Older(c, before)) \in Nat
<1>1. PICK n \in Nat : DOMAIN message = 1 .. n
  BY DEF TalkInv, RoomTables
<1>2. IsFiniteSet(DOMAIN message)
  BY <1>1, FS_Interval
<1>3. Older(c, before) \subseteq DOMAIN message
  BY DEF Older, Live
<1> QED BY <1>2, <1>3, FS_Subset, FS_CardinalityType

LEMMA MinOfTwo ==
  ASSUME NEW m \in Nat, NEW n \in Nat
  PROVE  Min({m, n}) = IF m < n THEN m ELSE n
BY DEF Min

LEMMA ShortPage ==
  ASSUME TalkInv, NEW c, NEW before, NEW page \in Pages(c, before), Cardinality(page) < PageSize
  PROVE  page = Older(c, before)
<1>1. page \subseteq Older(c, before)
      /\ Cardinality(page) = Min({PageSize, Cardinality(Older(c, before))})
  BY DEF Pages
<1>2. IsFiniteSet(Older(c, before)) /\ Cardinality(Older(c, before)) \in Nat
  BY OlderFinite
<1>3. PageSize \in Nat
  BY ChatAssumption
<1>4. Cardinality(page) = Cardinality(Older(c, before))
  BY <1>1, <1>2, <1>3, MinOfTwo
<1> QED BY <1>1, <1>2, <1>4, FS_Subset

LEMMA MessageTimes ==
  ASSUME TalkInv, NEW m \in DOMAIN message
  PROVE  message[m] \in Message /\ message[m].at \in Nat /\ message[m].isDeleted \in BOOLEAN
<1>1. message \in Seq(Message)
  BY DEF TalkInv, RoomTables
<1>2. message[m] \in Message
  BY <1>1, ElementOfSeq
<1> QED BY <1>2 DEF Message

LEMMA ShortPageEnds ==
  ASSUME TalkInv, NEW c \in ScrollCall, c.pc = "page", ScrollKnows(c),
         NEW page \in Pages(c.conversation, c.before), Cardinality(page) < PageSize,
         NEW q \in ScrollCall, q = [c EXCEPT !.pc = "scrolled", !.seen = @ \cup page]
  PROVE  ScrollKnows(q)
<1>1. /\ q.conversation = c.conversation /\ q.before = c.before /\ q.start = c.start
      /\ q.seen = c.seen \cup page
  BY DEF ScrollCall
<1>2. ASSUME NEW m \in q.start \ q.seen PROVE StillToCome(q, m)
  <2>1. StillToCome(c, m) /\ m \notin page
    BY <1>1, <1>2 DEF ScrollKnows
  <2>2. m \notin Older(c.conversation, c.before)
    BY <2>1, ShortPage
  <2>3. message[m].isDeleted \/ Tied(m)
    <3>1. message[m].isDeleted \in BOOLEAN /\ m \in DOMAIN message
      BY <2>1, MessageTimes DEF StillToCome
    <3> QED BY <2>1, <2>2, <3>1 DEF StillToCome, Older, Live
  <2> QED BY <1>1, <2>1, <2>3 DEF StillToCome
<1> QED BY <1>1, <1>2 DEF ScrollKnows

LEMMA FullPage ==
  ASSUME TalkInv, NEW c \in ScrollCall, c.pc = "page", ScrollKnows(c),
         NEW page \in Pages(c.conversation, c.before),
         NEW last \in page, \A m \in page : message[last].at <= message[m].at,
         NEW q \in ScrollCall, q = [c EXCEPT !.before = last, !.seen = @ \cup page]
  PROVE  ScrollKnows(q)
<1>1. /\ q.conversation = c.conversation /\ q.before = last /\ q.start = c.start
      /\ q.seen = c.seen \cup page /\ q.pc = "page"
  BY DEF ScrollCall
<1>2. last \in Older(c.conversation, c.before) /\ page \subseteq Older(c.conversation, c.before)
  BY DEF Pages
<1>3. last \in DOMAIN message /\ message[last].conversation = c.conversation
  BY <1>2 DEF Older, Live
<1>4. ASSUME NEW m \in q.start \ q.seen PROVE StillToCome(q, m)
  <2>1. StillToCome(c, m) /\ m \notin page
    BY <1>1, <1>4 DEF ScrollKnows
  <2>2. m \in DOMAIN message /\ message[m].conversation = c.conversation
    BY <2>1 DEF StillToCome
  <2>3. CASE message[m].isDeleted \/ Tied(m)
    BY <1>1, <2>2, <2>3 DEF StillToCome
  <2>4. CASE ~(message[m].isDeleted \/ Tied(m))
    <3>1. m \in Older(c.conversation, c.before)
      BY <2>1, <2>2, <2>4 DEF StillToCome, Older, Live
    <3>2. message[last].at >= message[m].at
      BY <2>1, <3>1 DEF Pages
    <3>3. message[last].at # message[m].at
      BY <1>3, <2>1, <2>2, <2>4 DEF Tied
    <3>4. message[last].at \in Nat /\ message[m].at \in Nat
      BY <1>3, <2>2, MessageTimes
    <3>5. message[m].at < message[last].at
      BY <3>2, <3>3, <3>4
    <3> QED BY <1>1, <2>2, <3>5 DEF StillToCome
  <2> QED BY <2>3, <2>4
<1> QED BY <1>1, <1>3, <1>4 DEF ScrollKnows, ScrollCall

LEMMA PageGoesOn ==
  ASSUME TalkInv, NEW s \in Slots, GetMessages(s)
  PROVE  \E q : RoomGoesOn(s, q)
<1>1. PICK c \in ScrollCall : c = chat[s] /\ c.pc = "page" /\ ChatKnows(c)
  BY ChatKinds DEF GetMessages, TalkInv, ChatCallsOK
<1>2. ScrollKnows(c)
  BY <1>1 DEF ChatKnows
<1>3. CASE ChatGoto(s, Idle)
  BY <1>1, <1>3, EndsHere DEF RoomCall
<1>4. CASE ~ChatGoto(s, Idle)
  <2>1. PICK page \in Pages(chat[s].conversation, chat[s].before) :
          IF Cardinality(page) < PageSize
          THEN ChatGoto(s, [chat[s] EXCEPT !.pc = "scrolled", !.seen = @ \cup page])
          ELSE \E last \in page :
                 /\ \A m \in page : message[last].at <= message[m].at
                 /\ ChatGoto(s, [chat[s] EXCEPT !.before = last, !.seen = @ \cup page])
    BY <1>4 DEF GetMessages
  <2>6. page \in Pages(c.conversation, c.before)
    BY <1>1
  <2>2. page \subseteq Nat
    BY <2>6, Indices DEF Pages, Older, Live
  <2>3. ASSUME NEW q \in ScrollCall, ScrollKnows(q), ChatGoto(s, q)
        PROVE  RoomGoesOn(s, q)
    <3>1. ChatKnows(q) /\ q.pc # "open"
      BY <2>3, LabelsApart DEF ChatKnows
    <3> QED BY <1>1, <2>3, <3>1 DEF ChatGoto, Goto, RoomGoesOn, RoomCall
  <2>4. CASE Cardinality(page) < PageSize
    <3>0. PICK q : q = [chat[s] EXCEPT !.pc = "scrolled", !.seen = @ \cup page]
      OBVIOUS
    <3>1. q = [c EXCEPT !.pc = "scrolled", !.seen = @ \cup page]
      BY <1>1, <3>0
    <3>2. q \in ScrollCall
      BY <1>1, <2>2, <3>1 DEF ScrollCall
    <3>3. ScrollKnows(q)
      BY <1>1, <1>2, <2>4, <2>6, <3>1, <3>2, ShortPageEnds
    <3>4. ChatGoto(s, q)
      BY <2>1, <2>4, <3>0 DEF ChatGoto, Goto
    <3> QED BY <2>3, <3>2, <3>3, <3>4
  <2>5. CASE ~(Cardinality(page) < PageSize)
    <3>1. PICK last \in page : /\ \A m \in page : message[last].at <= message[m].at
                               /\ ChatGoto(s, [chat[s] EXCEPT !.before = last, !.seen = @ \cup page])
      BY <2>1, <2>5
    <3>0. PICK q : q = [chat[s] EXCEPT !.before = last, !.seen = @ \cup page]
      OBVIOUS
    <3>2. q = [c EXCEPT !.before = last, !.seen = @ \cup page]
      BY <1>1, <3>0
    <3>3. q \in ScrollCall
      BY <1>1, <2>2, <3>1, <3>2 DEF ScrollCall
    <3>4. ScrollKnows(q)
      BY <1>1, <1>2, <2>6, <3>1, <3>2, <3>3, FullPage
    <3>5. ChatGoto(s, q)
      BY <3>0, <3>1 DEF ChatGoto, Goto
    <3> QED BY <2>3, <3>3, <3>4, <3>5
  <2> QED BY <2>4, <2>5
<1> QED BY <1>3, <1>4

LEMMA StepGoesOn ==
  ASSUME TalkInv, NEW s \in Slots, RoomStep(s)
  PROVE  \E q : RoomGoesOn(s, q)
BY EndingSteps, StoreGoesOn, ReactorGoesOn, FindGoesOn, PageGoesOn DEF RoomStep

-----------------------------------------------------------------------------
(* The calls of the gateway.                                               *)

LeftGoesDown == chatLeft' = chatLeft \/ (chatLeft > 0 /\ chatLeft' = chatLeft - 1)

GateGoesOn(s, q) ==
  /\ q = Idle \/ q \in GateCall
  /\ chat' = [chat EXCEPT ![s] = q] /\ LeftGoesDown

LEMMA ConnectedUser ==
  ASSUME ChatInv, NEW k \in Sockets, socket[k] # None
  PROVE  socket[k] \in Connection /\ socket[k].user \in Users /\ socket[k].rooms \subseteq Nat
<1>1. socket[k] \in Connection
  BY DEF ChatInv, ChatType
<1> QED BY <1>1 DEF Connection

LEMMA AuthenticateBegins ==
  ASSUME TalkInv, NEW s \in Slots, NEW k \in Sockets, NEW u \in Users, AuthenticateSocket(s, k, u)
  PROVE  \E q : GateGoesOn(s, q)
<1>1. PICK q : q = [pc |-> "seats", user |-> u, socket |-> k, rooms |-> {}]
  OBVIOUS
<1>2. q \in GateCall
  BY <1>1 DEF GateCall, RoomsCall
<1>3. chat' = [chat EXCEPT ![s] = q] /\ LeftGoesDown
  BY <1>1 DEF AuthenticateSocket, GateBegins, Begin, Free, LeftGoesDown
<1> QED BY <1>2, <1>3 DEF GateGoesOn

LEMMA ReadSeatsGoesOn ==
  ASSUME TalkInv, NEW s \in Slots, ReadSeats(s)
  PROVE  \E q : GateGoesOn(s, q)
<1>1. PICK c \in RoomsCall : c = chat[s]
  BY ChatKinds DEF ReadSeats, TalkInv, ChatCallsOK
<1>2. PICK q : q = [chat[s] EXCEPT !.pc = "enter", !.rooms = SeatsOf(chat[s].user)]
  OBVIOUS
<1>3. SeatsOf(chat[s].user) \subseteq Nat
  BY Indices DEF SeatsOf
<1>4. q \in GateCall
  BY <1>1, <1>2, <1>3 DEF RoomsCall, GateCall
<1>5. chat' = [chat EXCEPT ![s] = q] /\ LeftGoesDown
  BY <1>2 DEF ReadSeats, ChatGoto, Goto, LeftGoesDown
<1> QED BY <1>4, <1>5 DEF GateGoesOn

LEMMA EnterGoesOn ==
  ASSUME TalkInv, NEW s \in Slots, EnterRooms(s)
  PROVE  \E q : GateGoesOn(s, q)
<1>1. PICK q : q = IF chat[s].pc = "join" THEN Idle
                   ELSE [pc |-> "presence", user |-> chat[s].user, status |-> "ONLINE"]
  OBVIOUS
<1>2. chat' = [chat EXCEPT ![s] = q] /\ LeftGoesDown
  BY <1>1 DEF EnterRooms, ChatGoto, Goto, LeftGoesDown
<1>3. chat[s].pc \in {"enter", "join"} /\ chat[s] \in ChatCall
  BY DEF EnterRooms, TalkInv, ChatCallsOK
<1>4. chat[s].user \in Users
  BY <1>3, ChatKinds, LabelsApart
<1>5. q = Idle \/ q \in GateCall
  BY <1>1, <1>4 DEF GateCall, PresenceCall
<1> QED BY <1>2, <1>5 DEF GateGoesOn

LEMMA JoinBegins ==
  ASSUME TalkInv, NEW s \in Slots, NEW k \in Sockets, NEW c \in DOMAIN conversation,
         HandleJoinConversation(s, k, c)
  PROVE  \E q : GateGoesOn(s, q)
<1>1. PICK q : q = [pc |-> "join", user |-> socket[k].user, socket |-> k, rooms |-> {c}]
  OBVIOUS
<1>2. socket[k].user \in Users /\ c \in Nat
  BY ConnectedUser, Indices DEF HandleJoinConversation, TalkInv
<1>3. q \in GateCall
  BY <1>1, <1>2 DEF GateCall, JoinCall
<1>4. chat' = [chat EXCEPT ![s] = q] /\ LeftGoesDown
  BY <1>1 DEF HandleJoinConversation, GateBegins, Begin, Free, LeftGoesDown
<1> QED BY <1>3, <1>4 DEF GateGoesOn

LEMMA PresenceBegins ==
  ASSUME TalkInv, NEW s \in Slots, NEW k \in Sockets,
         HandlePresenceUpdate(s, k) \/ GoOffline(s, k)
  PROVE  \E q : GateGoesOn(s, q)
<1>1. PICK w \in {"AWAY", "OFFLINE"} :
        /\ w = "AWAY" => HandlePresenceUpdate(s, k)
        /\ w = "OFFLINE" => GoOffline(s, k)
  OBVIOUS
<1>2. PICK q : q = [pc |-> "presence", user |-> socket[k].user, status |-> w]
  OBVIOUS
<1>3. socket[k].user \in Users
  BY ConnectedUser DEF HandlePresenceUpdate, GoOffline, TalkInv
<1>4. q \in GateCall
  BY <1>2, <1>3 DEF GateCall, PresenceCall
<1>5. chat' = [chat EXCEPT ![s] = q] /\ LeftGoesDown
  BY <1>1, <1>2 DEF HandlePresenceUpdate, GoOffline, GateBegins, Begin, Free, ChatGoto, Goto,
                    LeftGoesDown
<1> QED BY <1>4, <1>5 DEF GateGoesOn

LEMMA GateEnds ==
  ASSUME NEW s \in Slots, BroadcastPresence(s) \/ ChatDie(s)
  PROVE  GateGoesOn(s, Idle)
BY DEF BroadcastPresence, ChatDie, Die, ChatGoto, Goto, LeftGoesDown, GateGoesOn

\* What a socket sends or has read is a request of its user.
LEMMA SocketSends ==
  ASSUME TalkInv, NEW s \in Slots, NEW k \in Sockets, NEW c \in DOMAIN conversation,
         HandleMessageSend(s, k, c) \/ HandleMessageRead(s, k, c)
  PROVE  \E q : RoomBegins(s, q)
<1>1. PICK u \in Users : u = socket[k].user
  BY ConnectedUser DEF TalkInv, HandleMessageSend, HandleMessageRead
<1>2. CASE HandleMessageSend(s, k, c)
  <2>1. SendMessage(s, u, c)
    BY <1>1, <1>2 DEF HandleMessageSend, SendMessage, Begins, Begin
  <2> QED BY <2>1, SendBegins
<1>3. CASE HandleMessageRead(s, k, c)
  <2>1. MarkAsRead(s, u, c)
    BY <1>1, <1>3 DEF HandleMessageRead, MarkAsRead, Begins, Begin
  <2> QED BY <2>1, SendBegins
<1> QED BY <1>2, <1>3

\* A step of the gateway: ChatService begins a statement for a socket, or one
\* of its own calls goes on, or it leaves the calls alone, or all of them end.
LEMMA GateMoves ==
  ASSUME TalkInv, GateNext
  PROVE  \/ \E s \in Slots : \E q : RoomBegins(s, q)
         \/ \E s \in Slots : \E q : GateGoesOn(s, q)
         \/ UNCHANGED <<chat, chatLeft>>
         \/ ProcessEnds
<1>1. CASE \E k \in Sockets : HandleDisconnect(k)
  BY <1>1 DEF HandleDisconnect
<1>2. ASSUME NEW s \in Slots, NEW k \in Sockets, NEW c \in DOMAIN conversation,
             HandleMessageSend(s, k, c) \/ HandleMessageRead(s, k, c)
      PROVE  \E q : RoomBegins(s, q)
  BY <1>2, SocketSends
<1>3. ASSUME NEW s \in Slots, GateRequest(s)
      PROVE  \E q : RoomBegins(s, q) \/ GateGoesOn(s, q)
  BY <1>2, <1>3, AuthenticateBegins, JoinBegins, PresenceBegins DEF GateRequest
<1>4. ASSUME NEW s \in Slots,
             GateStep(s) \/ ChatDie(s) \/ \E k \in Sockets : GoOffline(s, k)
      PROVE  \E q : GateGoesOn(s, q)
  BY <1>4, ReadSeatsGoesOn, EnterGoesOn, GateEnds, PresenceBegins DEF GateStep
<1> QED BY <1>1, <1>3, <1>4 DEF GateNext

LEMMA RoomMoves ==
  ASSUME TalkInv, RoomNext
  PROVE  \/ \E s \in Slots : \E q : RoomBegins(s, q) \/ RoomGoesOn(s, q)
         \/ UNCHANGED chat /\ LeftGoesDown
<1>1. ASSUME NEW u, JoinEventChat(u) PROVE UNCHANGED chat /\ LeftGoesDown
  BY <1>1 DEF JoinEventChat, LeftGoesDown
<1>2. ASSUME NEW u, NEW c, PostBroadcast(u, c) PROVE UNCHANGED chat /\ LeftGoesDown
  BY <1>2 DEF PostBroadcast, LeftGoesDown
<1>3. ASSUME NEW u, NEW m, RemoveReaction(u, m) PROVE UNCHANGED chat /\ LeftGoesDown
  BY <1>3 DEF RemoveReaction, LeftGoesDown
<1> QED BY <1>1, <1>2, <1>3, RequestBegins, StepGoesOn DEF RoomNext

LEMMA ChatCallsStep ==
  ASSUME TalkInv, ChatGrows, ChatNext
  PROVE  ChatCallsOK'
<1>1. ASSUME NEW s \in Slots, NEW q, RoomBegins(s, q) PROVE ChatCallsOK'
  <2>1. q \in ChatCall /\ ChatKnows(q)
    BY <1>1 DEF RoomBegins, ChatCall
  <2>2. chat' = [chat EXCEPT ![s] = q] /\ chatLeft > 0 /\ chatLeft' = chatLeft - 1
    BY <1>1 DEF RoomBegins, Begins, Begin, Free
  <2> QED BY <2>1, <2>2, CallGoesOn
<1>2. ASSUME NEW s \in Slots, NEW q, RoomGoesOn(s, q) PROVE ChatCallsOK'
  <2>1. q \in ChatCall /\ ChatKnows(q)
    BY <1>2 DEF RoomGoesOn, ChatCall
  <2>2. chat' = [chat EXCEPT ![s] = q] /\ chatLeft' = chatLeft
    BY <1>2 DEF RoomGoesOn
  <2> QED BY <2>1, <2>2, CallGoesOn
<1>3. ASSUME NEW s \in Slots, NEW q, GateGoesOn(s, q) PROVE ChatCallsOK'
  <2>1. q \in ChatCall /\ ChatKnows(q)
    BY <1>3, GateKnows DEF GateGoesOn
  <2>2. chat' = [chat EXCEPT ![s] = q] /\ LeftGoesDown
    BY <1>3 DEF GateGoesOn
  <2> QED BY <2>1, <2>2, CallGoesOn DEF LeftGoesDown
<1>4. ASSUME UNCHANGED chat, LeftGoesDown PROVE ChatCallsOK'
  BY <1>4, ChatCallsStay DEF LeftGoesDown
<1>5. CASE ProcessEnds
  <2>1. chatLeft \in Nat /\ chatLeft > 0 /\ chatLeft' = chatLeft - 1
    BY <1>5 DEF ProcessEnds, TalkInv, ChatCallsOK
  <2>2. chat' = [s \in Slots |-> Idle]
    BY <1>5 DEF ProcessEnds
  <2>3. chat' \in [Slots -> ChatCall] /\ chatLeft' \in Nat
    BY <2>1, <2>2, GateKnows
  <2>4. ASSUME NEW t \in Slots PROVE ChatKnows(chat[t])'
    <3>1. chat'[t] = Idle
      BY <2>2
    <3> QED BY <3>1, LabelsApart DEF ChatKnows
  <2> QED BY <2>3, <2>4 DEF ChatCallsOK
<1>6. CASE ServiceStep
  BY <1>1, <1>2, <1>4, <1>6, RoomMoves DEF ServiceStep
<1>7. CASE GateNext
  <2>1. UNCHANGED <<chat, chatLeft>> => LeftGoesDown
    BY DEF LeftGoesDown
  <2> QED BY <1>1, <1>3, <1>4, <1>5, <1>7, <2>1, GateMoves
<1> QED BY <1>6, <1>7 DEF ChatNext

-----------------------------------------------------------------------------
(* The time of a new message.                                              *)

LEMMA MaxOfSome ==
  ASSUME NEW S \in SUBSET Nat, S # {}, NEW n \in Nat, \A x \in S : x <= n
  PROVE  Max(S) \in S /\ \A x \in S : x <= Max(S)
<1>1. PICK B : B = {b \in Nat : \A x \in S : x <= b}
  OBVIOUS
<1>2. B \subseteq Nat /\ n \in B
  BY <1>1
<1>3. PICK b \in B : \A y \in B : <<y, b>> \notin OpToRel(<, Nat)
  BY <1>2, NatLessThanWellFounded, WFMin
<1>4. b \in Nat /\ \A x \in S : x <= b
  BY <1>1
<1>5. \A y \in B : ~(y < b)
  BY <1>2, <1>3, <1>4 DEF OpToRel
<1>6. b \in S
  <2> SUFFICES ASSUME b \notin S PROVE FALSE
    OBVIOUS
  <2>1. \A x \in S : x <= b - 1
    BY <1>4
  <2>2. PICK x \in S : x \in Nat
    OBVIOUS
  <2>3. b - 1 \in Nat
    BY <1>4, <2>1, <2>2
  <2>4. b - 1 \in B
    BY <1>1, <2>1, <2>3
  <2> QED BY <1>4, <1>5, <2>4
<1> QED BY <1>4, <1>6 DEF Max

\* Finitely many numbers have a bound.
LEMMA SomeBound ==
  ASSUME NEW n \in Nat, NEW f, \A i \in 1 .. n : f[i] \in Nat
  PROVE  \E b \in Nat : \A i \in 1 .. n : f[i] <= b
<1>1. PICK Unbounded : Unbounded = {k \in 0 .. n : ~ \E b \in Nat : \A i \in 1 .. k : f[i] <= b}
  OBVIOUS
<1>2. Unbounded = {}
  <2> SUFFICES ASSUME Unbounded # {} PROVE FALSE
    OBVIOUS
  <2>1. Unbounded \subseteq Nat
    BY <1>1
  <2>2. PICK k \in Unbounded : \A y \in Unbounded : <<y, k>> \notin OpToRel(<, Nat)
    BY <2>1, NatLessThanWellFounded, WFMin
  <2>3. \A y \in Unbounded : ~(y < k)
    BY <2>1, <2>2 DEF OpToRel
  <2>4. k # 0
    BY <1>1
  <2>5. k - 1 \in 0 .. n /\ k - 1 < k /\ k \in 1 .. n
    BY <1>1, <2>4
  <2>6. PICK b \in Nat : \A i \in 1 .. (k - 1) : f[i] <= b
    BY <1>1, <2>3, <2>5
  <2>7. PICK x \in Nat : x = f[k]
    BY <2>5
  <2>8. PICK d \in Nat : b <= d /\ x <= d
    <3>1. b + x \in Nat /\ b <= b + x /\ x <= b + x
      OBVIOUS
    <3> QED BY <3>1
  <2>9. ASSUME NEW i \in 1 .. k PROVE f[i] <= d
    <3>1. CASE i = k
      BY <2>7, <2>8, <3>1
    <3>2. CASE i # k
      <4>1. i \in 1 .. (k - 1) /\ i \in 1 .. n
        BY <2>5, <3>2
      <4>2. f[i] <= b /\ f[i] \in Nat
        BY <2>6, <4>1
      <4> QED BY <2>8, <4>2
    <3> QED BY <3>1, <3>2
  <2> QED BY <1>1, <2>9
<1>3. n \in 0 .. n
  OBVIOUS
<1> QED BY <1>1, <1>2, <1>3

LEMMA LatestIsTime ==
  ASSUME TalkInv
  PROVE  Latest \in Nat
<1>1. PICK n \in Nat : DOMAIN message = 1 .. n
  BY DEF TalkInv, RoomTables
<1>2. \A m \in 1 .. n : message[m].at \in Nat
  BY <1>1, MessageTimes
<1>3. PICK f : f = [m \in 1 .. n |-> message[m].at]
  OBVIOUS
<1>4. \A m \in 1 .. n : f[m] \in Nat
  BY <1>2, <1>3
<1>5. PICK b \in Nat : \A m \in 1 .. n : f[m] <= b
  BY <1>4, SomeBound
<1>6. PICK S : S = {0} \cup {message[m].at : m \in DOMAIN message}
  OBVIOUS
<1>7. S \in SUBSET Nat /\ S # {}
  BY <1>1, <1>2, <1>6
<1>8. \A x \in S : x <= b
  BY <1>1, <1>3, <1>5, <1>6
<1>9. Max(S) \in Nat
  BY <1>7, <1>8, MaxOfSome
<1> QED BY <1>6, <1>9 DEF Latest

-----------------------------------------------------------------------------
(* The tables.                                                             *)

\* A new message.
LEMMA PostGrows ==
  ASSUME TalkInv, NEW c \in DOMAIN conversation, NEW u \in Users, Posted(c, u),
         UNCHANGED <<conversation, reaction, pinned, rushed, late>>
  PROVE  RoomTables' /\ ChatGrows
<1>1. PICK at \in {Latest, Latest + 1} :
        message' = Append(message, [conversation |-> c, sender |-> u, at |-> at,
                                    isDeleted |-> FALSE, content |-> "sent"])
  BY DEF Posted
<1>2. PICK row : row = [conversation |-> c, sender |-> u, at |-> at, isDeleted |-> FALSE,
                        content |-> "sent"]
  OBVIOUS
<1>3. at \in Nat
  BY LatestIsTime
<1>4. row \in Message /\ row.conversation = c
  BY <1>2, <1>3, Indices DEF Message
<1>5. RoomTables
  BY DEF TalkInv
<1>6. message \in Seq(Message)
  BY <1>5 DEF RoomTables
<1>7. /\ message' \in Seq(Message)
      /\ DOMAIN message' = DOMAIN message \cup {Len(message) + 1}
      /\ Len(message) + 1 \notin DOMAIN message
      /\ \A i \in DOMAIN message : message'[i] = message[i]
      /\ message'[Len(message) + 1] = row
  <2>1. message' = Append(message, row)
    BY <1>1, <1>2
  <2>2. message' \in Seq(Message)
    BY <1>4, <1>6, <2>1, AppendProperties
  <2> QED BY <1>6, <2>1, <2>2, AppendAny
<1>8. ChatGrows
  BY <1>7 DEF ChatGrows
<1>9. \A m \in DOMAIN message' : message'[m].conversation \in DOMAIN conversation'
  BY <1>4, <1>5, <1>7 DEF RoomTables
<1>10. reaction' \subseteq (DOMAIN message') \X Users /\ late' \subseteq DOMAIN message'
  BY <1>5, <1>7 DEF RoomTables
<1>11. /\ pinned' \in [1 .. MaxChat + 1 -> {0} \cup DOMAIN message']
       /\ \A d \in DOMAIN pinned' : pinned'[d] # 0 => message'[pinned'[d]].conversation = d
  BY <1>5, <1>7 DEF RoomTables
<1> QED BY <1>5, <1>7, <1>8, <1>9, <1>10, <1>11 DEF RoomTables

\* The content of a message, and its deletion.
LEMMA WriteGrows ==
  ASSUME TalkInv, NEW s \in Slots, WriteMessage(s)
  PROVE  RoomTables' /\ ChatGrows
<1>1. PICK c \in ChangeCall : c = chat[s] /\ c.pc \in {"edit", "delete", "moderate"} /\ ChatKnows(c)
  BY ChatKinds DEF WriteMessage, TalkInv, ChatCallsOK
<1>2. PICK m \in DOMAIN message : m = c.message
  BY <1>1 DEF ChatKnows
<1>3. PICK content \in {"edited", "removed", None} :
        content = CASE c.pc = "edit" -> "edited" [] c.pc = "delete" -> None
                    [] c.pc = "moderate" -> "removed"
  BY <1>1
<1>4. RoomTables /\ message \in Seq(Message)
  BY DEF TalkInv, RoomTables
<1>5. PICK row : row = [message[m] EXCEPT !.content = content, !.isDeleted = @ \/ c.pc # "edit"]
  OBVIOUS
<1>6. message[m] \in Message
  BY MessageTimes
<1>7. /\ row \in Message /\ row.conversation = message[m].conversation /\ row.at = message[m].at
      /\ message[m].isDeleted => row.isDeleted
  BY <1>3, <1>5, <1>6 DEF Message
<1>8. message' = [message EXCEPT ![m] = row]
  <2>1. message' = [message EXCEPT
           ![m].content = content,
           ![m].isDeleted = @ \/ c.pc # "edit"]
    BY <1>1, <1>2, <1>3 DEF WriteMessage
  <2> QED BY <1>4, <1>5, <1>6, <2>1 DEF Message
<1>9. /\ message' \in Seq(Message) /\ DOMAIN message' = DOMAIN message
      /\ \A i \in DOMAIN message : message'[i] = IF i = m THEN row ELSE message[i]
  <2>1. m \in 1 .. Len(message)
    BY <1>4
  <2>2. message' \in Seq(Message)
    BY <1>4, <1>7, <1>8, <2>1, ExceptSeq
  <2> QED BY <1>4, <1>8, <2>2, ExceptAny
<1>10. UNCHANGED <<conversation, reaction, pinned, rushed>> /\ late' \subseteq late \cup {m}
  BY <1>1, <1>2 DEF WriteMessage
<1>11. ChatGrows
  BY <1>7, <1>9, <1>10 DEF ChatGrows
<1>12. \A i \in DOMAIN message' : message'[i].conversation \in DOMAIN conversation'
  BY <1>4, <1>7, <1>9, <1>10 DEF RoomTables
<1>13. /\ pinned' \in [1 .. MaxChat + 1 -> {0} \cup DOMAIN message']
       /\ \A d \in DOMAIN pinned' : pinned'[d] # 0 => message'[pinned'[d]].conversation = d
  BY <1>4, <1>7, <1>9, <1>10 DEF RoomTables
<1>14. reaction' \subseteq (DOMAIN message') \X Users /\ late' \subseteq DOMAIN message'
  BY <1>4, <1>9, <1>10 DEF RoomTables
<1> QED BY <1>4, <1>9, <1>10, <1>11, <1>12, <1>13, <1>14 DEF RoomTables

\* Seats and conversations.
LEMMA ConversationsGrow ==
  ASSUME TalkInv, RoomNext, UNCHANGED <<message, reaction, pinned, rushed, late>>
  PROVE  RoomTables' /\ ChatGrows
<1>1. conversation' \in Seq(Conversation) /\ DOMAIN conversation \subseteq DOMAIN conversation'
  BY ConversationsStay DEF TalkInv
<1>2. ChatGrows
  BY <1>1 DEF ChatGrows
<1> QED BY <1>1, <1>2 DEF TalkInv, RoomTables

\* Reactions, pins and the histories.
LEMMA MessagesRest ==
  ASSUME TalkInv, UNCHANGED <<conversation, message>>,
         reaction' \subseteq (DOMAIN message) \X Users,
         pinned' \in [1 .. MaxChat + 1 -> {0} \cup DOMAIN message],
         \A c \in DOMAIN pinned' : pinned'[c] # 0 => message[pinned'[c]].conversation = c,
         rushed' \subseteq SUBSET Users, late' \subseteq DOMAIN message
  PROVE  RoomTables' /\ ChatGrows
BY NothingGrows DEF TalkInv, RoomTables

LEMMA ReactGrows ==
  ASSUME TalkInv, NEW s \in Slots, React(s)
  PROVE  RoomTables' /\ ChatGrows
<1>1. PICK c \in ChangeCall : c = chat[s] /\ c.pc = "react" /\ ChatKnows(c)
  BY ChatKinds DEF React, TalkInv, ChatCallsOK
<1>2. <<c.message, c.user>> \in (DOMAIN message) \X Users
  BY <1>1 DEF ChatKnows, ChangeCall
<1>3. reaction' = reaction \cup {<<c.message, c.user>>}
      /\ UNCHANGED <<conversation, message, pinned, rushed, late>>
  BY <1>1 DEF React
<1> QED BY <1>2, <1>3, MessagesRest DEF TalkInv, RoomTables

LEMMA PinGrows ==
  ASSUME TalkInv, NEW s \in Slots, WritePin(s)
  PROVE  RoomTables' /\ ChatGrows
<1>1. PICK c \in PinCall : c = chat[s] /\ c.pc \in {"pin", "unpin"} /\ ChatKnows(c)
  BY ChatKinds DEF WritePin, TalkInv, ChatCallsOK
<1>2. /\ c.message \in {0} \cup DOMAIN message
      /\ c.message # 0 => message[c.message].conversation = c.conversation
  BY <1>1 DEF ChatKnows, PinKnows
<1>3. pinned' = [pinned EXCEPT ![c.conversation] = c.message]
      /\ UNCHANGED <<conversation, message, reaction, rushed, late>>
  BY <1>1 DEF WritePin
<1>4. RoomTables
  BY DEF TalkInv
<1>5. pinned' \in [1 .. MaxChat + 1 -> {0} \cup DOMAIN message]
  BY <1>2, <1>3, <1>4 DEF RoomTables
<1>6. \A d \in DOMAIN pinned' : pinned'[d] # 0 => message[pinned'[d]].conversation = d
  BY <1>2, <1>3, <1>4 DEF RoomTables
<1> QED BY <1>3, <1>4, <1>5, <1>6, MessagesRest DEF RoomTables

LEMMA UnreactGrows ==
  ASSUME TalkInv, NEW u \in Users, NEW m \in DOMAIN message, RemoveReaction(u, m)
  PROVE  RoomTables' /\ ChatGrows
<1>1. reaction' \subseteq reaction /\ UNCHANGED <<conversation, message, pinned, rushed, late>>
  BY DEF RemoveReaction
<1> QED BY <1>1, MessagesRest DEF TalkInv, RoomTables

LEMMA TablesRest ==
  ASSUME TalkInv, UNCHANGED <<conversation, message, reaction, pinned, late>>,
         rushed' \subseteq SUBSET Users
  PROVE  RoomTables' /\ ChatGrows
BY MessagesRest DEF TalkInv, RoomTables

LEMMA BeginsRest ==
  ASSUME TalkInv, NEW s \in Slots, NEW q, RoomBegins(s, q)
  PROVE  RoomTables' /\ ChatGrows
<1>1. UNCHANGED <<conversation, message, reaction, pinned, late>>
  BY DEF RoomBegins, Begins
<1>2. q \in OpenCall => q.with \subseteq Users
  BY DEF OpenCall
<1>3. q.pc = "open" => q \in OpenCall
  BY ChatKinds DEF RoomBegins, ChatCall
<1>4. rushed' \subseteq SUBSET Users
  BY <1>2, <1>3 DEF RoomBegins, DirectBegins, TalkInv, RoomTables
<1> QED BY <1>1, <1>4, TablesRest

LEMMA ServiceGrows ==
  ASSUME TalkInv, RoomNext
  PROVE  RoomTables' /\ ChatGrows
<1>1. ASSUME NEW u \in Users, JoinEventChat(u) PROVE RoomTables' /\ ChatGrows
  BY <1>1, ConversationsGrow DEF JoinEventChat
<1>2. ASSUME NEW u \in Users, NEW c \in DOMAIN conversation, PostBroadcast(u, c)
      PROVE  RoomTables' /\ ChatGrows
  BY <1>2, PostGrows DEF PostBroadcast
<1>3. ASSUME NEW s \in Slots, RoomRequest(s) PROVE RoomTables' /\ ChatGrows
  BY <1>3, RequestBegins, BeginsRest
<1>4. ASSUME NEW s \in Slots, OpenConversation(s) \/ DeleteSeat(s)
      PROVE  RoomTables' /\ ChatGrows
  BY <1>4, ConversationsGrow DEF OpenConversation, DeleteSeat
<1>5. ASSUME NEW s \in Slots, StoreMessage(s) PROVE RoomTables' /\ ChatGrows
  <2>1. PICK c \in SendCall : c = chat[s] /\ ChatKnows(c)
    BY <1>5, ChatKinds DEF StoreMessage, TalkInv, ChatCallsOK
  <2>2. c.conversation \in DOMAIN conversation /\ c.user \in Users
    BY <2>1 DEF ChatKnows, SendCall
  <2>3. Posted(c.conversation, c.user)
    BY <1>5, <2>1 DEF StoreMessage, Posted
  <2> QED BY <1>5, <2>2, <2>3, PostGrows DEF StoreMessage
<1>6. ASSUME NEW s \in Slots,
             TouchConversation(s) \/ Reactor(s) \/ GetMessages(s) \/ Scrolled(s) \/ FindPinned(s)
      PROVE  RoomTables' /\ ChatGrows
  <2>1. UNCHANGED roomVars
    BY <1>6 DEF TouchConversation, Reactor, GetMessages, Scrolled, FindPinned
  <2> QED BY <2>1, TablesRest DEF roomVars, TalkInv, RoomTables
<1> QED BY <1>1, <1>2, <1>3, <1>4, <1>5, <1>6, WriteGrows, ReactGrows, PinGrows, UnreactGrows
        DEF RoomNext, RoomStep

LEMMA GatewayGrows ==
  ASSUME TalkInv, GateNext
  PROVE  RoomTables' /\ ChatGrows
<1>1. (\E s \in Slots : \E q : RoomBegins(s, q)) \/ UNCHANGED roomVars
  <2>1. ASSUME NEW s \in Slots, NEW k \in Sockets, NEW c \in DOMAIN conversation,
               HandleMessageSend(s, k, c) \/ HandleMessageRead(s, k, c)
        PROVE  \E q : RoomBegins(s, q)
    BY <2>1, SocketSends
  <2>2. ASSUME NEW s \in Slots, GateRequest(s)
        PROVE  (\E q : RoomBegins(s, q)) \/ UNCHANGED roomVars
    BY <2>1, <2>2 DEF GateRequest, AuthenticateSocket, HandleJoinConversation,
                      HandlePresenceUpdate, GateBegins
  <2>3. ASSUME NEW s \in Slots,
               GateStep(s) \/ ChatDie(s) \/ \E k \in Sockets : GoOffline(s, k)
        PROVE  UNCHANGED roomVars
    BY <2>3 DEF GateStep, ReadSeats, EnterRooms, BroadcastPresence, ChatDie, GoOffline,
                Disconnected
  <2>4. ASSUME ProcessEnds \/ \E k \in Sockets : HandleDisconnect(k)
        PROVE  UNCHANGED roomVars
    BY <2>4 DEF ProcessEnds, HandleDisconnect, Disconnected
  <2> QED BY <2>2, <2>3, <2>4 DEF GateNext
<1>2. UNCHANGED roomVars => RoomTables' /\ ChatGrows
  BY TablesRest DEF roomVars, TalkInv, RoomTables
<1> QED BY <1>1, <1>2, BeginsRest

-----------------------------------------------------------------------------
(* The invariant of the tables and the calls.                              *)

LEMMA TalkInit == ChatInit => TalkInv
<1> SUFFICES ASSUME ChatInit PROVE TalkInv
  OBVIOUS
<1>1. ChatInv
  BY ChatInitInv
<1>2. conversation \in Seq(Conversation) /\ DOMAIN conversation = {1}
  <2>1. PICK row : conversation = <<row>>
    BY DEF ChatInit, RoomInit
  <2> QED BY <1>1, <2>1 DEF ChatInv, ChatType
<1>3. /\ message \in Seq(Message)
      /\ \A m \in DOMAIN message : message[m].conversation = 1
  <2>1. PICK n \in Nat : DOMAIN Past = 1 .. n
    BY ChatAssumption
  <2>2. \A m \in 1 .. n : Past[m] \in Nat
    BY <2>1, ChatAssumption
  <2>3. message = [m \in 1 .. n |-> [conversation |-> 1, sender |-> Organizer, at |-> Past[m],
                                     isDeleted |-> FALSE, content |-> "sent"]]
    BY <2>1 DEF ChatInit, RoomInit
  <2>4. \A m \in 1 .. n : message[m] \in Message /\ message[m].conversation = 1
    BY <2>2, <2>3, ChatAssumption DEF Message
  <2>5. message \in [1 .. n -> Message]
    BY <2>3, <2>4
  <2> QED BY <2>4, <2>5
<1>4. /\ reaction = {} /\ pinned = [c \in 1 .. MaxChat + 1 |-> 0] /\ rushed = {} /\ late = {}
      /\ chat = [s \in Slots |-> Idle] /\ chatLeft = MaxChat
  BY DEF ChatInit, RoomInit
<1>5. RoomTables
  BY <1>2, <1>3, <1>4 DEF RoomTables
<1>6. ChatCallsOK
  <2>1. MaxChat \in Nat
    BY ChatAssumption
  <2>2. \A s \in Slots : ChatKnows(chat[s]) /\ chat[s] \in ChatCall
    BY <1>4, GateKnows
  <2> QED BY <1>4, <2>1, <2>2 DEF ChatCallsOK
<1> QED BY <1>1, <1>5, <1>6 DEF TalkInv

LEMMA TalkGrows ==
  ASSUME TalkInv, ChatNext
  PROVE  RoomTables' /\ ChatGrows
BY ServiceGrows, GatewayGrows DEF ChatNext, ServiceStep

LEMMA TalkStep == TalkInv /\ [ChatNext]_chatVars => TalkInv'
<1> SUFFICES ASSUME TalkInv, [ChatNext]_chatVars PROVE TalkInv'
  OBVIOUS
<1>1. ChatInv'
  BY ChatStepInv DEF TalkInv
<1>2. CASE ChatNext
  BY <1>1, <1>2, TalkGrows, ChatCallsStep DEF TalkInv
<1>3. CASE UNCHANGED chatVars
  <2>1. UNCHANGED <<conversation, message, reaction, pinned, rushed, late, chat, chatLeft>>
    BY <1>3 DEF chatVars, roomVars
  <2>2. RoomTables' /\ ChatGrows
    BY <2>1, TablesRest DEF TalkInv, RoomTables
  <2>3. ChatCallsOK'
    BY <2>1, <2>2, ChatCallsStay
  <2> QED BY <1>1, <2>2, <2>3 DEF TalkInv
<1> QED BY <1>2, <1>3

LEMMA ScrolledAll == TalkInv => ScrollSeesAll
<1> SUFFICES ASSUME TalkInv, NEW s \in Slots, chat[s].pc = "scrolled",
                    NEW m \in chat[s].start \ chat[s].seen
             PROVE  message[m].isDeleted \/ Tied(m)
  BY DEF ScrollSeesAll, Tied
<1>1. PICK c \in ScrollCall : c = chat[s] /\ ChatKnows(c) /\ c.pc = "scrolled"
  BY ChatKinds DEF TalkInv, ChatCallsOK
<1>2. StillToCome(c, m)
  BY <1>1 DEF ChatKnows, ScrollKnows
<1> QED BY <1>1, <1>2 DEF StillToCome

\* A client that scrolls to the end of a conversation has seen every message there
\* was when it began, but for those deleted since and those as old as another one:
\* for pages of every size, any number of messages sent, edited and deleted
\* meanwhile, and every choice among messages of the same age.
THEOREM ScrolledToTheEnd == ChatSpec => []ScrollSeesAll
BY TalkInit, TalkStep, ScrolledAll, PTL DEF ChatSpec

-----------------------------------------------------------------------------
(* Types of the gateway.                                                   *)

GateTables ==
  /\ userSockets \in [Users -> SUBSET Sockets]
  /\ shown \in [DOMAIN conversation -> Presence]
  /\ excused \subseteq Sockets \X Nat
  /\ unheard \subseteq (DOMAIN conversation) \X Users
  /\ stirred \subseteq Users

LEMMA GateTablesInit == ChatInit => GateTables
<1>1. Unseen \in Presence
  BY DEF Unseen, Presence
<1> QED BY <1>1 DEF ChatInit, GateInit, GateTables

\* The gateway writes no seats.
LEMMA SeatsAtGateway == GateNext => UNCHANGED conversation
<1>1. ASSUME NEW s \in Slots, GateRequest(s) PROVE UNCHANGED conversation
  <2>1. ASSUME NEW k \in Sockets, NEW c,
               \/ HandleJoinConversation(s, k, c) \/ HandleMessageSend(s, k, c)
               \/ HandleMessageRead(s, k, c)
        PROVE  UNCHANGED conversation
    BY <2>1 DEF HandleJoinConversation, HandleMessageSend, HandleMessageRead, SendMessage,
                MarkAsRead, Begins, GateBegins, roomVars
  <2> QED BY <1>1, <2>1 DEF GateRequest, AuthenticateSocket, HandlePresenceUpdate, GateBegins, roomVars
<1>2. ASSUME NEW s \in Slots,
             GateStep(s) \/ ChatDie(s) \/ \E k \in Sockets : GoOffline(s, k)
      PROVE  UNCHANGED conversation
  BY <1>2 DEF GateStep, ReadSeats, EnterRooms, BroadcastPresence, ChatDie, GoOffline,
              Disconnected, roomVars
<1>3. ASSUME ProcessEnds \/ \E k \in Sockets : HandleDisconnect(k)
      PROVE  UNCHANGED conversation
  BY <1>3 DEF ProcessEnds, HandleDisconnect, Disconnected, roomVars
<1> QED BY <1>1, <1>2, <1>3 DEF GateNext

\* What is announced in a room leaves a presence there.
LEMMA ShownAnnounced ==
  ASSUME GateTables, NEW c \in PresenceCall, NEW R,
         shown' = [r \in DOMAIN shown |->
                    IF r \in R THEN [shown[r] EXCEPT ![c.user] = c.status] ELSE shown[r]]
  PROVE  shown' \in [DOMAIN conversation -> Presence]
<1>1. c.status \in {"ONLINE", "OFFLINE", "AWAY"}
  BY DEF PresenceCall
<1>2. ASSUME NEW p \in Presence PROVE [p EXCEPT ![c.user] = c.status] \in Presence
  BY <1>1, <1>2 DEF Presence
<1>3. DOMAIN shown = DOMAIN conversation /\ \A r \in DOMAIN conversation : shown[r] \in Presence
  BY DEF GateTables
<1>4. ASSUME NEW r \in DOMAIN conversation
      PROVE  (IF r \in R THEN [shown[r] EXCEPT ![c.user] = c.status] ELSE shown[r]) \in Presence
  BY <1>2, <1>3
<1> QED BY <1>3, <1>4

LEMMA GateTablesService ==
  ASSUME TalkInv, GateTables, ServiceStep
  PROVE  GateTables'
<1>1. UNCHANGED <<userSockets, stirred>> /\ RoomNext
  BY DEF ServiceStep
<1>2. DOMAIN conversation \subseteq DOMAIN conversation'
  BY <1>1, ConversationsStay DEF TalkInv
<1>3. excused' \subseteq Sockets \X Nat
  <2>1. excused' \subseteq excused \cup (Sockets \X DOMAIN conversation)
    BY DEF ServiceStep
  <2> QED BY <2>1, Indices DEF GateTables
<1>4. shown' \in [DOMAIN conversation' -> Presence]
  <2>1. shown' = [c \in DOMAIN conversation' |-> IF c \in DOMAIN shown THEN shown[c] ELSE Unseen]
    BY DEF ServiceStep
  <2>2. Unseen \in Presence
    BY DEF Unseen, Presence
  <2>3. \A c \in DOMAIN shown : shown[c] \in Presence
    BY DEF GateTables
  <2> QED BY <2>1, <2>2, <2>3
<1>5. unheard' \subseteq (DOMAIN conversation') \X Users
  <2>1. unheard' \subseteq unheard \cup ((DOMAIN conversation') \X Users)
    BY DEF ServiceStep
  <2> QED BY <1>2, <2>1 DEF GateTables
<1> QED BY <1>1, <1>3, <1>4, <1>5 DEF GateTables

LEMMA StirsUsers ==
  ASSUME GateTables, NEW u \in Users
  PROVE  Stirs(u) \subseteq Users
BY DEF Stirs, GateTables

LEMMA GateTablesStep ==
  ASSUME TalkInv, GateTables, [ChatNext]_chatVars
  PROVE  GateTables'
<1>1. CASE UNCHANGED chatVars
  BY <1>1 DEF chatVars, gateVars, roomVars, GateTables
<1>2. CASE ServiceStep
  BY <1>2, GateTablesService
<1>3. ASSUME GateNext PROVE UNCHANGED conversation
  BY <1>3, SeatsAtGateway
<1>4. ASSUME NEW s \in Slots, NEW k \in Sockets, NEW u \in Users, AuthenticateSocket(s, k, u),
             UNCHANGED conversation
      PROVE  GateTables'
  <2>1. been[k] \subseteq Users
    BY DEF TalkInv, ChatInv, ChatType
  <2>2. /\ userSockets' = [userSockets EXCEPT ![u] = @ \cup {k}]
        /\ UNCHANGED <<shown, excused, unheard>>
        /\ stirred' \subseteq Stirs(u) \cup been[k]
    BY <1>4 DEF AuthenticateSocket
  <2> QED BY <1>4, <2>1, <2>2, StirsUsers DEF GateTables
<1>5. ASSUME NEW s \in Slots, NEW k \in Sockets, NEW c,
             \/ HandleJoinConversation(s, k, c) \/ HandleMessageSend(s, k, c)
             \/ HandleMessageRead(s, k, c),
             UNCHANGED conversation
      PROVE  GateTables'
  BY <1>5 DEF HandleJoinConversation, HandleMessageSend, HandleMessageRead, gateVars, GateTables
<1>6. ASSUME NEW s \in Slots, NEW k \in Sockets, HandlePresenceUpdate(s, k), UNCHANGED conversation
      PROVE  GateTables'
  <2>1. socket[k].user \in Users
    BY <1>6, ConnectedUser DEF TalkInv, HandlePresenceUpdate
  <2> QED BY <1>6, <2>1 DEF HandlePresenceUpdate, GateTables
<1>7. ASSUME NEW s \in Slots, ReadSeats(s) \/ EnterRooms(s), UNCHANGED conversation
      PROVE  GateTables'
  BY <1>7 DEF ReadSeats, EnterRooms, gateVars, GateTables
<1>8. ASSUME NEW s \in Slots, BroadcastPresence(s), UNCHANGED conversation PROVE GateTables'
  <2>1. PICK c \in PresenceCall : c = chat[s]
    BY <1>8, ChatKinds DEF BroadcastPresence, TalkInv, ChatCallsOK
  <2>2. /\ shown' = [r \in DOMAIN shown |-> IF r \in SeatsOf(c.user)
                      THEN [shown[r] EXCEPT ![c.user] = c.status] ELSE shown[r]]
        /\ unheard' \subseteq unheard /\ UNCHANGED <<userSockets, excused, stirred>>
    BY <1>8, <2>1 DEF BroadcastPresence
  <2>3. shown' \in [DOMAIN conversation -> Presence]
    BY <2>2, ShownAnnounced
  <2> QED BY <1>8, <2>2, <2>3 DEF GateTables
<1>9. ASSUME NEW s \in Slots, ChatDie(s), UNCHANGED conversation PROVE GateTables'
  <2>1. Announces(s) => chat[s].user \in Users
    BY <1>9, ChatKinds DEF ChatDie, Die, TalkInv, ChatCallsOK
  <2> QED BY <1>9, <2>1 DEF ChatDie, GateTables
<1>10. ASSUME NEW k \in Sockets, HandleDisconnect(k) \/ \E s \in Slots : GoOffline(s, k),
              UNCHANGED conversation
       PROVE  GateTables'
  <2>1. socket[k].user \in Users
    BY <1>10, ConnectedUser DEF TalkInv, HandleDisconnect, GoOffline
  <2>2. Disconnected(k) /\ (stirred' = Stirs(socket[k].user) \/ UNCHANGED stirred)
    BY <1>10 DEF HandleDisconnect, GoOffline
  <2>3. /\ userSockets' = [userSockets EXCEPT ![socket[k].user] = @ \ {k}]
        /\ excused' \subseteq excused /\ UNCHANGED <<shown, unheard>>
    BY <2>2 DEF Disconnected
  <2>4. stirred' \subseteq Users
    BY <2>1, <2>2, StirsUsers DEF GateTables
  <2> QED BY <1>10, <2>1, <2>3, <2>4 DEF GateTables
<1>11. ASSUME ProcessEnds, UNCHANGED conversation PROVE GateTables'
  BY <1>11 DEF ProcessEnds, GateTables
<1> QED BY <1>1, <1>2, <1>3, <1>4, <1>5, <1>6, <1>7, <1>8, <1>9, <1>10, <1>11
        DEF ChatNext, GateNext, GateRequest, GateStep

LEMMA ChatTypesOf == TalkInv /\ GateTables => ChatTypeOK
<1> SUFFICES ASSUME TalkInv, GateTables PROVE ChatTypeOK
  OBVIOUS
<1>1. RoomTypeOK
  BY DEF TalkInv, RoomTables, RoomTypeOK
<1>2. \A k \in Sockets : socket[k] # None => socket[k].rooms \subseteq DOMAIN conversation
  BY DEF TalkInv, ChatInv, ConnectionOK
<1>3. GateTypeOK
  BY <1>2 DEF TalkInv, ChatInv, ChatType, GateTables, GateTypeOK
<1> QED BY <1>1, <1>3 DEF TalkInv, ChatCallsOK, ChatCall, ChatTypeOK

\* Every variable of the chat has its type: a message belongs to a conversation that
\* is there, what is pinned in a conversation was said in it, and no socket is
\* in the room of a conversation that does not exist.
THEOREM ChatTypes == ChatSpec => []ChatTypeOK
<1>1. GateTables /\ TalkInv /\ [ChatNext]_chatVars => GateTables'
  BY GateTablesStep
<1> QED BY <1>1, TalkInit, TalkStep, GateTablesInit, ChatTypesOf, PTL DEF ChatSpec

-----------------------------------------------------------------------------
(***************************************************************************)
(* DIRECT conversations.  While no two creations for a pair have           *)
(* overlapped: at most one is on its way, there is no conversation of the  *)
(* pair while it is, and never more than one.  The chat of the event,      *)
(* whose seats come and go on their own, is not DIRECT.                    *)
(***************************************************************************)
IsPair(pair) == \E u, v \in Users : u # v /\ pair = {u, v}

Directs(pair) == {c \in DOMAIN conversation : /\ conversation[c].type = "DIRECT"
                                              /\ \A u \in pair : Member(c, u)}
Opening(pair) == {s \in Slots : /\ chat[s].pc = "open" /\ chat[s].type = "DIRECT"
                                /\ chat[s].with = pair}

OneDirect(pair) == IsPair(pair) /\ pair \notin rushed =>
  /\ \A s, t \in Opening(pair) : s = t
  /\ Opening(pair) # {} => Directs(pair) = {}
  /\ \A c, d \in Directs(pair) : c = d

DirectInv ==
  /\ 1 \in DOMAIN conversation /\ conversation[1].type = "EVENT"
  /\ \A pair \in SUBSET Users : OneDirect(pair)

LEMMA DirectInit == ChatInit => DirectInv
<1> SUFFICES ASSUME ChatInit PROVE DirectInv
  OBVIOUS
<1>1. PICK row : /\ row = [type |-> "EVENT",
                     seats |-> [u \in Users |-> IF u = Organizer THEN "ADMIN" ELSE "MEMBER"]]
                 /\ conversation = <<row>>
  BY DEF ChatInit, RoomInit
<1>2. row.type = "EVENT"
  BY <1>1
<1>3. DOMAIN conversation = {1} /\ conversation[1] = row
  BY <1>1
<1>4. \A s \in Slots : chat[s].pc = "idle"
  BY LabelsApart DEF ChatInit, RoomInit
<1> QED BY <1>2, <1>3, <1>4 DEF DirectInv, OneDirect, Directs, Opening

\* What is done to seats: some are lost, some are taken in the chat of the
\* event, or a conversation is opened.
SeatsMove ==
  \/ /\ DOMAIN conversation' = DOMAIN conversation
     /\ \A c \in DOMAIN conversation :
          /\ conversation'[c].type = conversation[c].type
          /\ conversation[c].type = "DIRECT" =>
               \A u \in Users : conversation'[c].seats[u] # None => Member(c, u)
  \/ \E s \in Slots : OpenConversation(s)

LEMMA SeatChange ==
  ASSUME TalkInv, NEW c \in DOMAIN conversation, NEW u \in Users, NEW r,
         r = None \/ conversation[c].type # "DIRECT",
         conversation' = [conversation EXCEPT ![c].seats[u] = r]
  PROVE  SeatsMove
<1>1. conversation[c] \in Conversation
  <2>1. conversation \in Seq(Conversation)
    BY DEF TalkInv, RoomTables
  <2> QED BY <2>1, ElementOfSeq
<1>2. PICK row : row = [conversation[c] EXCEPT !.seats[u] = r]
  OBVIOUS
<1>3. /\ row.type = conversation[c].type
      /\ \A v \in Users : row.seats[v] = IF v = u THEN r ELSE conversation[c].seats[v]
  BY <1>1, <1>2 DEF Conversation
<1>4. conversation' = [conversation EXCEPT ![c] = row]
  BY <1>1, <1>2 DEF Conversation
<1>5. /\ DOMAIN conversation' = DOMAIN conversation
      /\ \A d \in DOMAIN conversation : conversation'[d] = IF d = c THEN row ELSE conversation[d]
  <2>1. conversation \in Seq(Conversation)
    BY DEF TalkInv, RoomTables
  <2> QED BY <1>4, <2>1, ExceptAny
<1>6. ASSUME NEW d \in DOMAIN conversation
      PROVE  /\ conversation'[d].type = conversation[d].type
             /\ conversation[d].type = "DIRECT" =>
                  \A v \in Users : conversation'[d].seats[v] # None => Member(d, v)
  <2>1. CASE d = c
    BY <1>3, <1>5, <2>1 DEF Member
  <2>2. CASE d # c
    BY <1>5, <2>2 DEF Member
  <2> QED BY <2>1, <2>2
<1> QED BY <1>5, <1>6 DEF SeatsMove

LEMMA SeatsStay == UNCHANGED conversation => SeatsMove
BY DEF SeatsMove, Member

LEMMA ServiceSeats ==
  ASSUME TalkInv, DirectInv, RoomNext
  PROVE  SeatsMove
<1>1. ASSUME NEW u \in Users, JoinEventChat(u) PROVE SeatsMove
  BY <1>1, SeatChange DEF JoinEventChat, DirectInv
<1>2. ASSUME NEW s \in Slots, DeleteSeat(s) PROVE SeatsMove
  <2>1. PICK c \in KickCall : c = chat[s] /\ ChatKnows(c)
    BY <1>2, ChatKinds DEF DeleteSeat, TalkInv, ChatCallsOK
  <2>2. c.conversation \in DOMAIN conversation /\ c.target \in Users
    BY <2>1 DEF ChatKnows, KickCall
  <2>3. conversation' = [conversation EXCEPT ![c.conversation].seats[c.target] = None]
    BY <1>2, <2>1 DEF DeleteSeat
  <2> QED BY <2>2, <2>3, SeatChange
<1>3. ASSUME NEW s \in Slots, OpenConversation(s) PROVE SeatsMove
  BY <1>3 DEF SeatsMove
<1>4. ASSUME NEW s \in Slots, RoomRequest(s) PROVE SeatsMove
  <2>1. UNCHANGED conversation
    BY <1>4, RequestBegins DEF RoomBegins, Begins
  <2> QED BY <2>1, SeatsStay
<1>5. ASSUME NEW s \in Slots,
             \/ StoreMessage(s) \/ TouchConversation(s) \/ WriteMessage(s) \/ Reactor(s) \/ React(s)
             \/ GetMessages(s) \/ Scrolled(s) \/ FindPinned(s) \/ WritePin(s)
      PROVE  SeatsMove
  <2>1. UNCHANGED conversation
    BY <1>5 DEF StoreMessage, TouchConversation, WriteMessage, Reactor, React, GetMessages,
                Scrolled, FindPinned, WritePin, roomVars
  <2> QED BY <2>1, SeatsStay
<1>6. ASSUME (\E u \in Users, c \in DOMAIN conversation : PostBroadcast(u, c))
             \/ (\E u \in Users, m \in DOMAIN message : RemoveReaction(u, m))
      PROVE  SeatsMove
  <2>1. UNCHANGED conversation
    BY <1>6 DEF PostBroadcast, RemoveReaction
  <2> QED BY <2>1, SeatsStay
<1> QED BY <1>1, <1>2, <1>3, <1>4, <1>5, <1>6 DEF RoomNext, RoomStep

\* What is opened has the seats of its pair and no others.
LEMMA OpenedSeats ==
  ASSUME TalkInv, DirectInv, NEW s \in Slots, OpenConversation(s), NEW pair \in SUBSET Users,
         IsPair(pair)
  PROVE  /\ s \notin Opening(pair) => Directs(pair)' \subseteq Directs(pair)
         /\ s \in Opening(pair) =>
              Directs(pair)' \subseteq Directs(pair) \cup {Len(conversation) + 1}
         /\ 1 \in DOMAIN conversation' /\ conversation'[1] = conversation[1]
<1>1. PICK c \in OpenCall : c = chat[s] /\ ChatKnows(c) /\ c.pc = "open"
  BY ChatKinds DEF OpenConversation, TalkInv, ChatCallsOK
<1>2. PICK row : row = [type |-> c.type, seats |-> [u \in Users |->
        IF u = c.user THEN "ADMIN" ELSE IF u \in c.with THEN "MEMBER" ELSE None]]
  OBVIOUS
<1>3. conversation' = Append(conversation, row)
  BY <1>1, <1>2 DEF OpenConversation
<1>4. conversation \in Seq(Conversation)
  BY DEF TalkInv, RoomTables
<1>5. /\ DOMAIN conversation' = DOMAIN conversation \cup {Len(conversation) + 1}
      /\ \A i \in DOMAIN conversation : conversation'[i] = conversation[i]
      /\ conversation'[Len(conversation) + 1] = row
  BY <1>3, <1>4, AppendAny
<1>6. Directs(pair)' \subseteq Directs(pair) \cup {Len(conversation) + 1}
  BY <1>5 DEF Directs, Member
<1>7. ASSUME Len(conversation) + 1 \in Directs(pair)' PROVE s \in Opening(pair)
  <2>1. c.type = "DIRECT"
    BY <1>2, <1>5, <1>7 DEF Directs
  <2>2. \A u \in pair : row.seats[u] # None
    BY <1>5, <1>7 DEF Directs, Member
  <2>3. c.user \in c.with /\ IsPair(c.with)
    BY <1>1, <2>1 DEF ChatKnows, OpenKnows, IsPair
  <2>4. pair \subseteq c.with
    BY <1>2, <2>2, <2>3
  <2>5. pair = c.with
    BY <2>3, <2>4 DEF IsPair
  <2> QED BY <1>1, <2>1, <2>5 DEF Opening
<1>8. 1 \in DOMAIN conversation' /\ conversation'[1] = conversation[1]
  BY <1>5 DEF DirectInv
<1> QED BY <1>6, <1>7, <1>8

LEMMA MovedSeats ==
  ASSUME TalkInv, DirectInv, SeatsMove, \A s \in Slots : ~OpenConversation(s)
  PROVE  /\ \A pair \in SUBSET Users : Directs(pair)' \subseteq Directs(pair)
         /\ 1 \in DOMAIN conversation' /\ conversation'[1].type = "EVENT"
<1>1. /\ DOMAIN conversation' = DOMAIN conversation
      /\ \A c \in DOMAIN conversation :
          /\ conversation'[c].type = conversation[c].type
          /\ conversation[c].type = "DIRECT" =>
               \A u \in Users : conversation'[c].seats[u] # None => Member(c, u)
  BY DEF SeatsMove
<1> QED BY <1>1 DEF Directs, Member, DirectInv

-----------------------------------------------------------------------------
(* The calls.                                                              *)

LEMMA OneDirectStays ==
  ASSUME NEW pair, OneDirect(pair), rushed \subseteq rushed',
         Opening(pair)' \subseteq Opening(pair), Directs(pair)' \subseteq Directs(pair)
  PROVE  OneDirect(pair)'
BY DEF OneDirect

\* No creation begins.
LEMMA NoneBegins ==
  ASSUME TalkInv, NEW s \in Slots, NEW q, q.pc # "open" \/ q.type # "DIRECT",
         chat' = [chat EXCEPT ![s] = q], NEW pair
  PROVE  Opening(pair)' \subseteq Opening(pair) \ {s}
<1>1. \A t \in Slots : chat'[t] = IF t = s THEN q ELSE chat[t]
  BY DEF TalkInv, ChatCallsOK
<1> QED BY <1>1 DEF Opening

LEMMA DirectAtRequest ==
  ASSUME TalkInv, DirectInv, NEW s \in Slots, NEW q, RoomBegins(s, q), NEW pair \in SUBSET Users
  PROVE  OneDirect(pair)'
<1>1. chat' = [chat EXCEPT ![s] = q] /\ UNCHANGED conversation /\ chat[s] = Idle
  BY DEF RoomBegins, Begins, Begin, Free
<1>2. Directs(pair)' = Directs(pair)
  BY <1>1 DEF Directs, Member
<1>3. CASE q.pc # "open" \/ q.type # "DIRECT"
  <2>1. UNCHANGED rushed
    BY <1>3 DEF RoomBegins
  <2>2. Opening(pair)' \subseteq Opening(pair)
    BY <1>1, <1>3, NoneBegins
  <2> QED BY <1>2, <2>1, <2>2, OneDirectStays DEF DirectInv
<1>4. CASE q.pc = "open" /\ q.type = "DIRECT"
  <2>1. DirectBegins(q)
    BY <1>4 DEF RoomBegins
  <2>2. \A t \in Slots : chat'[t] = IF t = s THEN q ELSE chat[t]
    BY <1>1 DEF TalkInv, ChatCallsOK
  <2>3. CASE q.with # pair
    <3>1. Opening(pair)' \subseteq Opening(pair)
      BY <2>2, <2>3 DEF Opening
    <3>2. rushed \subseteq rushed'
      BY <2>1 DEF DirectBegins
    <3> QED BY <1>2, <3>1, <3>2, OneDirectStays DEF DirectInv
  <2>4. CASE q.with = pair
    <3> SUFFICES ASSUME pair \notin rushed' PROVE OneDirect(pair)'
      BY DEF OneDirect
    <3>1. Opening(pair) = {}
      BY <2>1, <2>4 DEF DirectBegins, Opening
    <3>2. Opening(pair)' \subseteq {s}
      BY <2>2, <3>1 DEF Opening
    <3>3. Directs(pair) = {}
      BY <2>1, <2>4 DEF DirectBegins, DirectOf, Directs
    <3> QED BY <1>2, <3>2, <3>3 DEF OneDirect
  <2> QED BY <2>3, <2>4
<1> QED BY <1>3, <1>4

LEMMA RushedStays ==
  /\ \A s \in Slots : RoomStep(s) => UNCHANGED rushed
  /\ \A u : JoinEventChat(u) => UNCHANGED rushed
  /\ \A u, c : PostBroadcast(u, c) => UNCHANGED rushed
  /\ \A u, m : RemoveReaction(u, m) => UNCHANGED rushed
BY DEF RoomStep, OpenConversation, DeleteSeat, StoreMessage, TouchConversation, WriteMessage,
       Reactor, React, GetMessages, Scrolled, FindPinned, WritePin, roomVars, JoinEventChat,
       PostBroadcast, RemoveReaction

LEMMA DirectAtOpening ==
  ASSUME TalkInv, DirectInv, NEW s \in Slots, OpenConversation(s), NEW pair \in SUBSET Users
  PROVE  OneDirect(pair)'
<1> SUFFICES ASSUME IsPair(pair) PROVE OneDirect(pair)'
  BY DEF OneDirect
<1>1. chat' = [chat EXCEPT ![s] = Idle] /\ UNCHANGED rushed
  BY DEF OpenConversation, ChatGoto, Goto
<1>2. Opening(pair)' \subseteq Opening(pair) \ {s}
  BY <1>1, LabelsApart, NoneBegins
<1>3. OneDirect(pair)
  BY DEF DirectInv
<1>4. CASE s \notin Opening(pair)
  BY <1>1, <1>2, <1>3, <1>4, OpenedSeats, OneDirectStays
<1>5. CASE s \in Opening(pair)
  <2> SUFFICES ASSUME pair \notin rushed PROVE OneDirect(pair)'
    BY <1>1 DEF OneDirect
  <2>1. Directs(pair) = {} /\ Opening(pair) \subseteq {s}
    BY <1>3, <1>5 DEF OneDirect
  <2>2. Directs(pair)' \subseteq {Len(conversation) + 1} /\ Opening(pair)' = {}
    BY <1>2, <1>5, <2>1, OpenedSeats
  <2> QED BY <2>2 DEF OneDirect
<1> QED BY <1>4, <1>5

LEMMA DirectAtService ==
  ASSUME TalkInv, DirectInv, RoomNext
  PROVE  DirectInv'
<1>1. ASSUME NEW s \in Slots, OpenConversation(s) PROVE DirectInv'
  <2>1. 1 \in DOMAIN conversation' /\ conversation'[1] = conversation[1]
    <3>1. conversation \in Seq(Conversation)
      BY DEF TalkInv, RoomTables
    <3>2. PICK row : conversation' = Append(conversation, row)
      BY <1>1 DEF OpenConversation
    <3> QED BY <3>1, <3>2, AppendAny DEF DirectInv
  <2> QED BY <1>1, <2>1, DirectAtOpening DEF DirectInv
<1>2. CASE \A s \in Slots : ~OpenConversation(s)
  <2>1. /\ \A pair \in SUBSET Users : Directs(pair)' \subseteq Directs(pair)
        /\ 1 \in DOMAIN conversation' /\ conversation'[1].type = "EVENT"
    BY <1>2, ServiceSeats, MovedSeats
  <2>2. ASSUME NEW s \in Slots, RoomRequest(s), NEW pair \in SUBSET Users PROVE OneDirect(pair)'
    BY <2>2, RequestBegins, DirectAtRequest
  <2>3. ASSUME UNCHANGED rushed, \A pair : Opening(pair)' \subseteq Opening(pair),
               NEW pair \in SUBSET Users
        PROVE  OneDirect(pair)'
    BY <2>1, <2>3, OneDirectStays DEF DirectInv
  <2>4. ASSUME NEW s \in Slots, RoomStep(s), NEW pair \in SUBSET Users PROVE OneDirect(pair)'
    <3>1. PICK q : RoomGoesOn(s, q)
      BY <2>4, StepGoesOn
    <3>2. \A p : Opening(p)' \subseteq Opening(p)
      BY <3>1, NoneBegins DEF RoomGoesOn
    <3> QED BY <2>3, <2>4, <3>2, RushedStays
  <2>5. ASSUME UNCHANGED <<chat, rushed>>, NEW pair \in SUBSET Users PROVE OneDirect(pair)'
    BY <2>3, <2>5 DEF Opening
  <2>6. ASSUME (\E u \in Users : JoinEventChat(u))
               \/ (\E u \in Users, c \in DOMAIN conversation : PostBroadcast(u, c))
               \/ (\E u \in Users, m \in DOMAIN message : RemoveReaction(u, m))
        PROVE  UNCHANGED <<chat, rushed>>
    BY <2>6 DEF JoinEventChat, PostBroadcast, RemoveReaction
  <2>7. \A pair \in SUBSET Users : OneDirect(pair)'
    BY <2>2, <2>4, <2>5, <2>6 DEF RoomNext
  <2> QED BY <2>1, <2>7 DEF DirectInv
<1> QED BY <1>1, <1>2

LEMMA DirectAtGateway ==
  ASSUME TalkInv, DirectInv, GateNext
  PROVE  DirectInv'
<1>1. CASE \E s \in Slots : \E q : RoomBegins(s, q)
  <2>1. UNCHANGED conversation
    BY <1>1 DEF RoomBegins, Begins
  <2> QED BY <1>1, <2>1, DirectAtRequest DEF DirectInv
<1>2. CASE ~ \E s \in Slots : \E q : RoomBegins(s, q)
  <2>1. UNCHANGED roomVars
    <3>1. ASSUME NEW s \in Slots, GateRequest(s) PROVE UNCHANGED roomVars
      BY <1>2, <3>1, SocketSends DEF GateRequest, AuthenticateSocket, HandleJoinConversation,
                HandlePresenceUpdate, GateBegins
    <3>2. ASSUME NEW s \in Slots,
                 GateStep(s) \/ ChatDie(s) \/ \E k \in Sockets : GoOffline(s, k)
          PROVE  UNCHANGED roomVars
      BY <3>2 DEF GateStep, ReadSeats, EnterRooms, BroadcastPresence, ChatDie, GoOffline,
                  Disconnected
    <3>3. ASSUME ProcessEnds \/ \E k \in Sockets : HandleDisconnect(k)
          PROVE  UNCHANGED roomVars
      BY <3>3 DEF ProcessEnds, HandleDisconnect, Disconnected
    <3> QED BY <3>1, <3>2, <3>3 DEF GateNext
  <2>2. \A pair : Directs(pair)' = Directs(pair)
    BY <2>1 DEF roomVars, Directs, Member
  <2>3. \A pair : Opening(pair)' \subseteq Opening(pair)
    <3>1. ASSUME NEW s \in Slots, NEW q, GateGoesOn(s, q), NEW pair
          PROVE  Opening(pair)' \subseteq Opening(pair)
      <4>1. q.pc # "open" /\ chat' = [chat EXCEPT ![s] = q]
        BY <3>1, LabelsApart DEF GateGoesOn
      <4> QED BY <4>1, NoneBegins
    <3>2. ASSUME ProcessEnds, NEW pair PROVE Opening(pair)' \subseteq Opening(pair)
      <4>1. \A s \in Slots : chat'[s] = Idle
        BY <3>2 DEF ProcessEnds
      <4> QED BY <4>1, LabelsApart DEF Opening
    <3>3. ASSUME UNCHANGED chat, NEW pair PROVE Opening(pair)' \subseteq Opening(pair)
      BY <3>3 DEF Opening
    <3> QED BY <1>2, <3>1, <3>2, <3>3, GateMoves
  <2>4. \A pair \in SUBSET Users : OneDirect(pair)'
    BY <2>1, <2>2, <2>3, OneDirectStays DEF DirectInv, roomVars
  <2> QED BY <2>1, <2>4 DEF DirectInv, roomVars
<1> QED BY <1>1, <1>2

LEMMA DirectStep == TalkInv /\ DirectInv /\ [ChatNext]_chatVars => DirectInv'
<1> SUFFICES ASSUME TalkInv, DirectInv, [ChatNext]_chatVars PROVE DirectInv'
  OBVIOUS
<1>1. CASE UNCHANGED chatVars
  BY <1>1 DEF chatVars, roomVars, DirectInv, OneDirect, Directs, Opening, Member
<1>2. CASE ChatNext
  BY <1>2, DirectAtService, DirectAtGateway DEF ChatNext, ServiceStep
<1> QED BY <1>1, <1>2

LEMMA DirectsAreFew == DirectInv => OneDirectPerPair
<1> SUFFICES ASSUME DirectInv, NEW u \in Users, NEW v \in Users, u # v, {u, v} \notin rushed
             PROVE  Cardinality({c \in SeatsOf(u) \cap SeatsOf(v) :
                                   conversation[c].type = "DIRECT"}) <= 1
  BY DEF OneDirectPerPair
<1>1. PICK D : D = {c \in SeatsOf(u) \cap SeatsOf(v) : conversation[c].type = "DIRECT"}
  OBVIOUS
<1>2. OneDirect({u, v}) /\ IsPair({u, v})
  BY DEF DirectInv, IsPair
<1>3. D \subseteq Directs({u, v})
  BY <1>1 DEF Directs, SeatsOf
<1>4. \A c, d \in D : c = d
  BY <1>2, <1>3 DEF OneDirect
<1>5. D = {} \/ \E c : D = {c}
  BY <1>4
<1>6. Cardinality(D) <= 1
  <2>1. CASE D = {}
    BY <2>1, FS_EmptySet
  <2>2. ASSUME NEW c, D = {c} PROVE Cardinality(D) <= 1
    BY <2>2, FS_Singleton
  <2> QED BY <1>5, <2>1, <2>2
<1> QED BY <1>1, <1>6

\* Two users have at most one DIRECT conversation as long as no two creations for
\* them overlapped: for any number of users and creations, and whoever loses a
\* seat or leaves meanwhile.
THEOREM OneConversation == ChatSpec => []OneDirectPerPair
BY TalkInit, TalkStep, DirectInit, DirectStep, DirectsAreFew, PTL DEF ChatSpec

-----------------------------------------------------------------------------
(***************************************************************************)
(* Presence.  Of a user about whom nothing is stirred: userSockets knows   *)
(* the connections; at most one announcement is on its way, and it will    *)
(* say what is true then; if none is, what was last said in the rooms of   *)
(* the user's seats is true, but for the seats taken since.                *)
(***************************************************************************)
Announcers(u) == {s \in Slots : Announces(s) /\ chat[s].user = u}

\* What an announcing call will say.
WillSay(c) == IF c.pc = "presence" THEN c.status ELSE "ONLINE"
Truth(u) == IF Connected(u) # {} THEN "ONLINE" ELSE "OFFLINE"

Quiet(u) ==
  /\ userSockets[u] = Connected(u)
  /\ \A s, t \in Announcers(u) : s = t
  /\ \A s \in Announcers(u) : WillSay(chat[s]) = Truth(u)
  /\ Announcers(u) = {} => \A c \in SeatsOf(u) : <<c, u>> \in unheard \/ shown[c][u] = Truth(u)

PresenceInv == \A u \in Users \ stirred : Quiet(u)

LEMMA PresenceInit == ChatInit => PresenceInv
<1> SUFFICES ASSUME ChatInit, NEW u \in Users PROVE Quiet(u)
  BY DEF PresenceInv
<1>1. Connected(u) = {}
  BY DEF ChatInit, GateInit, Connected
<1>2. Announcers(u) = {}
  BY LabelsApart DEF ChatInit, RoomInit, Announcers, Announces
<1>3. \A c \in SeatsOf(u) : shown[c][u] = "OFFLINE"
  BY DEF ChatInit, GateInit, SeatsOf, Unseen
<1> QED BY <1>1, <1>2, <1>3 DEF ChatInit, GateInit, Quiet, Truth

\* The seats of the user that are not taken now show what they did.
RoomsStay(u) == \A c \in SeatsOf(u)' :
  \/ <<c, u>> \in unheard'
  \/ c \in SeatsOf(u) /\ <<c, u>> \notin unheard /\ shown'[c][u] = shown[c][u]

LEMMA SameRooms == UNCHANGED <<conversation, shown, unheard>> => \A u : RoomsStay(u)
BY DEF RoomsStay, SeatsOf, Member

\* Nothing about the user changes.
LEMMA QuietStays ==
  ASSUME NEW u, Quiet(u), Connected(u)' = Connected(u), userSockets'[u] = userSockets[u],
         RoomsStay(u), Announcers(u)' = Announcers(u),
         \A s \in Announcers(u) : WillSay(chat'[s]) = WillSay(chat[s])
  PROVE  Quiet(u)'
<1>1. Truth(u)' = Truth(u)
  BY DEF Truth
<1> QED BY <1>1 DEF Quiet, WillSay, RoomsStay

LEMMA SlotsAfter ==
  ASSUME TalkInv, NEW s \in Slots, NEW q, chat' = [chat EXCEPT ![s] = q]
  PROVE  \A t \in Slots : chat'[t] = IF t = s THEN q ELSE chat[t]
BY DEF TalkInv, ChatCallsOK

\* A call begins, goes on or ends that announces nothing before or after.
LEMMA OtherCall ==
  ASSUME TalkInv, NEW s \in Slots, NEW q, chat' = [chat EXCEPT ![s] = q],
         chat[s].pc \notin {"seats", "enter", "presence"},
         q.pc \notin {"seats", "enter", "presence"}
  PROVE  \A u : /\ Announcers(u)' = Announcers(u)
                /\ \A t \in Announcers(u) : chat'[t] = chat[t]
<1>1. \A t \in Slots : chat'[t] = IF t = s THEN q ELSE chat[t]
  BY SlotsAfter
<1> QED BY <1>1 DEF Announcers, Announces

\* A seat that is there after a step of ChatService was there, or is taken.
LEMMA ServiceRooms ==
  ASSUME TalkInv, GateTables, ServiceStep, NEW u \in Users
  PROVE  RoomsStay(u)
<1>1. /\ shown' = [c \in DOMAIN conversation' |-> IF c \in DOMAIN shown THEN shown[c] ELSE Unseen]
      /\ unheard' = unheard \cup
           {p \in (DOMAIN conversation') \X Users : Taken(p[1], p[2])}
  BY DEF ServiceStep
<1>2. ASSUME NEW c \in SeatsOf(u)', <<c, u>> \notin unheard'
      PROVE  c \in SeatsOf(u) /\ <<c, u>> \notin unheard /\ shown'[c][u] = shown[c][u]
  <2>1. c \in DOMAIN conversation' /\ conversation'[c].seats[u] # None
    BY <1>2 DEF SeatsOf, Member
  <2>2. PICK p : p = <<c, u>>
    OBVIOUS
  <2>3. p \in (DOMAIN conversation') \X Users /\ p[1] = c /\ p[2] = u
    BY <2>1, <2>2
  <2>4. ~Taken(c, u) /\ p \notin unheard
    BY <1>1, <1>2, <2>2, <2>3
  <2>5. c \in DOMAIN conversation /\ Member(c, u)
    BY <2>1, <2>4 DEF Taken
  <2>6. c \in DOMAIN shown
    BY <2>5 DEF GateTables
  <2>7. shown'[c] = shown[c]
    BY <1>1, <2>1, <2>6
  <2> QED BY <2>2, <2>4, <2>5, <2>7 DEF SeatsOf
<1> QED BY <1>2 DEF RoomsStay

LEMMA ServicePresence ==
  ASSUME TalkInv, GateTables, PresenceInv, ServiceStep
  PROVE  PresenceInv'
<1>1. UNCHANGED <<socket, userSockets, stirred>> /\ RoomNext
  BY DEF ServiceStep
<1>2. \A u : /\ Announcers(u)' = Announcers(u)
             /\ \A t \in Announcers(u) : chat'[t] = chat[t]
  <2>1. ASSUME NEW s \in Slots, NEW q, RoomBegins(s, q)
        PROVE  \A u : /\ Announcers(u)' = Announcers(u)
                      /\ \A t \in Announcers(u) : chat'[t] = chat[t]
    <3>1. chat[s] = Idle /\ chat' = [chat EXCEPT ![s] = q] /\ q \in RoomCall
      BY <2>1 DEF RoomBegins, Begins, Begin, Free
    <3>2. q.pc \notin {"seats", "enter", "presence"}
      BY <3>1, LabelsApart DEF RoomCall
    <3>3. chat[s].pc \notin {"seats", "enter", "presence"}
      BY <3>1, LabelsApart
    <3> QED BY <3>1, <3>2, <3>3, OtherCall
  <2>2. ASSUME NEW s \in Slots, NEW q, RoomGoesOn(s, q)
        PROVE  \A u : /\ Announcers(u)' = Announcers(u)
                      /\ \A t \in Announcers(u) : chat'[t] = chat[t]
    <3>1. chat[s] \in RoomCall /\ chat' = [chat EXCEPT ![s] = q] /\ (q = Idle \/ q \in RoomCall)
      BY <2>2 DEF RoomGoesOn
    <3>2. \A c \in RoomCall : c.pc \notin {"seats", "enter", "presence"}
      BY LabelsApart DEF RoomCall
    <3> QED BY <3>1, <3>2, LabelsApart, OtherCall
  <2>3. UNCHANGED chat => \A u : /\ Announcers(u)' = Announcers(u)
                                 /\ \A t \in Announcers(u) : chat'[t] = chat[t]
    BY DEF Announcers, Announces
  <2> QED BY <1>1, <2>1, <2>2, <2>3, RoomMoves
<1>3. \A u \in Users : RoomsStay(u)
  BY ServiceRooms
<1>4. ASSUME NEW u \in Users \ stirred PROVE Quiet(u)'
  BY <1>1, <1>2, <1>3, <1>4, QuietStays DEF PresenceInv, Connected, WillSay
<1> QED BY <1>1, <1>4 DEF PresenceInv

\* Joining a room, and what a socket sends or has read.
LEMMA RequestPresence ==
  ASSUME TalkInv, PresenceInv, NEW s \in Slots, NEW k \in Sockets, NEW c \in DOMAIN conversation,
         \/ HandleJoinConversation(s, k, c)
         \/ HandleMessageSend(s, k, c) \/ HandleMessageRead(s, k, c)
  PROVE  PresenceInv'
<1>1. UNCHANGED gateVars /\ UNCHANGED conversation
  BY DEF HandleJoinConversation, HandleMessageSend, HandleMessageRead, SendMessage, MarkAsRead,
         Begins, GateBegins, roomVars
<1>2. chat[s] = Idle
  BY DEF HandleJoinConversation, HandleMessageSend, HandleMessageRead, SendMessage, MarkAsRead,
         Begins, GateBegins, Begin, Free
<1>3. PICK q : chat' = [chat EXCEPT ![s] = q] /\ q.pc \in {"join", "store", "mark"}
  <2>1. CASE HandleJoinConversation(s, k, c)
    <3>1. PICK q : q = [pc |-> "join", user |-> socket[k].user, socket |-> k, rooms |-> {c}]
      OBVIOUS
    <3>2. q.pc = "join"
      BY <3>1
    <3> QED BY <2>1, <3>1, <3>2 DEF HandleJoinConversation, GateBegins, Begin
  <2>2. CASE HandleMessageSend(s, k, c)
    <3>1. PICK q : q = [pc |-> "store", user |-> socket[k].user, conversation |-> c]
      OBVIOUS
    <3>2. q.pc = "store"
      BY <3>1
    <3> QED BY <2>2, <3>1, <3>2 DEF HandleMessageSend, SendMessage, Begins, Begin
  <2>3. CASE HandleMessageRead(s, k, c)
    <3>1. PICK q : q = [pc |-> "mark", user |-> socket[k].user, conversation |-> c]
      OBVIOUS
    <3>2. q.pc = "mark"
      BY <3>1
    <3> QED BY <2>3, <3>1, <3>2 DEF HandleMessageRead, MarkAsRead, Begins, Begin
  <2> QED BY <2>1, <2>2, <2>3
<1>4. \A u : /\ Announcers(u)' = Announcers(u)
             /\ \A t \in Announcers(u) : chat'[t] = chat[t]
  <2>1. chat[s].pc = "idle"
    BY <1>2, LabelsApart
  <2> QED BY <1>3, <2>1, OtherCall
<1>5. ASSUME NEW u \in Users \ stirred PROVE Quiet(u)'
  BY <1>1, <1>4, <1>5, SameRooms, QuietStays DEF PresenceInv, Connected, WillSay, gateVars
<1> QED BY <1>1, <1>5 DEF PresenceInv, gateVars

-----------------------------------------------------------------------------
(* Connections come and go.                                                *)

LEMMA AuthenticatePresence ==
  ASSUME TalkInv, GateTables, PresenceInv, NEW s \in Slots, NEW k \in Sockets, NEW u \in Users,
         AuthenticateSocket(s, k, u)
  PROVE  PresenceInv'
<1>1. PICK q : q = [pc |-> "seats", user |-> u, socket |-> k, rooms |-> {}]
  OBVIOUS
<1>2. q.pc = "seats" /\ q.user = u /\ WillSay(q) = "ONLINE"
  BY <1>1 DEF WillSay
<1>3. chat[s] = Idle /\ chat' = [chat EXCEPT ![s] = q]
  BY <1>1 DEF AuthenticateSocket, GateBegins, Begin, Free
<1>4. \A t \in Slots : chat'[t] = IF t = s THEN q ELSE chat[t]
  BY <1>3, SlotsAfter
<1>5. /\ userSockets' = [userSockets EXCEPT ![u] = @ \cup {k}]
      /\ socket' = [socket EXCEPT ![k] = IF @ = None THEN [user |-> u, rooms |-> {}]
                                         ELSE [@ EXCEPT !.user = u]]
      /\ stirred' = Stirs(u) \cup (been[k] \ {u})
      /\ UNCHANGED <<conversation, shown, unheard>>
  BY DEF AuthenticateSocket, GateBegins, roomVars
<1>6. /\ socket'[k] # None /\ socket'[k].user = u
      /\ \A j \in Sockets \ {k} : socket'[j] = socket[j]
  <2>1. PICK row : row = IF socket[k] = None THEN [user |-> u, rooms |-> {}]
                         ELSE [socket[k] EXCEPT !.user = u]
    OBVIOUS
  <2>2. row \in Connection /\ row.user = u
    <3>1. CASE socket[k] = None
      BY <2>1, <3>1 DEF Connection
    <3>2. CASE socket[k] # None
      <4>1. socket[k] \in Connection
        BY <3>2, ConnectedUser DEF TalkInv
      <4> QED BY <2>1, <3>2, <4>1 DEF Connection
    <3> QED BY <3>1, <3>2
  <2>3. row # None
    BY <2>2, GateAssumption
  <2>4. socket' = [socket EXCEPT ![k] = row]
    BY <1>5, <2>1 DEF TalkInv, ChatInv, ChatType
  <2>5. \A j \in Sockets : socket'[j] = IF j = k THEN row ELSE socket[j]
    BY <2>4 DEF TalkInv, ChatInv, ChatType
  <2> QED BY <2>2, <2>3, <2>5
<1>7. Connected(u)' = Connected(u) \cup {k}
  BY <1>6 DEF Connected
<1>8. ASSUME NEW v \in Users \ stirred', v # u PROVE Quiet(v)'
  <2>1. v \notin been[k] /\ v \notin stirred
    BY <1>5, <1>8 DEF Stirs
  <2>2. ~(socket[k] # None /\ socket[k].user = v)
    BY <2>1 DEF TalkInv, ChatInv, ConnectionOK
  <2>3. Connected(v)' = Connected(v)
    BY <1>6, <1>8, <2>2 DEF Connected
  <2>4. /\ Announcers(v)' = Announcers(v)
        /\ \A t \in Announcers(v) : chat'[t] = chat[t]
    BY <1>2, <1>3, <1>4, <1>8, LabelsApart DEF Announcers, Announces
  <2>5. userSockets'[v] = userSockets[v] /\ RoomsStay(v)
    BY <1>5, <1>8, SameRooms DEF GateTables
  <2>6. Quiet(v)
    BY <1>8, <2>1 DEF PresenceInv
  <2>7. \A t \in Announcers(v) : WillSay(chat'[t]) = WillSay(chat[t])
    BY <2>4
  <2> QED BY <2>3, <2>4, <2>5, <2>6, <2>7, QuietStays
<1>9. ASSUME u \notin stirred' PROVE Quiet(u)'
  <2>1. Announcers(u) = {} /\ (u \notin stirred \/ Known(u))
    BY <1>5, <1>9 DEF Announcing, Announcers, Stirs
  <2>3. Announcers(u)' = {s}
    BY <1>2, <1>4, <2>1 DEF Announcers, Announces
  <2>4. userSockets'[u] = Connected(u)'
    <3>1. CASE u \notin stirred
      BY <1>5, <1>7, <3>1 DEF GateTables, PresenceInv, Quiet
    <3>2. CASE Known(u)
      BY <3>2 DEF Known, Connected
    <3> QED BY <2>1, <3>1, <3>2
  <2>5. Truth(u)' = "ONLINE"
    BY <1>7 DEF Truth
  <2>6. WillSay(chat'[s]) = "ONLINE"
    BY <1>2, <1>4
  <2> QED BY <2>3, <2>4, <2>5, <2>6 DEF Quiet, WillSay
<1> QED BY <1>8, <1>9 DEF PresenceInv

\* What goes is known of the user it had last.
LEMMA GoneAway ==
  ASSUME TalkInv, GateTables, NEW k \in Sockets, socket[k] # None, Disconnected(k)
  PROVE  /\ UNCHANGED <<conversation, shown, unheard>>
         /\ \A v \in Users :
              IF v = socket[k].user
              THEN userSockets'[v] = userSockets[v] \ {k} /\ Connected(v)' = Connected(v) \ {k}
              ELSE userSockets'[v] = userSockets[v] /\ Connected(v)' = Connected(v)
<1>1. /\ socket' = [socket EXCEPT ![k] = None]
      /\ userSockets' = [userSockets EXCEPT ![socket[k].user] = @ \ {k}]
      /\ UNCHANGED <<conversation, shown, unheard>>
  BY DEF Disconnected, roomVars
<1>2. \A j \in Sockets : socket'[j] = IF j = k THEN None ELSE socket[j]
  BY <1>1 DEF TalkInv, ChatInv, ChatType
<1>3. ASSUME NEW v \in Users
      PROVE  Connected(v)' = IF v = socket[k].user THEN Connected(v) \ {k} ELSE Connected(v)
  BY <1>2 DEF Connected
<1>4. \A v \in Users : userSockets'[v] = IF v = socket[k].user THEN userSockets[v] \ {k}
                                         ELSE userSockets[v]
  BY <1>1 DEF GateTables
<1> QED BY <1>1, <1>3, <1>4

LEMMA DisconnectPresence ==
  ASSUME TalkInv, GateTables, PresenceInv, NEW k \in Sockets, HandleDisconnect(k)
  PROVE  PresenceInv'
<1>1. /\ socket[k] # None /\ ~Leaving(socket[k].user, k) /\ Disconnected(k)
      /\ UNCHANGED <<stirred, chat>>
  BY DEF HandleDisconnect
<1>2. ASSUME NEW v \in Users \ stirred PROVE Quiet(v)'
  <2>1. Quiet(v)
    BY <1>2 DEF PresenceInv
  <2>2. Announcers(v)' = Announcers(v)
    BY <1>1 DEF Announcers, Announces
  <2>3. CASE v # socket[k].user
    <3>1. RoomsStay(v)
      BY <1>1, GoneAway, SameRooms
    <3> QED BY <1>1, <2>1, <2>2, <2>3, <3>1, GoneAway, QuietStays
  <2>4. CASE v = socket[k].user
    <3>1. userSockets[v] = Connected(v) /\ k \in Connected(v)
      BY <1>1, <2>1, <2>4 DEF Quiet, Connected
    <3>2. Connected(v) \ {k} # {}
      BY <1>1, <2>4, <3>1 DEF Leaving
    <3>3. /\ userSockets'[v] = Connected(v)' /\ Connected(v)' = Connected(v) \ {k}
          /\ RoomsStay(v)
      BY <1>1, <2>4, <3>1, GoneAway, SameRooms
    <3>4. Truth(v) = "ONLINE" /\ Truth(v)' = "ONLINE"
      BY <3>1, <3>2, <3>3 DEF Truth
    <3> QED BY <1>1, <2>1, <2>2, <3>3, <3>4 DEF Quiet, WillSay, RoomsStay
  <2> QED BY <2>3, <2>4
<1> QED BY <1>1, <1>2 DEF PresenceInv

LEMMA OfflinePresence ==
  ASSUME TalkInv, GateTables, PresenceInv, NEW s \in Slots, NEW k \in Sockets, GoOffline(s, k)
  PROVE  PresenceInv'
<1>1. /\ socket[k] # None /\ Leaving(socket[k].user, k) /\ Disconnected(k) /\ chat[s] = Idle
      /\ chat' = [chat EXCEPT ![s] = [pc |-> "presence", user |-> socket[k].user,
                                      status |-> "OFFLINE"]]
      /\ stirred' = Stirs(socket[k].user)
  BY DEF GoOffline, ChatGoto, Goto
<1>2. PICK u \in Users : u = socket[k].user
  BY <1>1, ConnectedUser DEF TalkInv
<1>3. PICK q : q = [pc |-> "presence", user |-> u, status |-> "OFFLINE"]
  OBVIOUS
<1>4. q.pc = "presence" /\ q.user = u /\ WillSay(q) = "OFFLINE"
  BY <1>3 DEF WillSay
<1>5. \A t \in Slots : chat'[t] = IF t = s THEN q ELSE chat[t]
  <2>1. chat' = [chat EXCEPT ![s] = q]
    BY <1>1, <1>2, <1>3
  <2> QED BY <2>1, SlotsAfter
<1>6. ASSUME NEW v \in Users \ stirred', v # u PROVE Quiet(v)'
  <2>1. Quiet(v)
    BY <1>1, <1>2, <1>6 DEF PresenceInv, Stirs
  <2>2. /\ Announcers(v)' = Announcers(v)
        /\ \A t \in Announcers(v) : chat'[t] = chat[t]
    BY <1>1, <1>4, <1>5, <1>6, LabelsApart DEF Announcers, Announces
  <2>3. \A t \in Announcers(v) : WillSay(chat'[t]) = WillSay(chat[t])
    BY <2>2
  <2>4. Connected(v)' = Connected(v) /\ userSockets'[v] = userSockets[v] /\ RoomsStay(v)
    BY <1>1, <1>2, <1>6, GoneAway, SameRooms
  <2> QED BY <2>1, <2>2, <2>3, <2>4, QuietStays
<1>7. ASSUME u \notin stirred' PROVE Quiet(u)'
  <2>1. Announcers(u) = {} /\ (u \notin stirred \/ Known(u))
    BY <1>1, <1>2, <1>7 DEF Announcing, Announcers, Stirs
  <2>3. userSockets'[u] = userSockets[u] \ {k} /\ Connected(u)' = Connected(u) \ {k}
    BY <1>1, <1>2, GoneAway
  <2>4. Connected(u)' = {} /\ userSockets'[u] = {}
    <3>1. userSockets'[u] = {}
      BY <1>1, <1>2, <2>3 DEF Leaving
    <3>2. CASE u \notin stirred
      BY <2>3, <3>1, <3>2 DEF PresenceInv, Quiet
    <3>3. CASE Known(u)
      BY <3>1, <3>3 DEF Known, Connected
    <3> QED BY <2>1, <3>1, <3>2, <3>3
  <2>5. Announcers(u)' = {s}
    BY <1>4, <1>5, <2>1 DEF Announcers, Announces
  <2>6. Truth(u)' = "OFFLINE"
    BY <2>4 DEF Truth
  <2>7. WillSay(chat'[s]) = "OFFLINE"
    BY <1>4, <1>5
  <2> QED BY <2>4, <2>5, <2>6, <2>7 DEF Quiet, WillSay
<1> QED BY <1>6, <1>7 DEF PresenceInv

-----------------------------------------------------------------------------
(* Announcements.                                                          *)

\* An announcing call goes on and will say the same.
LEMMA SameAnnouncer ==
  ASSUME TalkInv, NEW s \in Slots, NEW q, chat' = [chat EXCEPT ![s] = q],
         chat[s].pc \in {"seats", "enter", "presence"}, q.pc \in {"seats", "enter", "presence"},
         q.user = chat[s].user, WillSay(q) = WillSay(chat[s])
  PROVE  \A u : /\ Announcers(u)' = Announcers(u)
                /\ \A t \in Announcers(u) : WillSay(chat'[t]) = WillSay(chat[t])
<1>1. \A t \in Slots : chat'[t] = IF t = s THEN q ELSE chat[t]
  BY SlotsAfter
<1>2. \A u : Announcers(u)' = Announcers(u)
  BY <1>1 DEF Announcers, Announces
<1>3. \A t \in Slots : WillSay(chat'[t]) = WillSay(chat[t])
  BY <1>1
<1> QED BY <1>2, <1>3 DEF Announcers, Announces

LEMMA ReadSeatsPresence ==
  ASSUME TalkInv, PresenceInv, NEW s \in Slots, ReadSeats(s)
  PROVE  PresenceInv'
<1>1. PICK c \in RoomsCall : c = chat[s] /\ c.pc = "seats"
  BY ChatKinds DEF ReadSeats, TalkInv, ChatCallsOK
<1>2. PICK q : q = [chat[s] EXCEPT !.pc = "enter", !.rooms = SeatsOf(chat[s].user)]
  OBVIOUS
<1>3. q.pc = "enter" /\ q.user = c.user
  BY <1>1, <1>2 DEF RoomsCall
<1>4. chat' = [chat EXCEPT ![s] = q] /\ UNCHANGED gateVars /\ UNCHANGED conversation
  BY <1>2 DEF ReadSeats, ChatGoto, Goto, roomVars
<1>5. WillSay(q) = WillSay(c)
  BY <1>1, <1>3 DEF WillSay
<1>6. \A u : /\ Announcers(u)' = Announcers(u)
             /\ \A t \in Announcers(u) : WillSay(chat'[t]) = WillSay(chat[t])
  BY <1>1, <1>3, <1>4, <1>5, SameAnnouncer
<1>7. ASSUME NEW u \in Users \ stirred PROVE Quiet(u)'
  BY <1>4, <1>6, <1>7, SameRooms, QuietStays DEF PresenceInv, Connected, gateVars
<1> QED BY <1>4, <1>7 DEF PresenceInv, gateVars

LEMMA EnterPresence ==
  ASSUME TalkInv, PresenceInv, NEW s \in Slots, EnterRooms(s)
  PROVE  PresenceInv'
<1>1. PICK c \in ChatCall : c = chat[s] /\ c.pc \in {"enter", "join"} /\ c.user \in Users
                            /\ c \in RoomsCall \cup JoinCall
  <2>1. chat[s] \in ChatCall /\ chat[s].pc \in {"enter", "join"}
    BY DEF EnterRooms, TalkInv, ChatCallsOK
  <2> QED BY <2>1, ChatKinds, LabelsApart
<1>2. \A u \in Users : Connected(u)' = Connected(u)
  <2>1. socket' = IF socket[c.socket] = None THEN socket
                  ELSE [socket EXCEPT ![c.socket].rooms = @ \cup c.rooms]
    BY <1>1 DEF EnterRooms
  <2>2. PICK k \in Sockets : k = c.socket
    BY <1>1 DEF RoomsCall, JoinCall
  <2>3. CASE socket[k] = None
    BY <2>1, <2>2, <2>3 DEF Connected
  <2>4. CASE socket[k] # None
    <3>1. socket[k] \in Connection
      BY <2>4, ConnectedUser DEF TalkInv
    <3>2. c.rooms \subseteq Nat
      BY <1>1 DEF RoomsCall, JoinCall
    <3>3. PICK row : row = [socket[k] EXCEPT !.rooms = @ \cup c.rooms]
      OBVIOUS
    <3>4. row \in Connection /\ row.user = socket[k].user
      BY <3>1, <3>2, <3>3 DEF Connection
    <3>5. socket' = [socket EXCEPT ![k] = row]
      BY <2>1, <2>2, <2>4, <3>1, <3>3 DEF TalkInv, ChatInv, ChatType, Connection
    <3>6. \A j \in Sockets : socket'[j] = IF j = k THEN row ELSE socket[j]
      BY <3>5 DEF TalkInv, ChatInv, ChatType
    <3>7. row # None
      BY <3>4, GateAssumption
    <3> QED BY <2>4, <3>4, <3>6, <3>7 DEF Connected
  <2> QED BY <2>3, <2>4
<1>3. UNCHANGED <<userSockets, conversation, shown, unheard, stirred>>
  BY DEF EnterRooms, roomVars
<1>4. PICK q : q = IF c.pc = "join" THEN Idle
                   ELSE [pc |-> "presence", user |-> c.user, status |-> "ONLINE"]
  OBVIOUS
<1>5. chat' = [chat EXCEPT ![s] = q]
  BY <1>1, <1>4 DEF EnterRooms, ChatGoto, Goto
<1>6. \A u : /\ Announcers(u)' = Announcers(u)
             /\ \A t \in Announcers(u) : WillSay(chat'[t]) = WillSay(chat[t])
  <2>1. CASE c.pc = "join"
    <3>1. q.pc = "idle" /\ chat[s].pc = "join"
      BY <1>1, <1>4, <2>1, LabelsApart
    <3>2. \A u : /\ Announcers(u)' = Announcers(u)
                 /\ \A t \in Announcers(u) : chat'[t] = chat[t]
      BY <1>5, <3>1, OtherCall
    <3> QED BY <3>2
  <2>2. CASE c.pc = "enter"
    <3>1. q.pc = "presence" /\ q.user = c.user /\ WillSay(q) = "ONLINE"
      BY <1>4, <2>2 DEF WillSay
    <3>2. WillSay(c) = "ONLINE"
      BY <2>2 DEF WillSay
    <3> QED BY <1>1, <1>5, <2>2, <3>1, <3>2, SameAnnouncer
  <2> QED BY <1>1, <2>1, <2>2
<1>7. ASSUME NEW u \in Users \ stirred PROVE Quiet(u)'
  BY <1>2, <1>3, <1>6, <1>7, SameRooms, QuietStays DEF PresenceInv
<1> QED BY <1>3, <1>7 DEF PresenceInv

LEMMA AskPresence ==
  ASSUME TalkInv, PresenceInv, NEW s \in Slots, NEW k \in Sockets, HandlePresenceUpdate(s, k)
  PROVE  PresenceInv'
<1>1. PICK u : u = socket[k].user
  OBVIOUS
<1>2. PICK q : q = [pc |-> "presence", user |-> u, status |-> "AWAY"]
  OBVIOUS
<1>3. q.pc = "presence" /\ q.user = u
  BY <1>2
<1>4. /\ chat[s] = Idle /\ chat' = [chat EXCEPT ![s] = q]
      /\ stirred' = stirred \cup {u}
      /\ UNCHANGED <<socket, userSockets, conversation, shown, unheard>>
  BY <1>1, <1>2 DEF HandlePresenceUpdate, GateBegins, Begin, Free, roomVars
<1>5. \A t \in Slots : chat'[t] = IF t = s THEN q ELSE chat[t]
  BY <1>4, SlotsAfter
<1>6. ASSUME NEW v \in Users \ stirred' PROVE Quiet(v)'
  <2>1. v # u /\ Quiet(v)
    BY <1>4, <1>6 DEF PresenceInv
  <2>2. /\ Announcers(v)' = Announcers(v)
        /\ \A t \in Announcers(v) : chat'[t] = chat[t]
    BY <1>3, <1>4, <1>5, <2>1, LabelsApart DEF Announcers, Announces
  <2>3. \A t \in Announcers(v) : WillSay(chat'[t]) = WillSay(chat[t])
    BY <2>2
  <2> QED BY <1>4, <2>1, <2>2, <2>3, SameRooms, QuietStays DEF Connected
<1> QED BY <1>6 DEF PresenceInv

\* The announcement: the only one, and true.
LEMMA BroadcastTruth ==
  ASSUME TalkInv, GateTables, PresenceInv, NEW s \in Slots, BroadcastPresence(s)
  PROVE  PresenceInv'
<1>1. PICK c \in PresenceCall : c = chat[s] /\ c.pc = "presence"
  BY ChatKinds DEF BroadcastPresence, TalkInv, ChatCallsOK
<1>2. /\ shown' = [r \in DOMAIN shown |-> IF r \in SeatsOf(c.user)
                    THEN [shown[r] EXCEPT ![c.user] = c.status] ELSE shown[r]]
      /\ unheard' = {p \in unheard : p[2] # c.user}
      /\ chat' = [chat EXCEPT ![s] = Idle]
      /\ UNCHANGED <<socket, userSockets, conversation, stirred>>
  BY <1>1 DEF BroadcastPresence, ChatGoto, Goto, roomVars
<1>3. \A t \in Slots : chat'[t] = IF t = s THEN Idle ELSE chat[t]
  BY <1>2, SlotsAfter
<1>4. \A u : Connected(u)' = Connected(u)
  BY <1>2 DEF Connected
<1>5. ASSUME NEW u \in Users \ stirred, u # c.user PROVE Quiet(u)'
  <2>1. /\ Announcers(u)' = Announcers(u)
        /\ \A t \in Announcers(u) : chat'[t] = chat[t]
    BY <1>1, <1>3, <1>5, LabelsApart DEF Announcers, Announces
  <2>2. \A t \in Announcers(u) : WillSay(chat'[t]) = WillSay(chat[t])
    BY <2>1
  <2>3. RoomsStay(u)
    <3>1. ASSUME NEW r \in SeatsOf(u) PROVE shown'[r][u] = shown[r][u]
      <4>1. shown[r] \in Presence /\ r \in DOMAIN shown
        BY DEF GateTables, SeatsOf
      <4>2. [shown[r] EXCEPT ![c.user] = c.status][u] = shown[r][u]
        BY <1>5, <4>1 DEF Presence
      <4> QED BY <1>2, <4>1, <4>2
    <3>2. ASSUME NEW r, <<r, u>> \in unheard PROVE <<r, u>> \in unheard'
      BY <1>2, <1>5, <3>2
    <3>3. SeatsOf(u)' = SeatsOf(u)
      BY <1>2 DEF SeatsOf, Member
    <3> QED BY <3>1, <3>2, <3>3 DEF RoomsStay
  <2> QED BY <1>2, <1>4, <1>5, <2>1, <2>2, <2>3, QuietStays DEF PresenceInv
<1>6. ASSUME c.user \notin stirred PROVE Quiet(c.user)'
  <2>1. PICK u \in Users \ stirred : u = c.user
    BY <1>1, <1>6 DEF PresenceCall
  <2>2. Quiet(u) /\ s \in Announcers(u)
    BY <1>1, <2>1 DEF PresenceInv, Announcers, Announces
  <2>3. c.status = Truth(u) /\ Announcers(u) = {s}
    BY <1>1, <2>2 DEF Quiet, WillSay
  <2>4. Announcers(u)' = {}
    BY <1>3, <2>3, LabelsApart DEF Announcers, Announces
  <2>5. ASSUME NEW r \in SeatsOf(u)' PROVE shown'[r][u] = Truth(u)
    <3>1. r \in SeatsOf(u)
      BY <1>2 DEF SeatsOf, Member
    <3>2. shown[r] \in Presence /\ r \in DOMAIN shown
      BY <3>1 DEF GateTables, SeatsOf
    <3>3. shown'[r] = [shown[r] EXCEPT ![u] = c.status]
      BY <1>2, <2>1, <3>1, <3>2
    <3> QED BY <2>3, <3>2, <3>3 DEF Presence
  <2>6. Truth(u)' = Truth(u)
    BY <1>4 DEF Truth
  <2>7. Quiet(u)'
    BY <1>2, <1>4, <2>2, <2>4, <2>5, <2>6 DEF Quiet
  <2> QED BY <2>1, <2>7
<1> QED BY <1>2, <1>5, <1>6 DEF PresenceInv

LEMMA DiePresence ==
  ASSUME TalkInv, PresenceInv, NEW s \in Slots, ChatDie(s)
  PROVE  PresenceInv'
<1>1. /\ chat' = [chat EXCEPT ![s] = Idle]
      /\ stirred' = IF Announces(s) THEN stirred \cup {chat[s].user} ELSE stirred
      /\ UNCHANGED <<socket, userSockets, conversation, shown, unheard>>
  BY DEF ChatDie, Die, Goto, roomVars
<1>2. \A t \in Slots : chat'[t] = IF t = s THEN Idle ELSE chat[t]
  BY <1>1, SlotsAfter
<1>3. ASSUME NEW u \in Users \ stirred' PROVE Quiet(u)'
  <2>1. Quiet(u) /\ ~(Announces(s) /\ chat[s].user = u)
    BY <1>1, <1>3 DEF PresenceInv
  <2>2. /\ Announcers(u)' = Announcers(u)
        /\ \A t \in Announcers(u) : chat'[t] = chat[t]
    BY <1>2, <2>1, LabelsApart DEF Announcers, Announces
  <2>3. \A t \in Announcers(u) : WillSay(chat'[t]) = WillSay(chat[t])
    BY <2>2
  <2> QED BY <1>1, <2>1, <2>2, <2>3, SameRooms, QuietStays DEF Connected
<1> QED BY <1>3 DEF PresenceInv

LEMMA PresenceStep == TalkInv /\ GateTables /\ PresenceInv /\ [ChatNext]_chatVars => PresenceInv'
<1> SUFFICES ASSUME TalkInv, GateTables, PresenceInv, [ChatNext]_chatVars PROVE PresenceInv'
  OBVIOUS
<1>1. CASE UNCHANGED chatVars
  <2>1. UNCHANGED <<socket, userSockets, conversation, shown, unheard, stirred, chat>>
    BY <1>1 DEF chatVars, gateVars, roomVars
  <2>2. \A u : Connected(u)' = Connected(u) /\ Announcers(u)' = Announcers(u)
    BY <2>1 DEF Connected, Announcers, Announces
  <2>3. ASSUME NEW u \in Users \ stirred PROVE Quiet(u)'
    BY <2>1, <2>2, <2>3, SameRooms, QuietStays DEF PresenceInv, WillSay
  <2> QED BY <2>1, <2>3 DEF PresenceInv
<1>2. CASE ProcessEnds
  BY <1>2 DEF ProcessEnds, PresenceInv
<1> QED BY <1>1, <1>2, ServicePresence, RequestPresence, AuthenticatePresence, DisconnectPresence,
           OfflinePresence, ReadSeatsPresence, EnterPresence, AskPresence, BroadcastTruth,
           DiePresence
        DEF ChatNext, GateNext, GateRequest, GateStep

LEMMA PresenceIsTrue == PresenceInv => PresenceSettles
<1> SUFFICES ASSUME PresenceInv, NEW u \in Users \ stirred, ~Announcing(u), NEW c \in SeatsOf(u)
             PROVE  <<c, u>> \in unheard \/
                      shown[c][u] = IF Connected(u) # {} THEN "ONLINE" ELSE "OFFLINE"
  BY DEF PresenceSettles
<1>1. Announcers(u) = {}
  BY DEF Announcing, Announcers
<1> QED BY <1>1 DEF PresenceInv, Quiet, Truth

\* When nothing about a user is on its way, the presence last announced in the rooms
\* of the user's seats is true, for any number of users, sockets and conversations,
\* while seats are lost and taken: but for the seats taken since, and what was stirred
\* by overlapping announcements or a socket that changed hands, until one announcement
\* runs undisturbed.
THEOREM PresenceIsRight == ChatSpec => []PresenceSettles
<1>1. GateTables /\ TalkInv /\ [ChatNext]_chatVars => GateTables'
  BY GateTablesStep
<1> QED BY <1>1, TalkInit, TalkStep, GateTablesInit, PresenceInit, PresenceStep, PresenceIsTrue, PTL
        DEF ChatSpec
=============================================================================
