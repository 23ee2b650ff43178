----------------------------- MODULE ChatRooms -----------------------------
(***************************************************************************)
(* ChatService: conversations, seats, messages, reactions and pins.        *)
(* Conversation 1 is the chat of an event; what its registrations have to  *)
(* do with its seats is in EventDesk.  Conversations and messages are      *)
(* named by their place in their tables.                                   *)
(*                                                                         *)
(* EventEmitter2 calls the listeners of ChatGateway within `emit`; they    *)
(* send to the sockets of a room and change nothing.                       *)
(***************************************************************************)
EXTENDS Calls, Sequences, FiniteSets, FiniteSetsExt

CONSTANTS
  Moderators,  \* users with the global permission
  PageSize,    \* limit of getMessages
  Organizer,   \* ADMIN of the event's chat at the start
  Past,        \* the createdAt of the messages that it starts with
  MaxChat      \* bound: calls

ASSUME ChatAssumption ==
  /\ Moderators \subseteq Users
  /\ PageSize \in Nat \ {0}
  /\ Organizer \in Users
  /\ Past \in Seq(Nat)
  /\ None \notin {"sent", "edited", "removed"}
  /\ MaxChat \in Nat

VARIABLES
  conversation, \* Conversation with its ConversationMember rows
  message,      \* Message
  reaction,     \* MessageReaction, of one emoji: <<message, user>>
  pinned,       \* AppSetting conv_pin: the message pinned in a conversation
  chat,         \* the calls in flight, those of ChatGateway included
  chatLeft,     \* calls that may still begin
  (* History: *)
  rushed,       \* pairs of users for whom two DIRECT creations overlapped
  late          \* messages that were deleted while an edit was on its way

roomVars == <<conversation, message, reaction, pinned, rushed, late>>

-----------------------------------------------------------------------------
Conversation == [type : {"DIRECT", "GROUP", "EVENT"},
                 seats : [Users -> {"ADMIN", "MEMBER", None}]]
Message == [conversation : Nat, sender : Users, at : Nat, isDeleted : BOOLEAN,
            content : {"sent", "edited", "removed", None}]

OpenCall   == [pc : {"open"}, user : Users, type : {"DIRECT", "GROUP"}, with : SUBSET Users]
SendCall   == [pc : {"store", "touch", "mark"}, user : Users, conversation : Nat]
ChangeCall == [pc : {"edit", "delete", "moderate", "reactor", "react"}, user : Users, message : Nat]
PinCall    == [pc : {"find", "pin", "unpin"}, user : Users, conversation : Nat, message : Nat]
KickCall   == [pc : {"kick"}, user : Users, conversation : Nat, target : Users]
\* A client that scrolls back: the last message it has got, those it has seen,
\* and (history) those there were when it began.
ScrollCall == [pc : {"page", "scrolled"}, user : Users, conversation : Nat, before : Nat,
               seen : SUBSET Nat, start : SUBSET Nat]
RoomCall == OpenCall \cup SendCall \cup ChangeCall \cup PinCall \cup KickCall \cup ScrollCall

RoomTypeOK ==
  /\ conversation \in Seq(Conversation)
  /\ message \in Seq(Message)
  /\ \A m \in DOMAIN message : message[m].conversation \in DOMAIN conversation
  /\ reaction \subseteq (DOMAIN message) \X Users
  /\ pinned \in [1 .. MaxChat + 1 -> {0} \cup DOMAIN message]
  /\ \A c \in DOMAIN pinned : pinned[c] # 0 => message[pinned[c]].conversation = c
  /\ rushed \subseteq SUBSET Users
  /\ late \subseteq DOMAIN message

\* The chat of an event, with its organizer and some messages.
RoomInit ==
  /\ conversation = << [type |-> "EVENT",
       seats |-> [u \in Users |-> IF u = Organizer THEN "ADMIN" ELSE "MEMBER"]] >>
  /\ message = [m \in DOMAIN Past |-> [conversation |-> 1, sender |-> Organizer, at |-> Past[m],
                                       isDeleted |-> FALSE, content |-> "sent"]]
  /\ reaction = {}
  /\ pinned = [c \in 1 .. MaxChat + 1 |-> 0]
  /\ rushed = {}
  /\ late = {}
  /\ chat = [s \in Slots |-> Idle]
  /\ chatLeft = MaxChat

ChatGoto(s, call) == Goto(chat, chatLeft, s, call)

Member(c, u) == conversation[c].seats[u] # None   \* assertMember
SeatsOf(u) == {c \in DOMAIN conversation : Member(c, u)}
Members(c) == {u \in Users : Member(c, u)}
MayModerate(c, u) == u \in Moderators \/ conversation[c].seats[u] = "ADMIN"

Begins(s, call) == Begin(chat, chatLeft, s, call) /\ UNCHANGED <<conversation, message, reaction, pinned, late>>

-----------------------------------------------------------------------------
(* Conversations and seats.                                                *)

\* Mutant: only conversations that the creator has opened are looked for.
OwnDirectOf(creator, other) ==
  {c \in DOMAIN conversation : /\ conversation[c].type = "DIRECT"
                               /\ conversation[c].seats[creator] = "ADMIN"
                               /\ Member(c, other)}

\* The DIRECT conversations that a creation finds.
DirectOf(creator, other) ==
  {c \in DOMAIN conversation : /\ conversation[c].type = "DIRECT"
                               /\ Member(c, creator)
                               /\ Member(c, other)}

\* createConversation: one that is found is returned.
CreateConversation(s, u, type, with) ==
  /\ type = "DIRECT" => \E v \in Users \ {u} : with = {u, v} /\ DirectOf(u, v) = {}
  /\ u \in with
  /\ Begins(s, [pc |-> "open", user |-> u, type |-> type, with |-> with])
  /\ rushed' = IF type = "DIRECT" /\ \E t \in Slots : chat[t].pc = "open" /\ chat[t].type = "DIRECT"
                                                      /\ chat[t].with = with
               THEN rushed \cup {with} ELSE rushed

OpenConversation(s) == LET c == chat[s] IN
  /\ c.pc = "open"
  /\ conversation' = Append(conversation, [type |-> c.type,
       seats |-> [u \in Users |-> IF u = c.user THEN "ADMIN" ELSE IF u \in c.with THEN "MEMBER"
                                  ELSE None]])
  /\ ChatGoto(s, Idle)
  /\ UNCHANGED <<message, reaction, pinned, rushed, late>>

\* A registration takes a seat, by an upsert that leaves a role as it is.
JoinEventChat(u) ==
  /\ chatLeft > 0 /\ chatLeft' = chatLeft - 1
  /\ ~Member(1, u)
  /\ conversation' = [conversation EXCEPT ![1].seats[u] = "MEMBER"]
  /\ UNCHANGED <<message, reaction, pinned, chat, rushed, late>>

\* kickMember, of the caller too, and in every type of conversation; what
\* follows the removal is in EventChat.
KickMember(s, u, c, target) ==
  /\ MayModerate(c, u)
  /\ Begins(s, [pc |-> "kick", user |-> u, conversation |-> c, target |-> target])
  /\ UNCHANGED rushed

DeleteSeat(s) == LET c == chat[s] IN
  /\ c.pc = "kick"
  /\ conversation' = [conversation EXCEPT ![c.conversation].seats[c.target] = None]
  /\ ChatGoto(s, Idle)
  /\ UNCHANGED <<message, reaction, pinned, rushed, late>>

-----------------------------------------------------------------------------
(* Messages.                                                               *)

\* A message is as old as the last one by the clock, or newer.
Latest == Max({0} \cup {message[m].at : m \in DOMAIN message})
Posted(c, u) == \E at \in {Latest, Latest + 1} :
  message' = Append(message, [conversation |-> c, sender |-> u, at |-> at, isDeleted |-> FALSE,
                              content |-> "sent"])

\* sendMessage: the insert, then updatedAt of the conversation, then the emit.
SendMessage(s, u, c) ==
  /\ Member(c, u)
  /\ Begins(s, [pc |-> "store", user |-> u, conversation |-> c])
  /\ UNCHANGED rushed

StoreMessage(s) == LET c == chat[s] IN
  /\ c.pc = "store"
  /\ Posted(c.conversation, c.user)
  /\ ChatGoto(s, [c EXCEPT !.pc = "touch"])
  /\ UNCHANGED <<conversation, reaction, pinned, rushed, late>>

\* Times that only clients look at: updatedAt, and lastReadAt.
TouchConversation(s) ==
  /\ chat[s].pc \in {"touch", "mark"}
  /\ ChatGoto(s, Idle)
  /\ UNCHANGED roomVars

\* markAsRead, from a request or from a socket: the seat, then its lastReadAt.
MarkAsRead(s, u, c) ==
  /\ Member(c, u)
  /\ Begins(s, [pc |-> "mark", user |-> u, conversation |-> c])
  /\ UNCHANGED rushed

\* NotificationsService.broadcast posts without a seat.
PostBroadcast(u, c) ==
  /\ chatLeft > 0 /\ chatLeft' = chatLeft - 1
  /\ conversation[c].type = "EVENT"
  /\ Posted(c, u)
  /\ UNCHANGED <<conversation, reaction, pinned, chat, rushed, late>>

\* Mutant: assertMessageOwner does not look at isDeleted.
EditAny(s, u, m) ==
  /\ message[m].sender = u
  /\ Begins(s, [pc |-> "edit", user |-> u, message |-> m])
  /\ UNCHANGED rushed

OwnMessage(m, u) == message[m].sender = u /\ ~message[m].isDeleted   \* assertMessageOwner

\* updateMessage and deleteMessage, of one's own.
UpdateMessage(s, u, m) ==
  /\ OwnMessage(m, u)
  /\ Begins(s, [pc |-> "edit", user |-> u, message |-> m])
  /\ UNCHANGED rushed

DeleteMessage(s, u, m) ==
  /\ OwnMessage(m, u)
  /\ Begins(s, [pc |-> "delete", user |-> u, message |-> m])
  /\ UNCHANGED rushed

\* moderateDeleteMessage: the conversation is one that the caller names.
ModerateDelete(s, u, m) ==
  /\ \E c \in DOMAIN conversation : MayModerate(c, u)
  /\ Begins(s, [pc |-> "moderate", user |-> u, message |-> m])
  /\ UNCHANGED rushed

WriteMessage(s) == LET c == chat[s] m == c.message IN
  /\ c.pc \in {"edit", "delete", "moderate"}
  /\ message' = [message EXCEPT
       ![m].content = CASE c.pc = "edit" -> "edited" [] c.pc = "delete" -> None
                        [] c.pc = "moderate" -> "removed",
       ![m].isDeleted = @ \/ c.pc # "edit"]
  /\ late' = IF c.pc # "edit" /\ \E t \in Slots : chat[t].pc = "edit" /\ chat[t].message = m
             THEN late \cup {m} ELSE late
  /\ ChatGoto(s, Idle)
  /\ UNCHANGED <<conversation, reaction, pinned, rushed>>

\* addReaction: the message, then the seat, then an insert that is unique.
AddReaction(s, u, m) ==
  /\ ~message[m].isDeleted
  /\ Begins(s, [pc |-> "reactor", user |-> u, message |-> m])
  /\ UNCHANGED rushed

Reactor(s) == LET c == chat[s] IN
  /\ c.pc = "reactor"
  /\ ChatGoto(s, IF Member(message[c.message].conversation, c.user)
                 THEN [c EXCEPT !.pc = "react"] ELSE Idle)
  /\ UNCHANGED roomVars

React(s) == LET c == chat[s] IN
  /\ c.pc = "react"
  /\ reaction' = reaction \cup {<<c.message, c.user>>}
  /\ ChatGoto(s, Idle)
  /\ UNCHANGED <<conversation, message, pinned, rushed, late>>

\* removeReaction, also of those who have left.
RemoveReaction(u, m) ==
  /\ chatLeft > 0 /\ chatLeft' = chatLeft - 1
  /\ <<m, u>> \in reaction
  /\ reaction' = reaction \ {<<m, u>>}
  /\ UNCHANGED <<conversation, message, pinned, chat, rushed, late>>

\* getMessages, page after page: those in the conversation that are not
\* deleted and older than the cursor, the newest of them.
Live(c) == {m \in DOMAIN message : message[m].conversation = c /\ ~message[m].isDeleted}

Older(c, before) == {m \in Live(c) : before = 0 \/ message[m].at < message[before].at}

\* Mutant: the page begins at the other end.
OldestPages(c, before) ==
  {page \in SUBSET Older(c, before) :
     /\ Cardinality(page) = Min({PageSize, Cardinality(Older(c, before))})
     /\ \A m \in page, n \in Older(c, before) \ page : message[m].at <= message[n].at}

Pages(c, before) ==
  {page \in SUBSET Older(c, before) :
     /\ Cardinality(page) = Min({PageSize, Cardinality(Older(c, before))})
     /\ \A m \in page, n \in Older(c, before) \ page : message[m].at >= message[n].at}

Scroll(s, u, c) ==
  /\ Member(c, u)
  /\ Begins(s, [pc |-> "page", user |-> u, conversation |-> c, before |-> 0, seen |-> {},
                start |-> Live(c)])
  /\ UNCHANGED rushed

\* nextCursor is the oldest message of a full page.
GetMessages(s) == LET c == chat[s] IN
  /\ c.pc = "page"
  /\ \/ ~Member(c.conversation, c.user) /\ ChatGoto(s, Idle)
     \/ /\ Member(c.conversation, c.user)
        /\ \E page \in Pages(c.conversation, c.before) :
             IF Cardinality(page) < PageSize
             THEN ChatGoto(s, [c EXCEPT !.pc = "scrolled", !.seen = @ \cup page])
             ELSE \E last \in page :
                    /\ \A m \in page : message[last].at <= message[m].at
                    /\ ChatGoto(s, [c EXCEPT !.before = last, !.seen = @ \cup page])
  /\ UNCHANGED roomVars

Scrolled(s) ==
  /\ chat[s].pc = "scrolled"
  /\ ChatGoto(s, Idle)
  /\ UNCHANGED roomVars

-----------------------------------------------------------------------------
(* Pins.                                                                   *)

\* pinMessage finds the message after it has looked at the caller's role.
PinMessage(s, u, c, m) ==
  /\ MayModerate(c, u)
  /\ Begins(s, [pc |-> "find", user |-> u, conversation |-> c, message |-> m])
  /\ UNCHANGED rushed

FindPinned(s) == LET c == chat[s] IN
  /\ c.pc = "find"
  /\ ChatGoto(s, IF c.message \in Live(c.conversation) THEN [c EXCEPT !.pc = "pin"] ELSE Idle)
  /\ UNCHANGED roomVars

UnpinMessage(s, u, c) ==
  /\ MayModerate(c, u)
  /\ pinned[c] # 0
  /\ Begins(s, [pc |-> "unpin", user |-> u, conversation |-> c, message |-> 0])
  /\ UNCHANGED rushed

WritePin(s) == LET c == chat[s] IN
  /\ c.pc \in {"pin", "unpin"}
  /\ pinned' = [pinned EXCEPT ![c.conversation] = c.message]
  /\ ChatGoto(s, Idle)
  /\ UNCHANGED <<conversation, message, reaction, rushed, late>>

\* getPinnedMessage, and getConversationById, which shows it to a member;
\* getMyConversations shows the same of each.
PinnedMessage(c) == IF pinned[c] \in Live(c) THEN pinned[c] ELSE None
ConversationById(c, u) ==
  [currentUserRole |-> conversation[c].seats[u],
   membersCount    |-> Cardinality(Members(c)),
   pinnedMessage   |-> PinnedMessage(c)]
MyConversations(u) == [c \in SeatsOf(u) |-> ConversationById(c, u)]

-----------------------------------------------------------------------------
RoomStep(s) ==
  \/ OpenConversation(s) \/ DeleteSeat(s) \/ StoreMessage(s) \/ TouchConversation(s)
  \/ WriteMessage(s) \/ Reactor(s) \/ React(s) \/ GetMessages(s) \/ Scrolled(s)
  \/ FindPinned(s) \/ WritePin(s)

RoomRequest(s) ==
  /\ Free(chat, chatLeft, s)
  /\ \/ \E u \in Users, type \in {"DIRECT", "GROUP"}, with \in SUBSET Users :
          CreateConversation(s, u, type, with)
     \/ \E u \in Users, c \in DOMAIN conversation :
          \/ SendMessage(s, u, c) \/ MarkAsRead(s, u, c) \/ Scroll(s, u, c) \/ UnpinMessage(s, u, c)
          \/ \E target \in Users : KickMember(s, u, c, target)
          \/ \E m \in DOMAIN message : PinMessage(s, u, c, m)
     \/ \E u \in Users, m \in DOMAIN message :
          \/ UpdateMessage(s, u, m) \/ DeleteMessage(s, u, m) \/ ModerateDelete(s, u, m)
          \/ AddReaction(s, u, m)

RoomNext ==
  \/ \E u \in Users : JoinEventChat(u)
  \/ \E u \in Users, c \in DOMAIN conversation : PostBroadcast(u, c)
  \/ \E u \in Users, m \in DOMAIN message : RemoveReaction(u, m)
  \/ \E s \in Slots : RoomRequest(s) \/ RoomStep(s)

-----------------------------------------------------------------------------
(* Properties.                                                             *)

\* Two users have one DIRECT conversation, whoever asks for it and whoever has
\* been removed from an earlier one, unless creations overlapped.
OneDirectPerPair == \A u, v \in Users :
  u # v /\ {u, v} \notin rushed =>
    Cardinality({c \in SeatsOf(u) \cap SeatsOf(v) : conversation[c].type = "DIRECT"}) <= 1

\* A deleted message shows a text again only through an edit that was on its
\* way when the deletion was written.
LateEditOnly == \A m \in DOMAIN message :
  message[m].isDeleted /\ message[m].content \in {"sent", "edited"} => m \in late

\* A client that scrolls to the end has seen every message there was when it
\* began, whatever is sent, edited or deleted meanwhile, but for those deleted
\* and those as old as another by the clock.
ScrollSeesAll == \A s \in Slots : chat[s].pc = "scrolled" =>
  \A m \in chat[s].start \ chat[s].seen :
    \/ message[m].isDeleted
    \/ \E n \in DOMAIN message \ {m} : /\ message[n].conversation = message[m].conversation
                                       /\ message[n].at = message[m].at
=============================================================================
