------------------------------ MODULE EventDb ------------------------------
(***************************************************************************)
(* The tables that every handler of one fest event reads and writes, and   *)
(* the requests in flight against them.                                    *)
(*                                                                         *)
(* The backend is one Node process over PostgreSQL.  Handlers run          *)
(* concurrently and interleave at each `await this.prisma...`; a statement *)
(* is a transaction of its own.  So a request is a program counter with    *)
(* the locals its handler keeps between statements, and one step of a      *)
(* request is one statement (adjacent reads are merged only where the      *)
(* comment on the action says why nothing is lost).                        *)
(*                                                                         *)
(* The event has a conversation from the start: events.service creates it  *)
(* with the event, no handler deletes it, and every handler that needs it  *)
(* upserts it.  Where the row is missing it has no members, so handlers    *)
(* that skip it when it is missing do nothing either way.                  *)
(***************************************************************************)
EXTENDS Naturals, Sequences, FiniteSets

CONSTANTS
  Users,          \* the accounts
  None,           \* no account
  Founders,       \* who creates the event (or, if several, has been made PRIMARY since)
  Slots,          \* requests that can be in flight at the same time
  Capacity,       \* event.maxParticipants, 0 for null
  MinTeam,        \* event.minTeamSize
  MaxTeam,        \* event.maxTeamSize
  StaffStatuses,  \* registration statuses that staff set through updateStatus
  Ops,            \* the handlers that clients call
  MayFail,        \* whether a request can die between two statements
  MaxRequests     \* bound: requests that are ever begun

ASSUME UsersAssumption == /\ None \notin Users
                          /\ IsFiniteSet(Users)
                          /\ Founders \subseteq Users
                          /\ Founders # {}
ASSUME SlotsAssumption == IsFiniteSet(Slots)
ASSUME NumberAssumption == /\ Capacity \in Nat
                           /\ MinTeam \in Nat \ {0}
                           /\ MaxTeam \in Nat \ {0}
                           /\ MaxRequests \in Nat
ASSUME FailAssumption == MayFail \in BOOLEAN

(***************************************************************************)
(* The values of the status columns.                                       *)
(***************************************************************************)
Inactive == {"REJECTED", "CANCELLED"}
Active   == {"PENDING", "APPROVED", "WAITLISTED", "CHECKED_IN", "COMPLETED"}
RegistrationStatus == Active \cup Inactive
EventStatus == {"DRAFT", "PUBLISHED", "REGISTRATION_OPEN",
                "REGISTRATION_CLOSED", "STARTED", "COMPLETED", "ARCHIVED"}
OrganizerRole == {"PRIMARY", "SECONDARY"}

ASSUME StatusAssumption == StaffStatuses \subseteq RegistrationStatus

VARIABLES
  event,         \* the event row: status and whether deletedAt is set
  registration,  \* the user's EventRegistration row, NoRow when there is none
  attendance,    \* users with an Attendance row
  organizer,     \* role of the user's EventOrganizer row, "NONE" without one
  member,        \* role of the user in the event conversation, "NONE" outside
  request,       \* the request in each slot, Idle when the slot is free
  served         \* number of requests begun, which also numbers new rows

tables == <<event, registration, attendance, organizer, member>>
vars == <<event, registration, attendance, organizer, member, request, served>>

-----------------------------------------------------------------------------
(***************************************************************************)
(* Rows and requests.                                                      *)
(***************************************************************************)
\* `row` is the primary key: a row deleted and created again has a new one.
NoRow == [status |-> "NONE", row |-> 0]
Registration == [status : RegistrationStatus, row : Nat \ {0}] \cup {NoRow}

\* A team is the leader followed by the teammates, all different.
Teams == {t \in UNION {[1..n -> Users] : n \in MinTeam..MaxTeam} :
             \A i, j \in DOMAIN t : t[i] = t[j] => i = j}

Labels ==
  {"idle",
   "register.capacity", "register.existing", "register.teammates",
   "register.create", "register.join",
   "status.write", "status.organizer", "status.leave",
   "approve.write",
   "remove.delete", "remove.leave",
   "checkin.read", "checkin.record", "checkin.mark",
   "event.status", "event.delete",
   "organizer.create", "organizer.promote",
   "organizer.count", "organizer.delete", "organizer.participant",
   "organizer.demote", "organizer.leave",
   "kick.leave", "kick.cancel",
   "sync.join"}

\* What a handler keeps from one statement to the next: the key of the row it
\* read (or will insert), the user it is about, a value it read or was sent,
\* the team with the position of its loop, and the snapshot of a sync.
Request == [pc : Labels,
            row : Nat,
            user : Users \cup {None},
            seen : RegistrationStatus \cup EventStatus \cup OrganizerRole \cup {"NONE"},
            team : Seq(Users),
            i : Nat,
            admins : SUBSET Users,
            joins : SUBSET Users]

Idle == [pc |-> "idle", row |-> 0, user |-> None, seen |-> "NONE",
         team |-> <<>>, i |-> 1, admins |-> {}, joins |-> {}]

TypeOK ==
  /\ event \in [status : EventStatus, deleted : BOOLEAN]
  /\ registration \in [Users -> Registration]
  /\ attendance \subseteq Users
  /\ organizer \in [Users -> OrganizerRole \cup {"NONE"}]
  /\ member \in [Users -> {"ADMIN", "MEMBER", "NONE"}]
  /\ request \in [Slots -> Request]
  /\ served \in Nat

\* An event just created: open, its organizers are ADMINs of its conversation.
Init ==
  /\ event = [status |-> "REGISTRATION_OPEN", deleted |-> FALSE]
  /\ registration = [u \in Users |-> NoRow]
  /\ attendance = {}
  /\ organizer = [u \in Users |-> IF u \in Founders THEN "PRIMARY" ELSE "NONE"]
  /\ member = [u \in Users |-> IF u \in Founders THEN "ADMIN" ELSE "NONE"]
  /\ request = [s \in Slots |-> Idle]
  /\ served = 0

-----------------------------------------------------------------------------
(***************************************************************************)
(* Control flow of a request.                                              *)
(***************************************************************************)
Begin(op, s, r) ==
  /\ op \in Ops
  /\ request[s] = Idle
  /\ served < MaxRequests
  /\ served' = served + 1
  /\ request' = [request EXCEPT ![s] = r]

At(s, label) == request[s].pc = label

Goto(s, label) ==
  /\ request' = [request EXCEPT ![s].pc = label]
  /\ UNCHANGED served

\* The handler returns or throws: nothing of it remains but what it wrote.
End(s) ==
  /\ request' = [request EXCEPT ![s] = Idle]
  /\ UNCHANGED served

\* A statement is refused by the database or by a check: the handler throws.
Throw(s) == End(s) /\ UNCHANGED tables

\* The connection, the statement or the process dies between two statements;
\* what was committed stays.  A crash is this step taken for every slot.
Fail(s) ==
  /\ MayFail
  /\ request[s].pc # "idle"
  /\ Throw(s)

-----------------------------------------------------------------------------
(***************************************************************************)
(* Queries that several handlers make.                                     *)
(***************************************************************************)
Registered(u) == registration[u] # NoRow
ActiveUsers == {u \in Users : registration[u].status \in Active}
Organizers == {u \in Users : organizer[u] # "NONE"}
Primaries == {u \in Users : organizer[u] = "PRIMARY"}

\* Some account passes the handler's check that the caller is an organizer.
\* The global permissions that would bypass it are not seeded.
AnyOrganizer == Organizers # {}
AnyPrimary == Primaries # {}

\* conversationMember.upsert with `update: {}`, with `update: {role: ADMIN}`,
\* and deleteMany.
JoinAsMember(u) ==
  member' = [member EXCEPT ![u] = IF @ = "NONE" THEN "MEMBER" ELSE @]
JoinAsAdmin(u) == member' = [member EXCEPT ![u] = "ADMIN"]
LeaveChat(u) == member' = [member EXCEPT ![u] = "NONE"]
=============================================================================
