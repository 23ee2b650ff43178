--------------------------- MODULE Registrations ---------------------------
(***************************************************************************)
(* RegistrationsService: register (alone or as a team), the staff decision *)
(* on one registration, the bulk approval, and the owner's deletion.       *)
(*                                                                         *)
(* Form submissions are left out: each is written for one registration,    *)
(* with a key of its own, and no handler here reads it back.               *)
(***************************************************************************)
EXTENDS EventDb

-----------------------------------------------------------------------------
(***************************************************************************)
(* register                                                                *)
(***************************************************************************)
\* The event is read once; its status is not looked at again.  The deadline
\* can only refuse here, and a refused request changes nothing.  The team
\* size depends on the input alone, so it is checked on the input.
RegisterBegin(s, team) ==
  /\ event.status \in {"REGISTRATION_OPEN", "PUBLISHED"}
  /\ Begin("register", s, [Idle EXCEPT !.pc = "register.capacity",
                                       !.row = served + 1,
                                       !.user = team[1],
                                       !.team = team])
  /\ UNCHANGED tables

\* Mutant: the capacity is not looked at.
RegisterCapacityUnchecked(s) ==
  /\ At(s, "register.capacity")
  /\ Goto(s, "register.existing")
  /\ UNCHANGED tables

\* The count is of one moment, and the size of the team is not added to it.
RegisterCapacity(s) ==
  /\ At(s, "register.capacity")
  /\ IF Capacity # 0 /\ Cardinality(ActiveUsers) >= Capacity
       THEN Throw(s)
       ELSE Goto(s, "register.existing") /\ UNCHANGED tables

\* Any row of the leader refuses, whatever its status.
RegisterExisting(s) ==
  /\ At(s, "register.existing")
  /\ IF Registered(request[s].user)
       THEN Throw(s)
       ELSE Goto(s, "register.teammates") /\ UNCHANGED tables

\* Only an active row of a teammate refuses.
RegisterTeammates(s) ==
  /\ At(s, "register.teammates")
  /\ LET team == request[s].team
     IN  IF \E i \in 2..Len(team) : team[i] \in ActiveUsers
           THEN Throw(s)
           ELSE Goto(s, "register.create") /\ UNCHANGED tables

\* Mutant: an upsert in place of the insert.
RegisterCreateUpsert(s) ==
  LET r == request[s]
  IN  /\ At(s, "register.create")
      /\ registration' = [registration EXCEPT
                            ![r.team[r.i]] = [status |-> "APPROVED", row |-> r.row]]
      /\ request' = [request EXCEPT ![s] =
           IF r.i = Len(r.team)
             THEN [r EXCEPT !.pc = "register.join", !.i = 1]
             ELSE [r EXCEPT !.i = @ + 1]]
      /\ UNCHANGED <<event, attendance, organizer, member, served>>

\* One pass of the inserts, leader first.  A row of any status makes the
\* insert fail on the unique (eventId, userId); the rows before it stay.
RegisterCreate(s) ==
  LET r == request[s]
      u == r.team[r.i]
  IN  /\ At(s, "register.create")
      /\ IF Registered(u)
           THEN Throw(s)
           ELSE /\ registration' = [registration EXCEPT
                                      ![u] = [status |-> "APPROVED", row |-> r.row]]
                /\ request' = [request EXCEPT ![s] =
                     IF r.i = Len(r.team)
                       THEN [r EXCEPT !.pc = "register.join", !.i = 1]
                       ELSE [r EXCEPT !.i = @ + 1]]
                /\ UNCHANGED <<event, attendance, organizer, member, served>>

\* Mutant: the loop stays at the same member of the team.
RegisterJoinStuck(s) ==
  LET r == request[s]
  IN  /\ At(s, "register.join")
      /\ JoinAsMember(r.team[r.i])
      /\ IF r.i = Len(r.team) THEN End(s) ELSE Goto(s, "register.join")
      /\ UNCHANGED <<event, registration, attendance, organizer>>

\* One pass of the upserts into the event chat.  The team chat that follows
\* needs a second conversation with the same unique eventId: its insert
\* fails and the handler ignores that, so the last upsert ends the request.
RegisterJoin(s) ==
  LET r == request[s]
  IN  /\ At(s, "register.join")
      /\ JoinAsMember(r.team[r.i])
      /\ IF r.i = Len(r.team)
           THEN End(s)
           ELSE /\ request' = [request EXCEPT ![s].i = @ + 1]
                /\ UNCHANGED served
      /\ UNCHANGED <<event, registration, attendance, organizer>>

-----------------------------------------------------------------------------
(***************************************************************************)
(* updateStatus                                                            *)
(***************************************************************************)
\* The row and the caller's organizer row are read.  As the later update is
\* by the row's key, which is never reused, reading both when the second is
\* read gives the same behaviours.
UpdateStatusBegin(s, u, status) ==
  /\ Registered(u)
  /\ AnyOrganizer
  /\ Begin("updateStatus", s, [Idle EXCEPT !.pc = "status.write",
                                           !.row = registration[u].row,
                                           !.user = u,
                                           !.seen = status])
  /\ UNCHANGED tables

\* Any status may follow any other; the capacity is not looked at.
UpdateStatusWrite(s) ==
  LET r == request[s]
  IN  /\ At(s, "status.write")
      /\ IF ~Registered(r.user) \/ registration[r.user].row # r.row
           THEN Throw(s)
           ELSE /\ registration' = [registration EXCEPT ![r.user].status = r.seen]
                /\ IF r.seen \in Inactive THEN Goto(s, "status.organizer") ELSE End(s)
                /\ UNCHANGED <<event, attendance, organizer, member>>

\* An organizer keeps the seat in the chat.
UpdateStatusOrganizer(s) ==
  /\ At(s, "status.organizer")
  /\ IF request[s].user \in Organizers THEN End(s) ELSE Goto(s, "status.leave")
  /\ UNCHANGED tables

UpdateStatusLeave(s) ==
  /\ At(s, "status.leave")
  /\ LeaveChat(request[s].user)
  /\ End(s)
  /\ UNCHANGED <<event, registration, attendance, organizer>>

-----------------------------------------------------------------------------
(***************************************************************************)
(* approveAll: updateMany of the PENDING rows.                             *)
(***************************************************************************)
ApproveAllBegin(s) ==
  /\ AnyOrganizer
  /\ Begin("approveAll", s, [Idle EXCEPT !.pc = "approve.write"])
  /\ UNCHANGED tables

ApproveAllWrite(s) ==
  /\ At(s, "approve.write")
  /\ registration' = [u \in Users |->
       IF registration[u].status = "PENDING"
         THEN [registration[u] EXCEPT !.status = "APPROVED"]
         ELSE registration[u]]
  /\ End(s)
  /\ UNCHANGED <<event, attendance, organizer, member>>

-----------------------------------------------------------------------------
(***************************************************************************)
(* remove: the owner deletes the row, then leaves the chat, organizer or   *)
(* not.  The attendance row stays.                                         *)
(***************************************************************************)
RemoveBegin(s, u) ==
  /\ Registered(u)
  /\ Begin("remove", s, [Idle EXCEPT !.pc = "remove.delete",
                                     !.row = registration[u].row,
                                     !.user = u])
  /\ UNCHANGED tables

RemoveDelete(s) ==
  LET r == request[s]
  IN  /\ At(s, "remove.delete")
      /\ IF ~Registered(r.user) \/ registration[r.user].row # r.row
           THEN Throw(s)
           ELSE /\ registration' = [registration EXCEPT ![r.user] = NoRow]
                /\ Goto(s, "remove.leave")
                /\ UNCHANGED <<event, attendance, organizer, member>>

RemoveLeave(s) ==
  /\ At(s, "remove.leave")
  /\ LeaveChat(request[s].user)
  /\ End(s)
  /\ UNCHANGED <<event, registration, attendance, organizer>>

-----------------------------------------------------------------------------
RegistrationsStep(s) ==
  \/ RegisterCapacity(s) \/ RegisterExisting(s) \/ RegisterTeammates(s)
  \/ RegisterCreate(s) \/ RegisterJoin(s)
  \/ UpdateStatusWrite(s) \/ UpdateStatusOrganizer(s) \/ UpdateStatusLeave(s)
  \/ ApproveAllWrite(s)
  \/ RemoveDelete(s) \/ RemoveLeave(s)

RegistrationsBegin(s) ==
  \/ \E team \in Teams : RegisterBegin(s, team)
  \/ \E u \in Users, status \in StaffStatuses : UpdateStatusBegin(s, u, status)
  \/ ApproveAllBegin(s)
  \/ \E u \in Users : RemoveBegin(s, u)
=============================================================================
