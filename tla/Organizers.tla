----------------------------- MODULE Organizers -----------------------------
(***************************************************************************)
(* EventsService: the status and the soft deletion of the event, and its   *)
(* organizers, each of whom is an ADMIN of the event's conversation.       *)
(* Adding or removing an organizer takes a PRIMARY organizer.              *)
(***************************************************************************)
EXTENDS EventDb

-----------------------------------------------------------------------------
(***************************************************************************)
(* updateStatus and remove.  Both look for deletedAt = null first and then *)
(* write by key.  Any status may follow any other.                         *)
(***************************************************************************)
\* Mutant: a deleted event is updated like any other.
EventStatusBeginDeleted(s, status) ==
  /\ AnyOrganizer
  /\ Begin("eventStatus", s, [Idle EXCEPT !.pc = "event.status", !.seen = status])
  /\ UNCHANGED tables

EventStatusBegin(s, status) ==
  /\ ~event.deleted
  /\ AnyOrganizer
  /\ Begin("eventStatus", s, [Idle EXCEPT !.pc = "event.status", !.seen = status])
  /\ UNCHANGED tables

EventStatusWrite(s) ==
  /\ At(s, "event.status")
  /\ event' = [event EXCEPT !.status = request[s].seen]
  /\ End(s)
  /\ UNCHANGED <<registration, attendance, organizer, member>>

EventDeleteBegin(s) ==
  /\ ~event.deleted
  /\ Begin("eventDelete", s, [Idle EXCEPT !.pc = "event.delete"])
  /\ UNCHANGED tables

EventDeleteWrite(s) ==
  /\ At(s, "event.delete")
  /\ event' = [status |-> "ARCHIVED", deleted |-> TRUE]
  /\ End(s)
  /\ UNCHANGED <<registration, attendance, organizer, member>>

-----------------------------------------------------------------------------
(***************************************************************************)
(* addOrganizer                                                            *)
(***************************************************************************)
AddOrganizerBegin(s, u, role) ==
  /\ ~event.deleted
  /\ AnyPrimary
  /\ organizer[u] = "NONE"
  /\ Begin("addOrganizer", s, [Idle EXCEPT !.pc = "organizer.create",
                                           !.user = u,
                                           !.seen = role])
  /\ UNCHANGED tables

\* (eventId, userId) is the primary key: a second insert fails.
AddOrganizerCreate(s) ==
  LET r == request[s]
  IN  /\ At(s, "organizer.create")
      /\ IF r.user \in Organizers
           THEN Throw(s)
           ELSE /\ organizer' = [organizer EXCEPT ![r.user] = r.seen]
                /\ Goto(s, "organizer.promote")
                /\ UNCHANGED <<event, registration, attendance, member>>

AddOrganizerPromote(s) ==
  /\ At(s, "organizer.promote")
  /\ JoinAsAdmin(request[s].user)
  /\ End(s)
  /\ UNCHANGED <<event, registration, attendance, organizer>>

-----------------------------------------------------------------------------
(***************************************************************************)
(* removeOrganizer                                                         *)
(***************************************************************************)
\* The target's row is read; only a row read as PRIMARY is counted.
RemoveOrganizerBegin(s, u) ==
  /\ ~event.deleted
  /\ AnyPrimary
  /\ u \in Organizers
  /\ Begin("removeOrganizer", s,
           [Idle EXCEPT !.pc = IF organizer[u] = "PRIMARY" THEN "organizer.count"
                                                           ELSE "organizer.delete",
                        !.user = u,
                        !.seen = organizer[u]])
  /\ UNCHANGED tables

\* Mutant: off by one.
RemoveOrganizerCountOffByOne(s) ==
  /\ At(s, "organizer.count")
  /\ IF Cardinality(Primaries) < 1
       THEN Throw(s)
       ELSE Goto(s, "organizer.delete") /\ UNCHANGED tables

RemoveOrganizerCount(s) ==
  /\ At(s, "organizer.count")
  /\ IF Cardinality(Primaries) <= 1
       THEN Throw(s)
       ELSE Goto(s, "organizer.delete") /\ UNCHANGED tables

\* By (eventId, userId), without another look at the role.
RemoveOrganizerDelete(s) ==
  LET u == request[s].user
  IN  /\ At(s, "organizer.delete")
      /\ IF u \notin Organizers
           THEN Throw(s)
           ELSE /\ organizer' = [organizer EXCEPT ![u] = "NONE"]
                /\ Goto(s, "organizer.participant")
                /\ UNCHANGED <<event, registration, attendance, member>>

\* Mutant: any removed organizer is taken for a participant.
RemoveOrganizerParticipantAlways(s) ==
  /\ At(s, "organizer.participant")
  /\ Goto(s, "organizer.demote")
  /\ UNCHANGED tables

\* A registration of any status but CANCELLED keeps the seat in the chat.
RemoveOrganizerParticipant(s) ==
  /\ At(s, "organizer.participant")
  /\ IF registration[request[s].user].status \in RegistrationStatus \ {"CANCELLED"}
       THEN Goto(s, "organizer.demote")
       ELSE Goto(s, "organizer.leave")
  /\ UNCHANGED tables

\* updateMany: a user who has left the chat meanwhile is not put back.
RemoveOrganizerDemote(s) ==
  /\ At(s, "organizer.demote")
  /\ member' = [member EXCEPT ![request[s].user] =
                  IF @ = "NONE" THEN "NONE" ELSE "MEMBER"]
  /\ End(s)
  /\ UNCHANGED <<event, registration, attendance, organizer>>

RemoveOrganizerLeave(s) ==
  /\ At(s, "organizer.leave")
  /\ LeaveChat(request[s].user)
  /\ End(s)
  /\ UNCHANGED <<event, registration, attendance, organizer>>

-----------------------------------------------------------------------------
OrganizersStep(s) ==
  \/ EventStatusWrite(s) \/ EventDeleteWrite(s)
  \/ AddOrganizerCreate(s) \/ AddOrganizerPromote(s)
  \/ RemoveOrganizerCount(s) \/ RemoveOrganizerDelete(s)
  \/ RemoveOrganizerParticipant(s)
  \/ RemoveOrganizerDemote(s) \/ RemoveOrganizerLeave(s)

OrganizersBegin(s) ==
  \/ \E status \in EventStatus : EventStatusBegin(s, status)
  \/ EventDeleteBegin(s)
  \/ \E u \in Users, role \in OrganizerRole : AddOrganizerBegin(s, u, role)
  \/ \E u \in Users : RemoveOrganizerBegin(s, u)
=============================================================================
