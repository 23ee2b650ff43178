----------------------------- MODULE EventChat -----------------------------
(***************************************************************************)
(* The two operations of ChatService that tie the event's conversation to  *)
(* its registrations and organizers: kickMember and syncAllEvents.         *)
(***************************************************************************)
EXTENDS EventDb

-----------------------------------------------------------------------------
(***************************************************************************)
(* kickMember: the caller is an ADMIN of the conversation or has the role  *)
(* admin, so some caller always passes.  The seat is deleted, then every   *)
(* row of the user for the event is CANCELLED, whatever its status.        *)
(***************************************************************************)
KickBegin(s, u) ==
  /\ Begin("kick", s, [Idle EXCEPT !.pc = "kick.leave", !.user = u])
  /\ UNCHANGED tables

KickLeave(s) ==
  /\ At(s, "kick.leave")
  /\ LeaveChat(request[s].user)
  /\ Goto(s, "kick.cancel")
  /\ UNCHANGED <<event, registration, attendance, organizer>>

\* Mutant: the update takes it that the user is registered.
KickCancelUnguarded(s) ==
  /\ At(s, "kick.cancel")
  /\ registration' = [registration EXCEPT ![request[s].user].status = "CANCELLED"]
  /\ End(s)
  /\ UNCHANGED <<event, attendance, organizer, member>>

KickCancel(s) ==
  LET u == request[s].user
  IN  /\ At(s, "kick.cancel")
      /\ registration' = IF Registered(u)
                           THEN [registration EXCEPT ![u].status = "CANCELLED"]
                           ELSE registration
      /\ End(s)
      /\ UNCHANGED <<event, attendance, organizer, member>>

-----------------------------------------------------------------------------
(***************************************************************************)
(* syncAllEvents, for this event: the organizers and the registrations are *)
(* read in one query, then written one at a time, organizers first.        *)
(***************************************************************************)
SyncBegin(s) ==
  /\ Begin("sync", s,
           [Idle EXCEPT !.pc = "sync.join",
                        !.admins = Organizers,
                        !.joins = {u \in Users : /\ Registered(u)
                                                 /\ registration[u].status # "CANCELLED"}])
  /\ UNCHANGED tables

SyncAdmin(s) ==
  /\ At(s, "sync.join")
  /\ \E u \in request[s].admins :
       /\ JoinAsAdmin(u)
       /\ request' = [request EXCEPT ![s].admins = @ \ {u}]
  /\ UNCHANGED <<event, registration, attendance, organizer, served>>

SyncMember(s) ==
  /\ At(s, "sync.join")
  /\ request[s].admins = {}
  /\ \E u \in request[s].joins :
       /\ JoinAsMember(u)
       /\ request' = [request EXCEPT ![s].joins = @ \ {u}]
  /\ UNCHANGED <<event, registration, attendance, organizer, served>>

SyncEnd(s) ==
  /\ At(s, "sync.join")
  /\ request[s].admins = {}
  /\ request[s].joins = {}
  /\ End(s)
  /\ UNCHANGED tables

-----------------------------------------------------------------------------
EventChatStep(s) ==
  \/ KickLeave(s) \/ KickCancel(s)
  \/ SyncAdmin(s) \/ SyncMember(s) \/ SyncEnd(s)

EventChatBegin(s) ==
  \/ \E u \in Users : KickBegin(s, u)
  \/ SyncBegin(s)
=============================================================================
