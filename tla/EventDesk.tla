----------------------------- MODULE EventDesk -----------------------------
(***************************************************************************)
(* One fest event with all the handlers that write its tables, running     *)
(* concurrently: registration and staff decisions, check-in, organizers    *)
(* and status, kicks and chat synchronisation.                             *)
(***************************************************************************)
EXTENDS Registrations, Attendance, Organizers, EventChat

Step(s) == \/ RegistrationsStep(s)
           \/ AttendanceStep(s)
           \/ OrganizersStep(s)
           \/ EventChatStep(s)

Arrive(s) == \/ RegistrationsBegin(s)
             \/ AttendanceBegin(s)
             \/ OrganizersBegin(s)
             \/ EventChatBegin(s)

Next == \E s \in Slots : Arrive(s) \/ Step(s) \/ Fail(s)

Spec == Init /\ [][Next]_vars

\* A promise that a handler awaits is settled sooner or later, and then the
\* handler goes on: the event loop starves no request.  Nothing obliges a
\* client to send one.
FairSpec == Spec /\ \A s \in Slots : WF_vars(Step(s))

-----------------------------------------------------------------------------
(***************************************************************************)
(* Places.                                                                 *)
(***************************************************************************)
Admitted == {"register.existing", "register.teammates", "register.create"}

\* The rows that requests past the capacity check have still to insert.
Pending == {p \in Slots \X (1..MaxTeam) :
              /\ request[p[1]].pc \in Admitted
              /\ request[p[1]].i <= p[2]
              /\ p[2] <= Len(request[p[1]].team)}

\* The users whom a check-in has read as APPROVED and may still write back as
\* CHECKED_IN, even if the registration is cancelled meanwhile.
Marking == {request[s].user : s \in {t \in Slots :
              \/ request[t].pc = "checkin.mark"
              \/ request[t].pc = "checkin.record" /\ request[t].seen = "APPROVED"}}

\* The capacity is checked once per request, before the inserts, and check-in
\* can bring back a registration that has given up its place.  So it can be
\* exceeded, but by less than the places that the requests in flight can take
\* together, as long as staff only reject and cancel.
OvershootBound ==
  (Capacity # 0 /\ StaffStatuses \subseteq Inactive) =>
    Cardinality(ActiveUsers \cup Marking) + Cardinality(Pending)
      < Capacity + Cardinality(Slots) * MaxTeam

\* What the capacity check in register is for: an event never has more active
\* registrations than maxParticipants.
CapacityRespected == Capacity # 0 => Cardinality(ActiveUsers) <= Capacity

-----------------------------------------------------------------------------
(***************************************************************************)
(* Registrations and attendance.                                           *)
(***************************************************************************)
\* Unless staff set the status by hand, CHECKED_IN has an attendance row
\* behind it, whatever was deleted, kicked or registered again meanwhile:
\* checkIn inserts the attendance first and updates the row it read by key.
CheckedInHasAttendance ==
  "CHECKED_IN" \notin StaffStatuses =>
    \A u \in Users : registration[u].status = "CHECKED_IN" => u \in attendance

\* No handler puts its row in the place of another: between two different
\* registrations of a user for the event there is a deletion.  The team
\* register of somebody else, above all, cannot take over a row.
RowsAreReplacedOnlyAfterDeletion ==
  [][\A u \in Users : Registered(u) /\ Registered(u)' =>
       registration'[u].row = registration[u].row]_vars

\* Check-in turns APPROVED registrations into CHECKED_IN, and no others.
OnlyApprovedBecomesCheckedIn ==
  [][\A u \in Users :
       registration'[u].status = "CHECKED_IN" =>
         registration[u].status \in {"APPROVED", "CHECKED_IN"}]_vars

-----------------------------------------------------------------------------
(***************************************************************************)
(* Organizers, chat and the event itself.                                  *)
(***************************************************************************)
\* removeOrganizer refuses to remove the last PRIMARY organizer, without whom
\* nobody can appoint another.
SomePrimary == Primaries # {}

\* Writes of the event that have passed their check of deletedAt.
Unwritten == {s \in Slots : At(s, "event.status") \/ At(s, "event.delete")}

\* A deletion is final but for what was under way: nothing undoes it, no status
\* update gets past the check any more, and each change of the status uses up
\* one that was past it already.  So a deleted event comes out of ARCHIVED only
\* by a late update, and no more often than there were such updates.
DeletionIsFinal ==
  [][event.deleted => /\ event.deleted'
                      /\ Unwritten' \subseteq Unwritten
                      /\ event.status' # event.status => Unwritten' # Unwritten]_vars

\* When no request is in flight, the seats of the chat are earned: an ADMIN is
\* an organizer, and anybody else has a registration that is not CANCELLED.
SeatsAreEarned ==
  (\A s \in Slots : At(s, "idle")) =>
    \A u \in Users :
      /\ member[u] = "ADMIN" => u \in Organizers
      /\ member[u] = "MEMBER" =>
           u \in Organizers \/ (Registered(u) /\ registration[u].status # "CANCELLED")

-----------------------------------------------------------------------------
\* A request that has begun ends: it returns or throws, and no loop over a
\* team or over the rows of a sync goes on for ever.
RequestsEnd == \A s \in Slots : ~At(s, "idle") ~> At(s, "idle")
=============================================================================
