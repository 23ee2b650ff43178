----------------------------- MODULE Attendance -----------------------------
(***************************************************************************)
(* AttendanceService.checkIn: a scanned ticket becomes an attendance row   *)
(* and, if the registration was read as APPROVED, the status CHECKED_IN.   *)
(* Whatever was scanned (a signed QR, a registration number, a user or     *)
(* ticket id) names one participant, which is the action's parameter.      *)
(***************************************************************************)
EXTENDS EventDb

\* The event is there and the caller is one of its organizers.
CheckInBegin(s, u) ==
  /\ AnyOrganizer
  /\ Begin("checkIn", s, [Idle EXCEPT !.pc = "checkin.read", !.user = u])
  /\ UNCHANGED tables

\* Mutant: the registration is marked before the attendance is inserted.
CheckInReadMarkFirst(s) ==
  LET row == registration[request[s].user]
  IN  /\ At(s, "checkin.read")
      /\ IF row.status \notin {"APPROVED", "COMPLETED", "CHECKED_IN"}
           THEN Throw(s)
           ELSE /\ request' = [request EXCEPT
                     ![s].pc = IF row.status = "APPROVED" THEN "checkin.mark"
                                                          ELSE "checkin.record",
                     ![s].row = row.row,
                     ![s].seen = row.status]
                /\ UNCHANGED <<tables, served>>

\* The registration is read: its key and status are used two statements later.
CheckInRead(s) ==
  LET row == registration[request[s].user]
  IN  /\ At(s, "checkin.read")
      /\ IF row.status \notin {"APPROVED", "COMPLETED", "CHECKED_IN"}
           THEN Throw(s)
           ELSE /\ request' = [request EXCEPT ![s].pc = "checkin.record",
                                              ![s].row = row.row,
                                              ![s].seen = row.status]
                /\ UNCHANGED <<tables, served>>

\* The look-up of an earlier scan and the insert.  Attendance rows are never
\* deleted, so a scan that the look-up would refuse the insert refuses too.
CheckInRecord(s) ==
  LET r == request[s]
  IN  /\ At(s, "checkin.record")
      /\ IF r.user \in attendance
           THEN Throw(s)
           ELSE /\ attendance' = attendance \cup {r.user}
                /\ IF r.seen = "APPROVED" THEN Goto(s, "checkin.mark") ELSE End(s)
                /\ UNCHANGED <<event, registration, organizer, member>>

\* The update is by key and does not look at the status it replaces.
CheckInMark(s) ==
  LET r == request[s]
  IN  /\ At(s, "checkin.mark")
      /\ IF ~Registered(r.user) \/ registration[r.user].row # r.row
           THEN Throw(s)
           ELSE /\ registration' = [registration EXCEPT ![r.user].status = "CHECKED_IN"]
                /\ End(s)
                /\ UNCHANGED <<event, attendance, organizer, member>>

-----------------------------------------------------------------------------
AttendanceStep(s) == CheckInRead(s) \/ CheckInRecord(s) \/ CheckInMark(s)

AttendanceBegin(s) == \E u \in Users : CheckInBegin(s, u)
=============================================================================
