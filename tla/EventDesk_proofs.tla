-------------------------- MODULE EventDesk_proofs --------------------------
(***************************************************************************)
(* Theorems about EventDesk, for every set of users and slots, capacity,   *)
(* team size, choice of handlers and number of requests.                   *)
(***************************************************************************)
EXTENDS EventDesk, FiniteSetTheorems, SequenceTheorems, TLAPS

-----------------------------------------------------------------------------
(***************************************************************************)
(* Type correctness.  The locals of a request are well-formed for the      *)
(* statement it is at: TypeOK alone is not inductive, because the tables   *)
(* are indexed by them.                                                    *)
(***************************************************************************)
RegisterLabels == {"register.capacity", "register.existing",
                   "register.teammates", "register.create", "register.join"}

UserLabels == Labels \ {"idle", "approve.write", "event.status", "event.delete",
                        "sync.join"}

LocalOK(r) ==
  /\ r.pc \in RegisterLabels =>
       /\ r.team \in Teams
       /\ r.i \in 1..Len(r.team)
       /\ r.row # 0
  /\ r.pc \in UserLabels => r.user \in Users
  /\ r.pc = "status.write" => r.seen \in StaffStatuses
  /\ r.pc = "event.status" => r.seen \in EventStatus
  /\ r.pc = "organizer.create" => r.seen \in OrganizerRole

TypeInv == TypeOK /\ \A s \in Slots : LocalOK(request[s])

\* A team is a sequence of 1 to MaxTeam users.
LEMMA TeamType ==
  ASSUME NEW team \in Teams
  PROVE  /\ team \in Seq(Users)
         /\ Len(team) \in 1..MaxTeam
         /\ DOMAIN team = 1..Len(team)
         /\ \A i \in 1..Len(team) : team[i] \in Users
         /\ \A i, j \in 1..Len(team) : team[i] = team[j] => i = j
<1>1. PICK n \in MinTeam..MaxTeam : team \in [1..n -> Users]
  BY DEF Teams
<1>2. n \in Nat /\ 1 <= n /\ n <= MaxTeam
  BY <1>1, NumberAssumption
<1>3. team \in Seq(Users) /\ Len(team) = n
  BY <1>1, <1>2
<1>4. \A i, j \in DOMAIN team : team[i] = team[j] => i = j
  BY DEF Teams
<1> QED BY <1>1, <1>2, <1>3, <1>4

LEMMA IdleOK == Idle \in Request /\ LocalOK(Idle) /\ Idle.i = 1
BY DEF Idle, Request, Labels, LocalOK, RegisterLabels, UserLabels

\* The loops of register move inside the team, or on to the second loop.
LEMMA LoopOK ==
  ASSUME NEW r \in Request, LocalOK(r), r.pc \in RegisterLabels,
         NEW n \in 1..Len(r.team)
  PROVE  /\ [r EXCEPT !.i = n] \in Request
         /\ LocalOK([r EXCEPT !.i = n])
         /\ [r EXCEPT !.pc = "register.join", !.i = n] \in Request
         /\ LocalOK([r EXCEPT !.pc = "register.join", !.i = n])
<1>1. Len(r.team) \in Nat
  BY TeamType, NumberAssumption DEF LocalOK
<1>2. n \in Nat
  BY <1>1
<1>3. [r EXCEPT !.i = n] \in Request /\ [r EXCEPT !.pc = "register.join", !.i = n] \in Request
  BY <1>2 DEF Request, Labels
<1>4. LocalOK([r EXCEPT !.i = n])
  BY DEF Request, LocalOK, RegisterLabels, UserLabels
<1>5. LocalOK([r EXCEPT !.pc = "register.join", !.i = n])
  BY DEF Request, LocalOK, RegisterLabels, UserLabels, Labels
<1> QED BY <1>3, <1>4, <1>5

\* A step that changes one request, to a well-formed one, keeps all of them so.
LEMMA RequestStep ==
  ASSUME TypeInv, NEW s \in Slots, NEW r \in Request, LocalOK(r),
         request' = [request EXCEPT ![s] = r]
  PROVE  /\ request' \in [Slots -> Request]
         /\ \A t \in Slots : LocalOK(request'[t])
BY DEF TypeInv, TypeOK

LEMMA EndStep ==
  ASSUME TypeInv, NEW s \in Slots, End(s)
  PROVE  /\ request' \in [Slots -> Request]
         /\ \A t \in Slots : LocalOK(request'[t])
         /\ served' \in Nat
BY IdleOK, RequestStep DEF End, TypeInv, TypeOK

LEMMA GotoStep ==
  ASSUME TypeInv, NEW s \in Slots, NEW l \in Labels, Goto(s, l),
         LocalOK([request[s] EXCEPT !.pc = l])
  PROVE  /\ request' \in [Slots -> Request]
         /\ \A t \in Slots : LocalOK(request'[t])
         /\ served' \in Nat
<1> DEFINE r == [request[s] EXCEPT !.pc = l]
<1>1. r \in Request
  BY DEF TypeInv, TypeOK, Request
<1>2. request' = [request EXCEPT ![s] = r]
  BY DEF Goto, TypeInv, TypeOK
<1>3. served' \in Nat
  BY DEF Goto, TypeInv, TypeOK
<1> HIDE DEF r
<1>4. LocalOK(r)
  BY DEF r
<1> QED BY <1>1, <1>2, <1>3, <1>4, RequestStep

\* What an action writes besides the request is of the right type, action by
\* action; the request itself is covered by the three lemmas above.
LEMMA RegistrationsType ==
  ASSUME TypeInv, NEW s \in Slots, RegistrationsStep(s)
  PROVE  TypeInv'
<1> USE DEF At, TypeInv, TypeOK, tables
<1> DEFINE L(l) == [request[s] EXCEPT !.pc = l]
<1>0. request[s] \in Request /\ LocalOK(request[s])
  OBVIOUS
<1>1. CASE RegisterCapacity(s)
  <2>1. LocalOK(L("register.existing"))
    BY <1>0, <1>1 DEF RegisterCapacity, Request, LocalOK, RegisterLabels, UserLabels, Labels
  <2> QED BY <1>1, <2>1, EndStep, GotoStep DEF RegisterCapacity, Throw, Labels
<1>2. CASE RegisterExisting(s)
  <2>1. LocalOK(L("register.teammates"))
    BY <1>0, <1>2 DEF RegisterExisting, Request, LocalOK, RegisterLabels, UserLabels, Labels
  <2> QED BY <1>2, <2>1, EndStep, GotoStep DEF RegisterExisting, Throw, Labels
<1>3. CASE RegisterTeammates(s)
  <2>1. LocalOK(L("register.create"))
    BY <1>0, <1>3 DEF RegisterTeammates, Request, LocalOK, RegisterLabels, UserLabels, Labels
  <2> QED BY <1>3, <2>1, EndStep, GotoStep DEF RegisterTeammates, Throw, Labels
<1>4. CASE RegisterCreate(s)
  <2> DEFINE r == request[s]
             u == r.team[r.i]
  <2>1. r.team \in Teams /\ r.i \in 1..Len(r.team)
    BY <1>4 DEF RegisterCreate, LocalOK, RegisterLabels
  <2>2. u \in Users /\ Len(r.team) \in Nat
    BY <2>1, TeamType, NumberAssumption
  <2>3. CASE Registered(u)
    BY <1>4, <2>3, EndStep DEF RegisterCreate, Throw
  <2>4. CASE ~Registered(u)
    <3> DEFINE q == IF r.i = Len(r.team)
                      THEN [r EXCEPT !.pc = "register.join", !.i = 1]
                      ELSE [r EXCEPT !.i = @ + 1]
    <3>1. q \in Request /\ LocalOK(q)
      <4>1. CASE r.i = Len(r.team)
        <5>1. 1 \in 1..Len(r.team)
          BY <2>1, <2>2
        <5> QED BY <1>0, <1>4, <4>1, <5>1, LoopOK DEF RegisterCreate, RegisterLabels
      <4>2. CASE r.i # Len(r.team)
        <5>1. r.i + 1 \in 1..Len(r.team)
          BY <2>1, <2>2, <4>2
        <5> QED BY <1>0, <1>4, <4>2, <5>1, LoopOK DEF RegisterCreate, RegisterLabels
      <4> QED BY <4>1, <4>2
    <3>2. request' = [request EXCEPT ![s] = q]
      BY <1>4, <2>4 DEF RegisterCreate
    <3>3. request' \in [Slots -> Request] /\ \A t \in Slots : LocalOK(request'[t])
      BY <3>1, <3>2, RequestStep
    <3>4. registration' \in [Users -> Registration]
      <4>1. [status |-> "APPROVED", row |-> r.row] \in Registration
        BY <1>0, <1>4 DEF RegisterCreate, LocalOK, RegisterLabels, Registration, RegistrationStatus, Active, Request
      <4> QED BY <1>4, <2>2, <2>4, <4>1 DEF RegisterCreate
    <3> QED BY <1>4, <2>4, <3>3, <3>4 DEF RegisterCreate
  <2> QED BY <2>3, <2>4
<1>5. CASE RegisterJoin(s)
  <2> DEFINE r == request[s]
             u == r.team[r.i]
  <2>1. r.team \in Teams /\ r.i \in 1..Len(r.team)
    BY <1>5 DEF RegisterJoin, LocalOK, RegisterLabels
  <2>2. u \in Users /\ Len(r.team) \in Nat
    BY <2>1, TeamType, NumberAssumption
  <2>3. member' \in [Users -> {"ADMIN", "MEMBER", "NONE"}]
    BY <1>5, <2>2 DEF RegisterJoin, JoinAsMember
  <2>4. CASE r.i = Len(r.team)
    BY <1>5, <2>3, <2>4, EndStep DEF RegisterJoin
  <2>5. CASE r.i # Len(r.team)
    <3> DEFINE q == [r EXCEPT !.i = @ + 1]
    <3>1. q \in Request /\ LocalOK(q)
      <4>1. r.i + 1 \in 1..Len(r.team)
        BY <2>1, <2>2, <2>5
      <4> QED BY <1>0, <1>5, <4>1, LoopOK DEF RegisterJoin, RegisterLabels
    <3>2. request' = [request EXCEPT ![s] = q]
      BY <1>5, <2>5 DEF RegisterJoin
    <3>3. request' \in [Slots -> Request] /\ \A t \in Slots : LocalOK(request'[t])
      BY <3>1, <3>2, RequestStep
    <3> QED BY <1>5, <2>3, <2>5, <3>3 DEF RegisterJoin
  <2> QED BY <2>4, <2>5
<1>6. CASE UpdateStatusWrite(s)
  <2>1. LocalOK(L("status.organizer")) /\ request[s].user \in Users
        /\ request[s].seen \in RegistrationStatus
    BY <1>0, <1>6, StatusAssumption
    DEF UpdateStatusWrite, Request, LocalOK, RegisterLabels, UserLabels, Labels
  <2>2. registration' \in [Users -> Registration]
    BY <1>0, <1>6, <2>1
    DEF UpdateStatusWrite, Throw, Registration, Registered, NoRow
  <2> QED BY <1>6, <2>1, <2>2, EndStep, GotoStep DEF UpdateStatusWrite, Throw, Labels
<1>7. CASE UpdateStatusOrganizer(s)
  <2>1. LocalOK(L("status.leave"))
    BY <1>0, <1>7 DEF UpdateStatusOrganizer, Request, LocalOK, RegisterLabels, UserLabels, Labels
  <2> QED BY <1>7, <2>1, EndStep, GotoStep DEF UpdateStatusOrganizer, Throw, Labels
<1>8. CASE UpdateStatusLeave(s)
  BY <1>8, EndStep DEF UpdateStatusLeave, LeaveChat
<1>9. CASE ApproveAllWrite(s)
  <2>1. registration' \in [Users -> Registration]
    BY <1>9 DEF ApproveAllWrite, Registration, RegistrationStatus, Active, NoRow
  <2> QED BY <1>9, <2>1, EndStep DEF ApproveAllWrite
<1>10. CASE RemoveDelete(s)
  <2>1. LocalOK(L("remove.leave"))
    BY <1>0, <1>10 DEF RemoveDelete, Request, LocalOK, RegisterLabels, UserLabels, Labels
  <2>2. registration' \in [Users -> Registration]
    BY <1>10 DEF RemoveDelete, Throw, Registration
  <2> QED BY <1>10, <2>1, <2>2, EndStep, GotoStep DEF RemoveDelete, Throw, Labels
<1>11. CASE RemoveLeave(s)
  BY <1>11, EndStep DEF RemoveLeave, LeaveChat
<1> QED
  BY <1>1, <1>2, <1>3, <1>4, <1>5, <1>6, <1>7, <1>8, <1>9, <1>10, <1>11 DEF RegistrationsStep

LEMMA AttendanceType ==
  ASSUME TypeInv, NEW s \in Slots, AttendanceStep(s)
  PROVE  TypeInv'
<1> USE DEF At, TypeInv, TypeOK, tables
<1> DEFINE L(l) == [request[s] EXCEPT !.pc = l]
<1>0. request[s] \in Request /\ LocalOK(request[s])
  OBVIOUS
<1>1. CASE CheckInRead(s)
  <2> DEFINE row == registration[request[s].user]
             q == [request[s] EXCEPT !.pc = "checkin.record", !.row = row.row,
                                     !.seen = row.status]
  <2>1. CASE row.status \notin {"APPROVED", "COMPLETED", "CHECKED_IN"}
    BY <1>1, <2>1, EndStep DEF CheckInRead, Throw
  <2>2. CASE row.status \in {"APPROVED", "COMPLETED", "CHECKED_IN"}
    <3>1. request[s].user \in Users
      BY <1>1 DEF CheckInRead, LocalOK, UserLabels, Labels
    <3>2. row.row \in Nat /\ row.status \in RegistrationStatus
      BY <2>2, <3>1 DEF Registration, NoRow
    <3>3. q \in Request /\ LocalOK(q)
      BY <1>0, <3>1, <3>2 DEF Request, LocalOK, RegisterLabels, UserLabels, Labels
    <3>4. request' = [request EXCEPT ![s] = q]
      BY <1>1, <2>2 DEF CheckInRead
    <3>5. request' \in [Slots -> Request] /\ \A t \in Slots : LocalOK(request'[t])
      BY <3>3, <3>4, RequestStep
    <3> QED BY <1>1, <2>2, <3>5 DEF CheckInRead
  <2> QED BY <2>1, <2>2
<1>2. CASE CheckInRecord(s)
  <2>1. LocalOK(L("checkin.mark")) /\ request[s].user \in Users
    BY <1>0, <1>2 DEF CheckInRecord, Request, LocalOK, RegisterLabels, UserLabels, Labels
  <2>2. CASE request[s].user \in attendance
    BY <1>2, <2>2, EndStep DEF CheckInRecord, Throw
  <2>3. CASE request[s].user \notin attendance /\ request[s].seen = "APPROVED"
    BY <1>2, <2>1, <2>3, GotoStep DEF CheckInRecord, Labels
  <2>4. CASE request[s].user \notin attendance /\ request[s].seen # "APPROVED"
    BY <1>2, <2>1, <2>4, EndStep DEF CheckInRecord
  <2> QED BY <2>2, <2>3, <2>4
<1>3. CASE CheckInMark(s)
  <2>1. registration' \in [Users -> Registration]
    BY <1>3 DEF CheckInMark, Throw, Registration, RegistrationStatus, Active, Registered, NoRow
  <2> QED BY <1>3, <2>1, EndStep DEF CheckInMark, Throw
<1> QED BY <1>1, <1>2, <1>3 DEF AttendanceStep

LEMMA OrganizersType ==
  ASSUME TypeInv, NEW s \in Slots, OrganizersStep(s)
  PROVE  TypeInv'
<1> USE DEF At, TypeInv, TypeOK, tables
<1> DEFINE L(l) == [request[s] EXCEPT !.pc = l]
<1>0. request[s] \in Request /\ LocalOK(request[s])
  OBVIOUS
<1>1. CASE EventStatusWrite(s)
  <2>1. request[s].seen \in EventStatus
    BY <1>1 DEF EventStatusWrite, LocalOK
  <2> QED BY <1>1, <2>1, EndStep DEF EventStatusWrite
<1>2. CASE EventDeleteWrite(s)
  BY <1>2, EndStep DEF EventDeleteWrite, EventStatus
<1>3. CASE AddOrganizerCreate(s)
  <2>1. LocalOK(L("organizer.promote")) /\ request[s].user \in Users
        /\ request[s].seen \in OrganizerRole
    BY <1>0, <1>3 DEF AddOrganizerCreate, Request, LocalOK, RegisterLabels, UserLabels, Labels
  <2>2. CASE request[s].user \in Organizers
    BY <1>3, <2>2, EndStep DEF AddOrganizerCreate, Throw
  <2>3. CASE request[s].user \notin Organizers
    BY <1>3, <2>1, <2>3, GotoStep DEF AddOrganizerCreate, Labels
  <2> QED BY <2>2, <2>3
<1>4. CASE AddOrganizerPromote(s)
  BY <1>4, EndStep DEF AddOrganizerPromote, JoinAsAdmin
<1>5. CASE RemoveOrganizerCount(s)
  <2>1. LocalOK(L("organizer.delete"))
    BY <1>0, <1>5 DEF RemoveOrganizerCount, Request, LocalOK, RegisterLabels, UserLabels, Labels
  <2> QED BY <1>5, <2>1, EndStep, GotoStep DEF RemoveOrganizerCount, Throw, Labels
<1>6. CASE RemoveOrganizerDelete(s)
  <2>1. LocalOK(L("organizer.participant"))
    BY <1>0, <1>6 DEF RemoveOrganizerDelete, Request, LocalOK, RegisterLabels, UserLabels, Labels
  <2>2. CASE request[s].user \notin Organizers
    BY <1>6, <2>2, EndStep DEF RemoveOrganizerDelete, Throw
  <2>3. CASE request[s].user \in Organizers
    BY <1>6, <2>1, <2>3, GotoStep DEF RemoveOrganizerDelete, Labels
  <2> QED BY <2>2, <2>3
<1>7. CASE RemoveOrganizerParticipant(s)
  <2>1. LocalOK(L("organizer.demote")) /\ LocalOK(L("organizer.leave"))
    BY <1>0, <1>7 DEF RemoveOrganizerParticipant, Request, LocalOK, RegisterLabels, UserLabels, Labels
  <2> QED BY <1>7, <2>1, GotoStep DEF RemoveOrganizerParticipant, Labels
<1>8. CASE RemoveOrganizerDemote(s)
  BY <1>8, EndStep DEF RemoveOrganizerDemote
<1>9. CASE RemoveOrganizerLeave(s)
  BY <1>9, EndStep DEF RemoveOrganizerLeave, LeaveChat
<1> QED
  BY <1>1, <1>2, <1>3, <1>4, <1>5, <1>6, <1>7, <1>8, <1>9 DEF OrganizersStep

LEMMA EventChatType ==
  ASSUME TypeInv, NEW s \in Slots, EventChatStep(s)
  PROVE  TypeInv'
<1> USE DEF At, TypeInv, TypeOK, tables
<1> DEFINE r == request[s]
<1>0. r \in Request /\ LocalOK(r)
  OBVIOUS
<1>1. CASE KickLeave(s)
  <2>1. LocalOK([r EXCEPT !.pc = "kick.cancel"])
    BY <1>0, <1>1 DEF KickLeave, Request, LocalOK, RegisterLabels, UserLabels, Labels
  <2>2. member' \in [Users -> {"ADMIN", "MEMBER", "NONE"}]
    BY <1>1 DEF KickLeave, LeaveChat
  <2> QED BY <1>1, <2>1, <2>2, GotoStep DEF KickLeave, Labels
<1>2. CASE KickCancel(s)
  <2>1. CASE Registered(r.user)
    <3>1. [registration[r.user] EXCEPT !.status = "CANCELLED"] \in Registration
      BY <1>0, <1>2, <2>1 DEF KickCancel, LocalOK, UserLabels, Labels, Registered,
                              Registration, RegistrationStatus, Inactive
    <3>2. registration' \in [Users -> Registration]
      BY <1>2, <2>1, <3>1 DEF KickCancel
    <3> QED BY <1>2, <3>2, EndStep DEF KickCancel
  <2>2. CASE ~Registered(r.user)
    BY <1>2, <2>2, EndStep DEF KickCancel
  <2> QED BY <2>1, <2>2
<1>3. CASE SyncAdmin(s)
  <2>1. PICK u \in r.admins : /\ JoinAsAdmin(u)
                              /\ request' = [request EXCEPT ![s].admins = @ \ {u}]
    BY <1>3 DEF SyncAdmin
  <2> DEFINE q == [r EXCEPT !.admins = @ \ {u}]
  <2>2. q \in Request /\ LocalOK(q)
    BY <1>0, <1>3 DEF SyncAdmin, Request, LocalOK, RegisterLabels, UserLabels, Labels
  <2>3. request' = [request EXCEPT ![s] = q]
    BY <2>1
  <2>4. request' \in [Slots -> Request] /\ \A t \in Slots : LocalOK(request'[t])
    BY <2>2, <2>3, RequestStep
  <2>5. member' \in [Users -> {"ADMIN", "MEMBER", "NONE"}]
    BY <2>1 DEF JoinAsAdmin
  <2> QED BY <1>3, <2>4, <2>5 DEF SyncAdmin
<1>4. CASE SyncMember(s)
  <2>1. PICK u \in r.joins : /\ JoinAsMember(u)
                             /\ request' = [request EXCEPT ![s].joins = @ \ {u}]
    BY <1>4 DEF SyncMember
  <2> DEFINE q == [r EXCEPT !.joins = @ \ {u}]
  <2>2. q \in Request /\ LocalOK(q)
    BY <1>0, <1>4 DEF SyncMember, Request, LocalOK, RegisterLabels, UserLabels, Labels
  <2>3. request' = [request EXCEPT ![s] = q]
    BY <2>1
  <2>4. request' \in [Slots -> Request] /\ \A t \in Slots : LocalOK(request'[t])
    BY <2>2, <2>3, RequestStep
  <2>5. member' \in [Users -> {"ADMIN", "MEMBER", "NONE"}]
    BY <2>1 DEF JoinAsMember
  <2> QED BY <1>4, <2>4, <2>5 DEF SyncMember
<1>5. CASE SyncEnd(s)
  BY <1>5, EndStep DEF SyncEnd
<1> QED BY <1>1, <1>2, <1>3, <1>4, <1>5 DEF EventChatStep

\* The first request of a handler has the locals its first statement needs.
LEMMA BeginStep ==
  ASSUME TypeInv, NEW s \in Slots, NEW op, NEW r \in Request, LocalOK(r),
         Begin(op, s, r), UNCHANGED tables
  PROVE  TypeInv'
<1>1. request' \in [Slots -> Request] /\ \A t \in Slots : LocalOK(request'[t])
  BY RequestStep DEF Begin
<1> QED BY <1>1 DEF Begin, TypeInv, TypeOK, tables

LEMMA RegisterRequestOK ==
  ASSUME NEW team \in Teams, NEW n \in Nat \ {0}, NEW u \in Users
  PROVE  /\ [Idle EXCEPT !.pc = "register.capacity", !.row = n,
                         !.user = u, !.team = team] \in Request
         /\ LocalOK([Idle EXCEPT !.pc = "register.capacity", !.row = n,
                                 !.user = u, !.team = team])
<1>1. team \in Seq(Users) /\ 1 \in 1..Len(team)
  BY TeamType, NumberAssumption
<1> DEFINE r == [Idle EXCEPT !.pc = "register.capacity", !.row = n, !.user = u, !.team = team]
<1>2. r \in Request
  BY <1>1, IdleOK DEF Request, Labels
<1>3. r.pc = "register.capacity" /\ r.team = team /\ r.i = 1 /\ r.row = n /\ r.user = u
  BY IdleOK DEF Request
<1> HIDE DEF r
<1>4. LocalOK(r)
  BY <1>1, <1>3 DEF LocalOK
<1> QED BY <1>2, <1>4 DEF r

LEMMA ArriveType ==
  ASSUME TypeInv, NEW s \in Slots, Arrive(s)
  PROVE  TypeInv'
<1> USE DEF TypeInv, TypeOK
<1> DEFINE OK(r) == r \in Request /\ LocalOK(r)
<1>1. ASSUME NEW team \in Teams, RegisterBegin(s, team)
      PROVE  TypeInv'
  <2>1. team[1] \in Users /\ served + 1 \in Nat \ {0}
    BY TeamType, NumberAssumption
  <2> DEFINE r == [Idle EXCEPT !.pc = "register.capacity", !.row = served + 1,
                               !.user = team[1], !.team = team]
  <2>2. r \in Request /\ LocalOK(r)
    BY <2>1, RegisterRequestOK
  <2>3. Begin("register", s, r) /\ UNCHANGED tables
    BY <1>1 DEF RegisterBegin
  <2> HIDE DEF r
  <2> QED BY <2>2, <2>3, BeginStep
<1>2. ASSUME NEW u \in Users, NEW status \in StaffStatuses, UpdateStatusBegin(s, u, status)
      PROVE  TypeInv'
  <2> DEFINE r == [Idle EXCEPT !.pc = "status.write", !.row = registration[u].row,
                               !.user = u, !.seen = status]
  <2>1. registration[u].row \in Nat /\ status \in RegistrationStatus
    BY StatusAssumption DEF Registration, NoRow
  <2>2. OK(r)
    <3>1. r \in Request
      BY <2>1, IdleOK DEF Request, Labels
    <3>2. LocalOK(r)
      BY <2>1, IdleOK DEF Request, LocalOK, RegisterLabels, UserLabels, Labels
    <3> QED BY <3>1, <3>2
  <2> QED BY <1>2, <2>2, BeginStep DEF UpdateStatusBegin
<1>3. CASE ApproveAllBegin(s)
  <2>1. OK([Idle EXCEPT !.pc = "approve.write"])
    <3>1. [Idle EXCEPT !.pc = "approve.write"] \in Request
      BY IdleOK DEF Request, Labels
    <3>2. LocalOK([Idle EXCEPT !.pc = "approve.write"])
      BY IdleOK DEF Request, LocalOK, RegisterLabels, UserLabels, Labels
    <3> QED BY <3>1, <3>2
  <2> QED BY <1>3, <2>1, BeginStep DEF ApproveAllBegin
<1>4. ASSUME NEW u \in Users, RemoveBegin(s, u)
      PROVE  TypeInv'
  <2> DEFINE r == [Idle EXCEPT !.pc = "remove.delete", !.row = registration[u].row, !.user = u]
  <2>1. registration[u].row \in Nat
    <3>1. registration[u] \in Registration
      OBVIOUS
    <3> QED BY <3>1 DEF Registration, NoRow
  <2>2. OK(r)
    <3>1. r \in Request
      BY <2>1, IdleOK DEF Request, Labels
    <3>2. LocalOK(r)
      BY <2>1, IdleOK DEF Request, LocalOK, RegisterLabels, UserLabels, Labels
    <3> QED BY <3>1, <3>2
  <2> QED BY <1>4, <2>2, BeginStep DEF RemoveBegin
<1>5. ASSUME NEW u \in Users, CheckInBegin(s, u)
      PROVE  TypeInv'
  <2>1. OK([Idle EXCEPT !.pc = "checkin.read", !.user = u])
    <3>1. [Idle EXCEPT !.pc = "checkin.read", !.user = u] \in Request
      BY IdleOK DEF Request, Labels
    <3>2. LocalOK([Idle EXCEPT !.pc = "checkin.read", !.user = u])
      BY IdleOK DEF Request, LocalOK, RegisterLabels, UserLabels, Labels
    <3> QED BY <3>1, <3>2
  <2> QED BY <1>5, <2>1, BeginStep DEF CheckInBegin
<1>6. ASSUME NEW status \in EventStatus, EventStatusBegin(s, status)
      PROVE  TypeInv'
  <2>1. OK([Idle EXCEPT !.pc = "event.status", !.seen = status])
    <3>1. [Idle EXCEPT !.pc = "event.status", !.seen = status] \in Request
      BY IdleOK DEF Request, Labels
    <3>2. LocalOK([Idle EXCEPT !.pc = "event.status", !.seen = status])
      BY IdleOK DEF Request, LocalOK, RegisterLabels, UserLabels, Labels
    <3> QED BY <3>1, <3>2
  <2> QED BY <1>6, <2>1, BeginStep DEF EventStatusBegin
<1>7. CASE EventDeleteBegin(s)
  <2>1. OK([Idle EXCEPT !.pc = "event.delete"])
    <3>1. [Idle EXCEPT !.pc = "event.delete"] \in Request
      BY IdleOK DEF Request, Labels
    <3>2. LocalOK([Idle EXCEPT !.pc = "event.delete"])
      BY IdleOK DEF Request, LocalOK, RegisterLabels, UserLabels, Labels
    <3> QED BY <3>1, <3>2
  <2> QED BY <1>7, <2>1, BeginStep DEF EventDeleteBegin
<1>8. ASSUME NEW u \in Users, NEW role \in OrganizerRole, AddOrganizerBegin(s, u, role)
      PROVE  TypeInv'
  <2>1. OK([Idle EXCEPT !.pc = "organizer.create", !.user = u, !.seen = role])
    <3>1. [Idle EXCEPT !.pc = "organizer.create", !.user = u, !.seen = role] \in Request
      BY IdleOK DEF Request, Labels
    <3>2. LocalOK([Idle EXCEPT !.pc = "organizer.create", !.user = u, !.seen = role])
      BY IdleOK DEF Request, LocalOK, RegisterLabels, UserLabels, Labels
    <3> QED BY <3>1, <3>2
  <2> QED BY <1>8, <2>1, BeginStep DEF AddOrganizerBegin
<1>9. ASSUME NEW u \in Users, RemoveOrganizerBegin(s, u)
      PROVE  TypeInv'
  <2> DEFINE l == IF organizer[u] = "PRIMARY" THEN "organizer.count" ELSE "organizer.delete"
  <2>1. organizer[u] \in OrganizerRole \cup {"NONE"} /\ l \in {"organizer.count", "organizer.delete"}
    OBVIOUS
  <2> HIDE DEF l
  <2>2. OK([Idle EXCEPT !.pc = l, !.user = u, !.seen = organizer[u]])
    <3>1. [Idle EXCEPT !.pc = l, !.user = u, !.seen = organizer[u]] \in Request
      BY <2>1, IdleOK DEF Request, Labels
    <3>2. LocalOK([Idle EXCEPT !.pc = l, !.user = u, !.seen = organizer[u]])
      BY <2>1, IdleOK DEF Request, LocalOK, RegisterLabels, UserLabels, Labels
    <3> QED BY <3>1, <3>2
  <2> QED BY <1>9, <2>2, BeginStep DEF RemoveOrganizerBegin, l
<1>10. ASSUME NEW u \in Users, KickBegin(s, u)
       PROVE  TypeInv'
  <2>1. OK([Idle EXCEPT !.pc = "kick.leave", !.user = u])
    <3>1. [Idle EXCEPT !.pc = "kick.leave", !.user = u] \in Request
      BY IdleOK DEF Request, Labels
    <3>2. LocalOK([Idle EXCEPT !.pc = "kick.leave", !.user = u])
      BY IdleOK DEF Request, LocalOK, RegisterLabels, UserLabels, Labels
    <3> QED BY <3>1, <3>2
  <2> QED BY <1>10, <2>1, BeginStep DEF KickBegin
<1>11. CASE SyncBegin(s)
  <2> DEFINE joins == {u \in Users : /\ Registered(u)
                                     /\ registration[u].status # "CANCELLED"}
  <2>1. OK([Idle EXCEPT !.pc = "sync.join", !.admins = Organizers, !.joins = joins])
    <3>1. [Idle EXCEPT !.pc = "sync.join", !.admins = Organizers, !.joins = joins] \in Request
      BY IdleOK DEF Request, Labels, Organizers
    <3>2. LocalOK([Idle EXCEPT !.pc = "sync.join", !.admins = Organizers, !.joins = joins])
      BY IdleOK DEF Request, LocalOK, RegisterLabels, UserLabels, Labels
    <3> QED BY <3>1, <3>2
  <2> QED BY <1>11, <2>1, BeginStep DEF SyncBegin
<1> QED
  BY <1>1, <1>2, <1>3, <1>4, <1>5, <1>6, <1>7, <1>8, <1>9, <1>10, <1>11
  DEF Arrive, RegistrationsBegin, AttendanceBegin, OrganizersBegin, EventChatBegin

LEMMA InitType == Init => TypeInv
BY IdleOK, UsersAssumption
DEF Init, TypeInv, TypeOK, EventStatus, OrganizerRole, Registration

LEMMA NextType == TypeInv /\ [Next]_vars => TypeInv'
<1> SUFFICES ASSUME TypeInv, [Next]_vars
             PROVE  TypeInv'
  OBVIOUS
<1>1. CASE UNCHANGED vars
  BY <1>1 DEF vars, TypeInv, TypeOK
<1>2. ASSUME NEW s \in Slots, Arrive(s) \/ Step(s) \/ Fail(s)
      PROVE  TypeInv'
  <2>1. CASE Fail(s)
    BY <2>1, EndStep DEF Fail, Throw, tables, TypeInv, TypeOK
  <2> QED
    BY <1>2, <2>1, ArriveType, RegistrationsType, AttendanceType, OrganizersType,
       EventChatType DEF Step
<1> QED BY <1>1, <1>2 DEF Next

LEMMA AlwaysTypeInv == Spec => []TypeInv
BY InitType, NextType, PTL DEF Spec

\* The tables and the requests in flight always have their types.
THEOREM TypeCorrect == Spec => []TypeOK
BY AlwaysTypeInv, PTL DEF TypeInv

-----------------------------------------------------------------------------
(***************************************************************************)
(* Who writes what.                                                        *)
(***************************************************************************)
\* Requests that begin, fail, or run organizers and events leave the
\* registrations alone; the writers are the six statements below.
RegistrationWrite(s) ==
  \/ RegisterCreate(s) \/ UpdateStatusWrite(s) \/ ApproveAllWrite(s)
  \/ RemoveDelete(s) \/ CheckInMark(s) \/ KickCancel(s)

LEMMA ArriveWrites ==
  ASSUME NEW s \in Slots, Arrive(s)
  PROVE  UNCHANGED tables
BY DEF Arrive, RegistrationsBegin, AttendanceBegin, OrganizersBegin, EventChatBegin,
       RegisterBegin, UpdateStatusBegin, ApproveAllBegin, RemoveBegin, CheckInBegin,
       EventStatusBegin, EventDeleteBegin, AddOrganizerBegin, RemoveOrganizerBegin,
       KickBegin, SyncBegin

LEMMA RegistrationWriters ==
  ASSUME NEW s \in Slots, Arrive(s) \/ Step(s) \/ Fail(s)
  PROVE  UNCHANGED registration \/ RegistrationWrite(s)
<1> USE DEF RegistrationWrite, tables, Throw
<1>1. CASE Arrive(s)
  BY <1>1, ArriveWrites
<1>2. CASE Fail(s)
  BY <1>2 DEF Fail
<1>3. CASE RegistrationsStep(s)
  BY <1>3 DEF RegistrationsStep, RegisterCapacity, RegisterExisting, RegisterTeammates,
              RegisterJoin, UpdateStatusOrganizer, UpdateStatusLeave, RemoveLeave
<1>4. CASE AttendanceStep(s)
  BY <1>4 DEF AttendanceStep, CheckInRead, CheckInRecord
<1>5. CASE OrganizersStep(s)
  BY <1>5 DEF OrganizersStep, EventStatusWrite, EventDeleteWrite, AddOrganizerCreate,
              AddOrganizerPromote, RemoveOrganizerCount, RemoveOrganizerDelete,
              RemoveOrganizerParticipant, RemoveOrganizerDemote, RemoveOrganizerLeave
<1>6. CASE EventChatStep(s)
  BY <1>6 DEF EventChatStep, KickLeave, SyncAdmin, SyncMember, SyncEnd
<1> QED BY <1>1, <1>2, <1>3, <1>4, <1>5, <1>6 DEF Step

LEMMA AttendanceWriter ==
  ASSUME NEW s \in Slots, Arrive(s) \/ Step(s) \/ Fail(s), ~CheckInRecord(s)
  PROVE  UNCHANGED attendance
<1> USE DEF tables, Throw
<1>1. CASE Arrive(s)
  BY <1>1, ArriveWrites
<1>2. CASE Fail(s)
  BY <1>2 DEF Fail
<1>3. CASE RegistrationsStep(s)
  BY <1>3 DEF RegistrationsStep, RegisterCapacity, RegisterExisting, RegisterTeammates,
              RegisterCreate, RegisterJoin, UpdateStatusWrite, UpdateStatusOrganizer,
              UpdateStatusLeave, ApproveAllWrite, RemoveDelete, RemoveLeave
<1>4. CASE AttendanceStep(s)
  BY <1>4 DEF AttendanceStep, CheckInRead, CheckInMark
<1>5. CASE OrganizersStep(s)
  BY <1>5 DEF OrganizersStep, EventStatusWrite, EventDeleteWrite, AddOrganizerCreate,
              AddOrganizerPromote, RemoveOrganizerCount, RemoveOrganizerDelete,
              RemoveOrganizerParticipant, RemoveOrganizerDemote, RemoveOrganizerLeave
<1>6. CASE EventChatStep(s)
  BY <1>6 DEF EventChatStep, KickLeave, KickCancel, SyncAdmin, SyncMember, SyncEnd
<1> QED BY <1>1, <1>2, <1>3, <1>4, <1>5, <1>6 DEF Step

-----------------------------------------------------------------------------
(***************************************************************************)
(* Who goes where.                                                         *)
(***************************************************************************)
CheckInLabels == {"checkin.read", "checkin.record", "checkin.mark"}

AdmittedStep(s) == \/ RegisterCapacity(s) \/ RegisterExisting(s)
                   \/ RegisterTeammates(s) \/ RegisterCreate(s)

\* A step moves one request; the statements between the capacity check and
\* the last insert, and those of check-in, are reached only from their own.
Follows(s) ==
  /\ \A t \in Slots \ {s} : request'[t] = request[t]
  /\ request'[s].pc \in Admitted => AdmittedStep(s)
  /\ request'[s].pc = "checkin.record" => CheckInRead(s)
  /\ request'[s].pc = "checkin.mark" => CheckInRecord(s)

LEMMA FollowsStep ==
  ASSUME TypeInv, NEW s \in Slots, Arrive(s) \/ Step(s) \/ Fail(s)
  PROVE  Follows(s)
<1> USE DEF TypeInv, TypeOK, Follows, At
<1>1. ASSUME NEW r, request' = [request EXCEPT ![s] = r],
             \/ r.pc \notin Admitted \cup CheckInLabels
             \/ AdmittedStep(s) /\ r.pc \notin CheckInLabels
             \/ r.pc = "checkin.read"
             \/ CheckInRead(s) /\ r.pc = "checkin.record"
             \/ CheckInRecord(s) /\ r.pc = "checkin.mark"
      PROVE  Follows(s)
  BY <1>1 DEF Admitted, CheckInLabels, CheckInRecord
<1>2. ASSUME End(s)
      PROVE  Follows(s)
  BY <1>1, <1>2 DEF End, Idle, Admitted, CheckInLabels
<1>3. ASSUME NEW l, Goto(s, l),
             \/ l \notin Admitted \cup CheckInLabels
             \/ AdmittedStep(s) /\ l \notin CheckInLabels
             \/ CheckInRecord(s) /\ l = "checkin.mark"
      PROVE  Follows(s)
  <2> DEFINE q == [request[s] EXCEPT !.pc = l]
  <2>1. q.pc = l /\ request' = [request EXCEPT ![s] = q]
    BY <1>3 DEF Goto, Request
  <2> HIDE DEF q
  <2> QED BY <1>1, <1>3, <2>1
<1>4. ASSUME NEW op, NEW r, Begin(op, s, r),
             \/ r.pc \notin Admitted \cup CheckInLabels
             \/ r.pc = "checkin.read"
      PROVE  Follows(s)
  BY <1>1, <1>4 DEF Begin
<1>5. CASE Arrive(s)
  <2>1. Idle \in Request
    BY IdleOK
  <2> QED BY <1>4, <1>5, <2>1
       DEF Arrive, RegistrationsBegin, AttendanceBegin, OrganizersBegin, EventChatBegin,
           RegisterBegin, UpdateStatusBegin, ApproveAllBegin, RemoveBegin, CheckInBegin,
           EventStatusBegin, EventDeleteBegin, AddOrganizerBegin, RemoveOrganizerBegin,
           KickBegin, SyncBegin, Request, Admitted, CheckInLabels
<1>6. CASE Fail(s)
  BY <1>2, <1>6 DEF Fail, Throw
<1>7. CASE RegistrationsStep(s)
  <2> USE DEF Throw
  <2>1. CASE RegisterCreate(s)
    <3>1. CASE Registered(request[s].team[request[s].i])
      BY <1>2, <2>1, <3>1 DEF RegisterCreate
    <3>2. CASE ~Registered(request[s].team[request[s].i])
      <4> DEFINE q == IF request[s].i = Len(request[s].team)
                        THEN [request[s] EXCEPT !.pc = "register.join", !.i = 1]
                        ELSE [request[s] EXCEPT !.i = @ + 1]
      <4>1. q.pc \notin CheckInLabels /\ AdmittedStep(s)
        BY <2>1 DEF RegisterCreate, Request, CheckInLabels, AdmittedStep
      <4>2. request' = [request EXCEPT ![s] = q]
        BY <2>1, <3>2 DEF RegisterCreate
      <4> HIDE DEF q
      <4> QED BY <1>1, <4>1, <4>2
    <3> QED BY <3>1, <3>2
  <2>2. CASE RegisterJoin(s)
    <3>1. CASE request[s].i = Len(request[s].team)
      BY <1>2, <2>2, <3>1 DEF RegisterJoin
    <3>2. CASE request[s].i # Len(request[s].team)
      <4> DEFINE q == [request[s] EXCEPT !.i = @ + 1]
      <4>1. q.pc \notin Admitted \cup CheckInLabels
        BY <2>2 DEF RegisterJoin, Request, Admitted, CheckInLabels
      <4>2. request' = [request EXCEPT ![s] = q]
        BY <2>2, <3>2 DEF RegisterJoin
      <4> HIDE DEF q
      <4> QED BY <1>1, <4>1, <4>2
    <3> QED BY <3>1, <3>2
  <2>3. CASE \/ RegisterCapacity(s) \/ RegisterExisting(s) \/ RegisterTeammates(s)
    BY <1>2, <1>3, <2>3 DEF RegisterCapacity, RegisterExisting, RegisterTeammates, AdmittedStep, CheckInLabels
  <2>4. CASE \/ UpdateStatusWrite(s) \/ UpdateStatusOrganizer(s) \/ UpdateStatusLeave(s)
    BY <1>2, <1>3, <2>4 DEF UpdateStatusWrite, UpdateStatusOrganizer, UpdateStatusLeave, Admitted, CheckInLabels
  <2>5. CASE \/ ApproveAllWrite(s) \/ RemoveDelete(s) \/ RemoveLeave(s)
    BY <1>2, <1>3, <2>5 DEF ApproveAllWrite, RemoveDelete, RemoveLeave, Admitted, CheckInLabels
  <2> QED BY <1>7, <2>1, <2>2, <2>3, <2>4, <2>5 DEF RegistrationsStep
<1>8. CASE AttendanceStep(s)
  <2> USE DEF Throw
  <2>1. CASE CheckInRead(s)
    <3>1. CASE registration[request[s].user].status \notin {"APPROVED", "COMPLETED", "CHECKED_IN"}
      BY <1>2, <2>1, <3>1 DEF CheckInRead
    <3>2. CASE registration[request[s].user].status \in {"APPROVED", "COMPLETED", "CHECKED_IN"}
      <4> DEFINE q == [request[s] EXCEPT !.pc = "checkin.record",
                                         !.row = registration[request[s].user].row,
                                         !.seen = registration[request[s].user].status]
      <4>1. q.pc = "checkin.record"
        BY DEF Request
      <4>2. request' = [request EXCEPT ![s] = q]
        BY <2>1, <3>2 DEF CheckInRead
      <4> HIDE DEF q
      <4> QED BY <1>1, <2>1, <4>1, <4>2
    <3> QED BY <3>1, <3>2
  <2>2. CASE CheckInRecord(s)
    BY <1>2, <1>3, <2>2 DEF CheckInRecord
  <2>3. CASE CheckInMark(s)
    BY <1>2, <2>3 DEF CheckInMark
  <2> QED BY <1>8, <2>1, <2>2, <2>3 DEF AttendanceStep
<1>9. CASE OrganizersStep(s)
  <2> USE DEF Throw
  <2>1. CASE EventStatusWrite(s) \/ EventDeleteWrite(s)
    BY <1>2, <2>1 DEF EventStatusWrite, EventDeleteWrite
  <2>2. CASE AddOrganizerCreate(s) \/ AddOrganizerPromote(s)
    BY <1>2, <1>3, <2>2 DEF AddOrganizerCreate, AddOrganizerPromote, Admitted, CheckInLabels
  <2>3. CASE RemoveOrganizerCount(s) \/ RemoveOrganizerDelete(s)
             \/ RemoveOrganizerParticipant(s)
    BY <1>2, <1>3, <2>3
    DEF RemoveOrganizerCount, RemoveOrganizerDelete, RemoveOrganizerParticipant,
        Admitted, CheckInLabels
  <2>4. CASE RemoveOrganizerDemote(s) \/ RemoveOrganizerLeave(s)
    BY <1>2, <2>4 DEF RemoveOrganizerDemote, RemoveOrganizerLeave
  <2> QED BY <1>9, <2>1, <2>2, <2>3, <2>4 DEF OrganizersStep
<1>10. CASE EventChatStep(s)
  <2>1. CASE KickLeave(s) \/ KickCancel(s) \/ SyncEnd(s)
    BY <1>2, <1>3, <2>1 DEF KickLeave, KickCancel, SyncEnd, Admitted, CheckInLabels
  <2>2. CASE SyncAdmin(s)
    <3>1. PICK u \in request[s].admins : request' = [request EXCEPT ![s].admins = @ \ {u}]
      BY <2>2 DEF SyncAdmin
    <3> DEFINE q == [request[s] EXCEPT !.admins = @ \ {u}]
    <3>2. q.pc \notin Admitted \cup CheckInLabels
      BY <2>2 DEF SyncAdmin, Request, Admitted, CheckInLabels
    <3>3. request' = [request EXCEPT ![s] = q]
      BY <3>1
    <3> HIDE DEF q
    <3> QED BY <1>1, <3>2, <3>3
  <2>3. CASE SyncMember(s)
    <3>1. PICK u \in request[s].joins : request' = [request EXCEPT ![s].joins = @ \ {u}]
      BY <2>3 DEF SyncMember
    <3> DEFINE q == [request[s] EXCEPT !.joins = @ \ {u}]
    <3>2. q.pc \notin Admitted \cup CheckInLabels
      BY <2>3 DEF SyncMember, Request, Admitted, CheckInLabels
    <3>3. request' = [request EXCEPT ![s] = q]
      BY <3>1
    <3> HIDE DEF q
    <3> QED BY <1>1, <3>2, <3>3
  <2> QED BY <1>10, <2>1, <2>2, <2>3 DEF EventChatStep
<1> QED BY <1>5, <1>6, <1>7, <1>8, <1>9, <1>10 DEF Step

-----------------------------------------------------------------------------
(***************************************************************************)
(* A row is replaced only after it was deleted.                            *)
(***************************************************************************)
LEMMA RowsStep ==
  ASSUME TypeInv, NEW s \in Slots, RegistrationWrite(s), NEW u \in Users,
         Registered(u), Registered(u)'
  PROVE  registration'[u].row = registration[u].row
<1> USE DEF TypeInv, TypeOK, Registered, Throw, tables
<1>0. LocalOK(request[s])
  OBVIOUS
<1>1. CASE RegisterCreate(s)
  BY <1>1 DEF RegisterCreate
<1>2. CASE UpdateStatusWrite(s)
  BY <1>2 DEF UpdateStatusWrite, Registration, NoRow
<1>3. CASE ApproveAllWrite(s)
  BY <1>3 DEF ApproveAllWrite, Registration, NoRow
<1>4. CASE RemoveDelete(s)
  BY <1>4 DEF RemoveDelete
<1>5. CASE CheckInMark(s)
  BY <1>5 DEF CheckInMark, Registration, NoRow
<1>6. CASE KickCancel(s)
  BY <1>6 DEF KickCancel, Registration, NoRow
<1> QED BY <1>1, <1>2, <1>3, <1>4, <1>5, <1>6 DEF RegistrationWrite

\* Whatever registers, decides, checks in or kicks: between two different
\* registrations of a user for the event there is a deletion.
THEOREM RowsKept == Spec => RowsAreReplacedOnlyAfterDeletion
<1>1. TypeInv /\ [Next]_vars =>
        [\A u \in Users : Registered(u) /\ Registered(u)' =>
           registration'[u].row = registration[u].row]_vars
  <2> SUFFICES ASSUME TypeInv, [Next]_vars, NEW u \in Users,
                      Registered(u), Registered(u)'
               PROVE  registration'[u].row = registration[u].row
    OBVIOUS
  <2>1. CASE UNCHANGED vars
    BY <2>1 DEF vars
  <2>2. ASSUME NEW s \in Slots, Arrive(s) \/ Step(s) \/ Fail(s)
        PROVE  registration'[u].row = registration[u].row
    BY <2>2, RegistrationWriters, RowsStep
  <2> QED BY <2>1, <2>2 DEF Next
<1> QED BY <1>1, AlwaysTypeInv, PTL DEF Spec, RowsAreReplacedOnlyAfterDeletion

-----------------------------------------------------------------------------
(***************************************************************************)
(* CHECKED_IN has an attendance row behind it.  The invariant adds the     *)
(* state between the two writes of checkIn: a request about to mark the    *)
(* registration has inserted the attendance.                               *)
(***************************************************************************)
MarksAreRecorded ==
  \A s \in Slots : request[s].pc = "checkin.mark" => request[s].user \in attendance

CheckedInInv == CheckedInHasAttendance /\ MarksAreRecorded

\* Attendance rows are never deleted, and only the insert leads to the mark.
LEMMA MarkStep ==
  ASSUME TypeInv, MarksAreRecorded, NEW s \in Slots, Arrive(s) \/ Step(s) \/ Fail(s)
  PROVE  attendance \subseteq attendance' /\ MarksAreRecorded'
<1> USE DEF TypeInv, TypeOK, MarksAreRecorded
<1>1. Follows(s)
  BY FollowsStep
<1>2. CASE CheckInRecord(s)
  <2>1. CASE request[s].user \in attendance
    BY <1>2, <2>1 DEF CheckInRecord, Throw, tables, End, Idle
  <2>2. CASE request[s].user \notin attendance
    <3>1. attendance' = attendance \cup {request[s].user}
      BY <1>2, <2>2 DEF CheckInRecord
    <3>2. /\ request'[s].pc = "checkin.mark" => request'[s].user = request[s].user
          /\ \A t \in Slots \ {s} : request'[t] = request[t]
      BY <1>2, <2>2 DEF CheckInRecord, Goto, End, Idle, Request
    <3> QED BY <3>1, <3>2
  <2> QED BY <2>1, <2>2
<1>3. CASE ~CheckInRecord(s)
  <2>1. UNCHANGED attendance
    BY <1>3, AttendanceWriter
  <2> QED BY <1>1, <1>3, <2>1 DEF Follows
<1> QED BY <1>2, <1>3

\* A row becomes CHECKED_IN by the mark of checkIn, or by hand.
LEMMA CheckedInWrite ==
  ASSUME TypeInv, CheckedInInv, NEW s \in Slots, RegistrationWrite(s),
         attendance \subseteq attendance'
  PROVE  CheckedInHasAttendance'
<1> USE DEF TypeInv, TypeOK, CheckedInInv, CheckedInHasAttendance, Throw, tables, At
<1>0. LocalOK(request[s])
  OBVIOUS
<1>1. CASE RegisterCreate(s)
  BY <1>1 DEF RegisterCreate
<1>2. CASE UpdateStatusWrite(s)
  <2>1. request[s].seen \in StaffStatuses
    BY <1>0, <1>2 DEF UpdateStatusWrite, LocalOK
  <2>2. \A u \in Users : registration'[u].status \in {registration[u].status, request[s].seen}
    BY <1>2 DEF UpdateStatusWrite, Registration, NoRow
  <2> QED BY <2>1, <2>2
<1>3. CASE ApproveAllWrite(s)
  BY <1>3 DEF ApproveAllWrite, Registration, NoRow
<1>4. CASE RemoveDelete(s)
  BY <1>4 DEF RemoveDelete, NoRow
<1>5. CASE CheckInMark(s)
  BY <1>5 DEF CheckInMark, MarksAreRecorded
<1>6. CASE KickCancel(s)
  BY <1>6 DEF KickCancel
<1> QED BY <1>1, <1>2, <1>3, <1>4, <1>5, <1>6 DEF RegistrationWrite

\* As long as staff do not set it by hand, CHECKED_IN means that the user's
\* attendance was recorded, under every interleaving and failure.
THEOREM CheckedInAttended == Spec => []CheckedInHasAttendance
<1>1. Init => CheckedInInv
  BY DEF Init, CheckedInInv, CheckedInHasAttendance, MarksAreRecorded, NoRow, Idle
<1>2. TypeInv /\ CheckedInInv /\ [Next]_vars => CheckedInInv'
  <2> SUFFICES ASSUME TypeInv, CheckedInInv, [Next]_vars
               PROVE  CheckedInInv'
    OBVIOUS
  <2>1. CASE UNCHANGED vars
    BY <2>1 DEF vars, CheckedInInv, CheckedInHasAttendance, MarksAreRecorded
  <2>2. ASSUME NEW s \in Slots, Arrive(s) \/ Step(s) \/ Fail(s)
        PROVE  CheckedInInv'
    <3>1. attendance \subseteq attendance' /\ MarksAreRecorded'
      BY <2>2, MarkStep DEF CheckedInInv
    <3>2. CASE RegistrationWrite(s)
      BY <3>1, <3>2, CheckedInWrite DEF CheckedInInv
    <3>3. CASE UNCHANGED registration
      BY <3>1, <3>3 DEF CheckedInInv, CheckedInHasAttendance
    <3> QED BY <2>2, <3>2, <3>3, RegistrationWriters
  <2> QED BY <2>1, <2>2 DEF Next
<1>3. CheckedInInv => CheckedInHasAttendance
  BY DEF CheckedInInv
<1> QED BY <1>1, <1>2, <1>3, AlwaysTypeInv, PTL DEF Spec

-----------------------------------------------------------------------------
(***************************************************************************)
(* Places.  The bound is on the users who hold a place, or whom a check-in  *)
(* may give it back, together with the rows that requests past the         *)
(* capacity check have still to insert.  A check that passes has fewer     *)
(* than Capacity active rows before it; an insert moves one row from the   *)
(* second set to the first; a check-in reads an active row; and no other   *)
(* step adds to either.                                                    *)
(***************************************************************************)
Placed == ActiveUsers \cup Marking

\* The slots in which Marking has its users, as places of their own.
MarkingPlaces ==
  {<<s, 1>> : s \in {t \in Slots :
      \/ request[t].pc = "checkin.mark"
      \/ request[t].pc = "checkin.record" /\ request[t].seen = "APPROVED"}}

LEMMA PlacesFinite ==
  ASSUME NEW P \in SUBSET (Slots \X (1..MaxTeam))
  PROVE  /\ IsFiniteSet(P) /\ Cardinality(P) \in Nat
         /\ Cardinality(Slots) * MaxTeam \in Nat
         /\ Cardinality(P) <= Cardinality(Slots) * MaxTeam
<1>1. IsFiniteSet(Slots) /\ MaxTeam \in Nat
  BY SlotsAssumption, NumberAssumption
<1>2. IsFiniteSet(1..MaxTeam) /\ Cardinality(1..MaxTeam) = MaxTeam
  BY <1>1, FS_Interval
<1>3. /\ IsFiniteSet(Slots \X (1..MaxTeam))
      /\ Cardinality(Slots \X (1..MaxTeam)) = Cardinality(Slots) * MaxTeam
  BY <1>1, <1>2, FS_Product
<1> QED BY <1>1, <1>3, FS_Subset, FS_CardinalityType

\* Each user of Marking has a slot of that set.
LEMMA MarkingFinite == Cardinality(Marking) <= Cardinality(MarkingPlaces) /\ IsFiniteSet(Marking)
<1>1. MarkingPlaces \in SUBSET (Slots \X (1..MaxTeam))
  BY NumberAssumption DEF MarkingPlaces
<1>2. IsFiniteSet(MarkingPlaces)
  BY <1>1, PlacesFinite
<1> DEFINE f == [p \in MarkingPlaces |-> request[p[1]].user]
<1>3. f \in Surjection(MarkingPlaces, Marking)
  <2>1. f \in [MarkingPlaces -> Marking]
    BY DEF MarkingPlaces, Marking
  <2>2. ASSUME NEW u \in Marking
        PROVE  \E p \in MarkingPlaces : f[p] = u
    <3>1. PICK s \in Slots : /\ <<s, 1>> \in MarkingPlaces
                             /\ u = request[s].user
      BY DEF Marking, MarkingPlaces
    <3> QED BY <3>1
  <2> QED BY <2>1, <2>2 DEF Surjection
<1> QED BY <1>2, <1>3, FS_Surjection

\* A slot is in the middle of one request, so the places that can still be
\* taken, by inserts or by check-ins, fit in the slots.
InFlightFits == Cardinality(Marking) + Cardinality(Pending) <= Cardinality(Slots) * MaxTeam

LEMMA PlacesInFlight == InFlightFits
<1>1. /\ MarkingPlaces \in SUBSET (Slots \X (1..MaxTeam))
      /\ Pending \in SUBSET (Slots \X (1..MaxTeam))
  BY NumberAssumption DEF MarkingPlaces, Pending
<1>2. MarkingPlaces \cap Pending = {}
  BY DEF MarkingPlaces, Pending, Admitted
<1>3. /\ IsFiniteSet(MarkingPlaces) /\ Cardinality(MarkingPlaces) \in Nat
      /\ IsFiniteSet(Pending) /\ Cardinality(Pending) \in Nat
      /\ Cardinality(MarkingPlaces \cup Pending) <= Cardinality(Slots) * MaxTeam
      /\ Cardinality(Slots) * MaxTeam \in Nat
  BY <1>1, PlacesFinite
<1>4. Cardinality(MarkingPlaces \cup Pending) = Cardinality(MarkingPlaces) + Cardinality(Pending)
  <2>1. Cardinality(MarkingPlaces \cup Pending)
          = Cardinality(MarkingPlaces) + Cardinality(Pending) - Cardinality(MarkingPlaces \cap Pending)
    BY <1>3, FS_Union
  <2>2. Cardinality(MarkingPlaces \cap Pending) = 0
    BY <1>2, FS_EmptySet
  <2> QED BY <1>3, <2>1, <2>2
<1>5. Cardinality(Marking) <= Cardinality(MarkingPlaces) /\ Cardinality(Marking) \in Nat
  BY MarkingFinite, FS_CardinalityType
<1> QED BY <1>3, <1>4, <1>5 DEF InFlightFits

SetsFinite ==
  /\ IsFiniteSet(ActiveUsers) /\ Cardinality(ActiveUsers) \in Nat
  /\ IsFiniteSet(Marking) /\ Cardinality(Marking) \in Nat
  /\ IsFiniteSet(Placed) /\ Cardinality(Placed) \in Nat
  /\ Cardinality(Placed) <= Cardinality(ActiveUsers) + Cardinality(Marking)
  /\ IsFiniteSet(Pending) /\ Cardinality(Pending) \in Nat
  /\ Cardinality(Slots) * MaxTeam \in Nat

LEMMA PlacesSets == SetsFinite
<1>1. IsFiniteSet(ActiveUsers)
  BY UsersAssumption, FS_Subset DEF ActiveUsers
<1>2. Pending \in SUBSET (Slots \X (1..MaxTeam))
  BY DEF Pending
<1>3. IsFiniteSet(Placed) /\ Cardinality(Placed) <= Cardinality(ActiveUsers) + Cardinality(Marking)
  <2>1. /\ IsFiniteSet(ActiveUsers \cap Marking)
        /\ Cardinality(ActiveUsers \cup Marking)
             = Cardinality(ActiveUsers) + Cardinality(Marking)
                 - Cardinality(ActiveUsers \cap Marking)
        /\ IsFiniteSet(ActiveUsers \cup Marking)
    BY <1>1, MarkingFinite, FS_Union, FS_Intersection
  <2> QED BY <1>1, <2>1, MarkingFinite, FS_CardinalityType DEF Placed
<1> QED
  BY <1>1, <1>2, <1>3, PlacesFinite, MarkingFinite, FS_CardinalityType DEF SetsFinite

\* Both hold in every state, so after a step as well.
LEMMA PlacesNext == SetsFinite' /\ InFlightFits'
BY PlacesSets, PlacesInFlight, PTL

\* The three ways in which a step may change the two sets.
PlacesShrink == Placed' \subseteq Placed /\ Pending' \subseteq Pending

PlacesTaken == \E u, p : /\ p \in Pending
                         /\ Placed' \subseteq Placed \cup {u}
                         /\ Pending' \subseteq Pending \ {p}

PlacesChecked == Cardinality(ActiveUsers) < Capacity /\ ActiveUsers' = ActiveUsers

LEMMA AddOne ==
  ASSUME NEW S, NEW x, IsFiniteSet(S)
  PROVE  Cardinality(S \cup {x}) <= Cardinality(S) + 1
<1>1. Cardinality(S) \in Nat
  BY FS_CardinalityType
<1>2. Cardinality(S \cup {x}) = IF x \in S THEN Cardinality(S) ELSE Cardinality(S) + 1
  BY FS_AddElement, Zenon
<1> DEFINE c == Cardinality(S)
           d == Cardinality(S \cup {x})
<1>3. c \in Nat /\ (d = c \/ d = c + 1)
  BY <1>1, <1>2
<1> HIDE DEF c, d
<1>4. d <= c + 1
  BY <1>3
<1> QED BY <1>4 DEF c, d

LEMMA RemoveOne ==
  ASSUME NEW S, NEW x \in S, IsFiniteSet(S)
  PROVE  IsFiniteSet(S \ {x}) /\ Cardinality(S \ {x}) = Cardinality(S) - 1
<1>1. /\ IsFiniteSet(S \ {x})
      /\ Cardinality(S \ {x}) = IF x \in S THEN Cardinality(S) - 1 ELSE Cardinality(S)
  BY FS_RemoveElement, Zenon
<1> QED BY <1>1

LEMMA SubsetCard ==
  ASSUME NEW S, NEW T, IsFiniteSet(S), T \subseteq S
  PROVE  Cardinality(T) <= Cardinality(S)
BY FS_Subset

\* Each of them keeps the bound.
LEMMA OvershootStep ==
  ASSUME OvershootBound,
         Capacity # 0 /\ StaffStatuses \subseteq Inactive =>
           PlacesShrink \/ PlacesTaken \/ PlacesChecked
  PROVE  OvershootBound'
<1> SUFFICES ASSUME Capacity # 0, StaffStatuses \subseteq Inactive
             PROVE  Cardinality(Placed') + Cardinality(Pending')
                      < Capacity + Cardinality(Slots) * MaxTeam
  BY DEF OvershootBound, Placed
<1>1. Capacity \in Nat
  BY NumberAssumption
<1>2. /\ IsFiniteSet(Placed) /\ Cardinality(Placed) \in Nat
      /\ IsFiniteSet(Pending) /\ Cardinality(Pending) \in Nat
      /\ Cardinality(Slots) * MaxTeam \in Nat
  BY PlacesSets DEF SetsFinite
<1>3. /\ Cardinality(Placed') \in Nat /\ Cardinality(Pending') \in Nat
      /\ Cardinality(ActiveUsers') \in Nat /\ Cardinality(Marking') \in Nat
      /\ Cardinality(Placed') <= Cardinality(ActiveUsers') + Cardinality(Marking')
      /\ Cardinality(Marking') + Cardinality(Pending') <= Cardinality(Slots) * MaxTeam
  BY PlacesNext DEF SetsFinite, InFlightFits
<1>4. Cardinality(Placed) + Cardinality(Pending) < Capacity + Cardinality(Slots) * MaxTeam
  BY DEF OvershootBound, Placed
<1>5. CASE PlacesShrink
  <2>1. /\ Cardinality(Placed') <= Cardinality(Placed)
        /\ Cardinality(Pending') <= Cardinality(Pending)
    BY <1>2, <1>5, SubsetCard DEF PlacesShrink
  <2> QED BY <1>1, <1>2, <1>3, <1>4, <2>1
<1>6. CASE PlacesTaken
  <2>1. PICK u, p : /\ p \in Pending
                    /\ Placed' \subseteq Placed \cup {u}
                    /\ Pending' \subseteq Pending \ {p}
    BY <1>6 DEF PlacesTaken
  <2>2. Cardinality(Placed') <= Cardinality(Placed \cup {u})
    <3>1. IsFiniteSet(Placed \cup {u})
      BY <1>2, FS_AddElement
    <3> QED BY <2>1, <3>1, SubsetCard
  <2>3. Cardinality(Placed \cup {u}) <= Cardinality(Placed) + 1 /\ Cardinality(Placed \cup {u}) \in Nat
    BY <1>2, AddOne, FS_AddElement, FS_CardinalityType
  <2>4. IsFiniteSet(Pending \ {p}) /\ Cardinality(Pending \ {p}) = Cardinality(Pending) - 1
    BY <1>2, <2>1, RemoveOne
  <2>5. Cardinality(Pending') <= Cardinality(Pending \ {p})
    BY <2>1, <2>4, SubsetCard
  <2> QED BY <1>1, <1>2, <1>3, <1>4, <2>2, <2>3, <2>4, <2>5
<1>7. CASE PlacesChecked
  BY <1>1, <1>2, <1>3, <1>7 DEF PlacesChecked
<1> QED BY <1>5, <1>6, <1>7

\* A request that stays between the check and the last insert, with the same
\* team and no earlier in it, adds no place to take.
LEMMA PendingShrinks ==
  ASSUME TypeInv, NEW s \in Slots,
         \A t \in Slots \ {s} : request'[t] = request[t],
         request'[s].pc \in Admitted =>
           /\ request[s].pc \in Admitted
           /\ request'[s].team = request[s].team
           /\ request[s].i <= request'[s].i
           /\ request'[s].i \in Nat
  PROVE  Pending' \subseteq Pending
<1> SUFFICES ASSUME NEW p \in Pending'
             PROVE  p \in Pending
  OBVIOUS
<1>1. /\ p \in Slots \X (1..MaxTeam)
      /\ request'[p[1]].pc \in Admitted
      /\ request'[p[1]].i <= p[2]
      /\ p[2] <= Len(request'[p[1]].team)
  BY DEF Pending
<1>2. request[p[1]].i \in Nat /\ p[2] \in Nat
  BY <1>1, NumberAssumption DEF TypeInv, TypeOK, Request
<1>3. CASE p[1] = s
  <2>1. request[s].i <= p[2]
    BY <1>1, <1>2, <1>3
  <2> QED BY <1>1, <1>3, <2>1 DEF Pending
<1>4. CASE p[1] # s
  BY <1>1, <1>4 DEF Pending
<1> QED BY <1>3, <1>4

\* A check-in reads APPROVED, and comes to the mark only then.
LEMMA MarkingShrinks ==
  ASSUME TypeInv, NEW s \in Slots, Arrive(s) \/ Step(s) \/ Fail(s)
  PROVE  Marking' \subseteq Placed
<1> USE DEF TypeInv, TypeOK
<1>1. Follows(s)
  BY FollowsStep
<1> SUFFICES ASSUME NEW t \in Slots,
                    \/ request'[t].pc = "checkin.mark"
                    \/ request'[t].pc = "checkin.record" /\ request'[t].seen = "APPROVED"
             PROVE  request'[t].user \in Placed
  BY DEF Marking
<1>2. CASE t # s
  BY <1>1, <1>2 DEF Follows, Placed, Marking
<1>3. CASE t = s /\ request'[t].pc = "checkin.record"
  <2>1. CheckInRead(s)
    BY <1>1, <1>3 DEF Follows
  <2>2. /\ request'[s].user = request[s].user
        /\ request'[s].seen = registration[request[s].user].status
    BY <1>3, <2>1 DEF CheckInRead, Throw, End, Idle, Request
  <2>3. request[s].user \in Users
    BY <2>1 DEF CheckInRead, At, LocalOK, UserLabels, Labels
  <2> QED BY <1>3, <2>2, <2>3 DEF Placed, ActiveUsers, Active
<1>4. CASE t = s /\ request'[t].pc = "checkin.mark"
  <2>1. CheckInRecord(s)
    BY <1>1, <1>4 DEF Follows
  <2>2. /\ request[s].pc = "checkin.record"
        /\ request[s].seen = "APPROVED"
        /\ request'[s].user = request[s].user
    BY <1>4, <2>1 DEF CheckInRecord, Throw, End, Goto, Idle, Request, At
  <2> QED BY <1>4, <2>2 DEF Placed, Marking
<1> QED BY <1>2, <1>3, <1>4

\* With staff who only reject and cancel, nobody but register and the mark of
\* a check-in makes a registration active.
LEMMA ActiveShrinks ==
  ASSUME TypeInv, StaffStatuses \subseteq Inactive,
         NEW s \in Slots, Arrive(s) \/ Step(s) \/ Fail(s), ~RegisterCreate(s)
  PROVE  ActiveUsers' \subseteq Placed
<1> USE DEF TypeInv, TypeOK, Throw, tables, At
<1>0. LocalOK(request[s])
  OBVIOUS
<1> SUFFICES ASSUME NEW u \in Users, registration'[u].status \in Active
             PROVE  registration[u].status \in Active \/ u \in Marking
  BY DEF ActiveUsers, Placed
<1>1. CASE UNCHANGED registration
  BY <1>1
<1>2. CASE UpdateStatusWrite(s)
  <2>1. request[s].seen \in Inactive
    BY <1>0, <1>2 DEF UpdateStatusWrite, LocalOK
  <2>2. registration'[u].status \in {registration[u].status, request[s].seen}
    BY <1>2 DEF UpdateStatusWrite, Registration, NoRow
  <2> QED BY <2>1, <2>2 DEF Active, Inactive
<1>3. CASE ApproveAllWrite(s)
  BY <1>3 DEF ApproveAllWrite, Registration, NoRow, Active
<1>4. CASE RemoveDelete(s)
  BY <1>4 DEF RemoveDelete, NoRow, Active
<1>5. CASE CheckInMark(s)
  <2>1. request[s].user \in Marking
    BY <1>5 DEF CheckInMark, Marking
  <2>2. CASE u = request[s].user
    BY <2>1, <2>2
  <2>3. CASE u # request[s].user
    BY <1>5, <2>3 DEF CheckInMark
  <2> QED BY <2>2, <2>3
<1>6. CASE KickCancel(s)
  BY <1>6 DEF KickCancel, Active
<1> QED BY <1>1, <1>2, <1>3, <1>4, <1>5, <1>6, RegistrationWriters DEF RegistrationWrite

\* An insert takes one of the places that were to be taken.
LEMMA CreateTakes ==
  ASSUME TypeInv, NEW s \in Slots, RegisterCreate(s),
         ~Registered(request[s].team[request[s].i])
  PROVE  PlacesTaken
<1> DEFINE r == request[s]
           u == r.team[r.i]
           p == <<s, r.i>>
<1>1. r \in Request /\ LocalOK(r) /\ r.pc = "register.create"
  BY DEF TypeInv, TypeOK, RegisterCreate, At
<1>2. r.i \in 1..Len(r.team) /\ Len(r.team) \in 1..MaxTeam /\ u \in Users
  BY <1>1, TeamType DEF LocalOK, RegisterLabels
<1>3. r.i \in 1..MaxTeam /\ r.i \in Nat /\ r.i <= Len(r.team)
  BY <1>2, NumberAssumption
<1>4. p \in Pending
  BY <1>1, <1>3 DEF Pending, Admitted
<1>5. ActiveUsers' = ActiveUsers \cup {u}
  BY <1>2 DEF RegisterCreate, ActiveUsers, Active, TypeInv, TypeOK
<1>6. /\ \A t \in Slots \ {s} : request'[t] = request[t]
      /\ request'[s].pc \in Admitted =>
           request'[s].team = r.team /\ request'[s].i = r.i + 1
  <2>1. CASE r.i = Len(r.team)
    <3> DEFINE q == [r EXCEPT !.pc = "register.join", !.i = 1]
    <3>1. q.pc \notin Admitted
      BY <1>1 DEF Request, Admitted
    <3>2. request' = [request EXCEPT ![s] = q]
      BY <2>1 DEF RegisterCreate
    <3> HIDE DEF q, r
    <3> QED BY <3>1, <3>2 DEF TypeInv, TypeOK
  <2>2. CASE r.i # Len(r.team)
    <3> DEFINE q == [r EXCEPT !.i = @ + 1]
    <3>1. q.team = r.team /\ q.i = r.i + 1
      BY <1>1 DEF Request
    <3>2. request' = [request EXCEPT ![s] = q]
      BY <2>2 DEF RegisterCreate
    <3> HIDE DEF q, r
    <3> QED BY <3>1, <3>2 DEF TypeInv, TypeOK
  <2> QED BY <2>1, <2>2
<1>7. Pending' \subseteq Pending
  <2>1. request'[s].pc \in Admitted => r.i <= request'[s].i /\ request'[s].i \in Nat
    BY <1>3, <1>6
  <2>2. r.pc \in Admitted
    BY <1>1 DEF Admitted
  <2> QED BY <1>6, <2>1, <2>2, PendingShrinks
<1>8. p \notin Pending'
  BY <1>3, <1>6 DEF Pending
<1>9. Placed' \subseteq Placed \cup {u}
  BY <1>5, MarkingShrinks DEF Placed, Step, RegistrationsStep
<1> QED BY <1>4, <1>7, <1>8, <1>9 DEF PlacesTaken

LEMMA PlacesStep ==
  ASSUME TypeInv, Capacity # 0, StaffStatuses \subseteq Inactive,
         NEW s \in Slots, Arrive(s) \/ Step(s) \/ Fail(s)
  PROVE  PlacesShrink \/ PlacesTaken \/ PlacesChecked
<1>1. Follows(s)
  BY FollowsStep
<1>2. ASSUME ~RegisterCreate(s)
      PROVE  Placed' \subseteq Placed
  BY <1>2, ActiveShrinks, MarkingShrinks DEF Placed
<1>3. ASSUME Throw(s)
      PROVE  PlacesShrink
  <2>1. ActiveUsers' = ActiveUsers
    BY <1>3 DEF Throw, tables, ActiveUsers
  <2>2. request'[s].pc \notin Admitted
    BY <1>3 DEF Throw, End, Idle, Admitted, TypeInv, TypeOK
  <2>3. Placed' \subseteq Placed
    BY <2>1, MarkingShrinks DEF Placed
  <2> QED BY <1>1, <2>2, <2>3, PendingShrinks DEF PlacesShrink, Follows
<1>4. CASE ~AdmittedStep(s)
  <2>1. Pending' \subseteq Pending
    BY <1>1, <1>4, PendingShrinks DEF Follows
  <2> QED BY <1>2, <1>4, <2>1 DEF PlacesShrink, AdmittedStep
<1>5. CASE RegisterCapacity(s)
  <2>1. CASE Cardinality(ActiveUsers) >= Capacity
    BY <1>3, <1>5, <2>1 DEF RegisterCapacity
  <2>2. CASE ~(Cardinality(ActiveUsers) >= Capacity)
    <3>1. Cardinality(ActiveUsers) < Capacity
      BY <2>2, PlacesSets, NumberAssumption DEF SetsFinite
    <3>2. ActiveUsers' = ActiveUsers
      BY <1>5, <2>2 DEF RegisterCapacity, tables, ActiveUsers
    <3> QED BY <3>1, <3>2 DEF PlacesChecked
  <2> QED BY <2>1, <2>2
<1>6. CASE RegisterExisting(s) \/ RegisterTeammates(s)
  <2>1. CASE Throw(s)
    BY <1>3, <2>1
  <2>2. CASE \E l : Goto(s, l) /\ UNCHANGED tables
    <3>1. ActiveUsers' = ActiveUsers
      BY <2>2 DEF tables, ActiveUsers
    <3>2. /\ request[s].pc \in Admitted
          /\ request'[s].team = request[s].team
          /\ request'[s].i = request[s].i
          /\ request[s].i \in Nat
      BY <1>6, <2>2 DEF RegisterExisting, RegisterTeammates, At, Goto, Admitted,
                        TypeInv, TypeOK, Request
    <3>3. request[s].i <= request'[s].i /\ request'[s].i \in Nat
      BY <3>2
    <3>4. Placed' \subseteq Placed
      BY <3>1, MarkingShrinks DEF Placed
    <3> QED BY <1>1, <3>2, <3>3, <3>4, PendingShrinks DEF PlacesShrink, Follows
  <2> QED BY <1>6, <2>1, <2>2 DEF RegisterExisting, RegisterTeammates
<1>7. CASE RegisterCreate(s)
  BY <1>3, <1>7, CreateTakes DEF RegisterCreate
<1> QED BY <1>4, <1>5, <1>6, <1>7 DEF AdmittedStep

\* Whatever the interleaving and whoever fails, the capacity is exceeded by
\* less than the places that the requests in flight can take together.
THEOREM Overshoot == Spec => []OvershootBound
<1>1. Init => OvershootBound
  <2> SUFFICES ASSUME Init, Capacity # 0
               PROVE  Cardinality(ActiveUsers \cup Marking) + Cardinality(Pending)
                        < Capacity + Cardinality(Slots) * MaxTeam
    BY DEF OvershootBound
  <2>1. ActiveUsers \cup Marking = {} /\ Pending = {}
    BY DEF Init, ActiveUsers, Active, NoRow, Pending, Admitted, Marking, Idle
  <2>2. Cardinality(ActiveUsers \cup Marking) = 0 /\ Cardinality(Pending) = 0
    BY <2>1, FS_EmptySet
  <2> QED BY <2>2, PlacesSets, NumberAssumption DEF SetsFinite
<1>2. TypeInv /\ OvershootBound /\ [Next]_vars => OvershootBound'
  <2> SUFFICES ASSUME TypeInv, OvershootBound, [Next]_vars
               PROVE  OvershootBound'
    OBVIOUS
  <2>1. CASE UNCHANGED vars
    BY <2>1 DEF vars, OvershootBound, ActiveUsers, Marking, Pending
  <2>2. ASSUME NEW s \in Slots, Arrive(s) \/ Step(s) \/ Fail(s)
        PROVE  OvershootBound'
    BY <2>2, PlacesStep, OvershootStep
  <2> QED BY <2>1, <2>2 DEF Next
<1> QED BY <1>1, <1>2, AlwaysTypeInv, PTL DEF Spec

-----------------------------------------------------------------------------
(***************************************************************************)
(* Who writes the event and the organizers, and how the statements that do *)
(* are reached.                                                            *)
(***************************************************************************)
LEMMA EventWriters ==
  ASSUME NEW s \in Slots, Arrive(s) \/ Step(s) \/ Fail(s)
  PROVE  UNCHANGED event \/ EventStatusWrite(s) \/ EventDeleteWrite(s)
<1> USE DEF tables, Throw
<1>1. CASE Arrive(s)
  BY <1>1, ArriveWrites
<1>2. CASE Fail(s)
  BY <1>2 DEF Fail
<1>3. CASE RegistrationsStep(s)
  BY <1>3 DEF RegistrationsStep, RegisterCapacity, RegisterExisting, RegisterTeammates,
              RegisterCreate, RegisterJoin, UpdateStatusWrite, UpdateStatusOrganizer,
              UpdateStatusLeave, ApproveAllWrite, RemoveDelete, RemoveLeave
<1>4. CASE AttendanceStep(s)
  BY <1>4 DEF AttendanceStep, CheckInRead, CheckInRecord, CheckInMark
<1>5. CASE OrganizersStep(s)
  BY <1>5 DEF OrganizersStep, AddOrganizerCreate, AddOrganizerPromote, RemoveOrganizerCount,
              RemoveOrganizerDelete, RemoveOrganizerParticipant, RemoveOrganizerDemote,
              RemoveOrganizerLeave
<1>6. CASE EventChatStep(s)
  BY <1>6 DEF EventChatStep, KickLeave, KickCancel, SyncAdmin, SyncMember, SyncEnd
<1> QED BY <1>1, <1>2, <1>3, <1>4, <1>5, <1>6 DEF Step

LEMMA OrganizerWriters ==
  ASSUME NEW s \in Slots, Arrive(s) \/ Step(s) \/ Fail(s)
  PROVE  UNCHANGED organizer \/ AddOrganizerCreate(s) \/ RemoveOrganizerDelete(s)
<1> USE DEF tables, Throw
<1>1. CASE Arrive(s)
  BY <1>1, ArriveWrites
<1>2. CASE Fail(s)
  BY <1>2 DEF Fail
<1>3. CASE RegistrationsStep(s)
  BY <1>3 DEF RegistrationsStep, RegisterCapacity, RegisterExisting, RegisterTeammates,
              RegisterCreate, RegisterJoin, UpdateStatusWrite, UpdateStatusOrganizer,
              UpdateStatusLeave, ApproveAllWrite, RemoveDelete, RemoveLeave
<1>4. CASE AttendanceStep(s)
  BY <1>4 DEF AttendanceStep, CheckInRead, CheckInRecord, CheckInMark
<1>5. CASE OrganizersStep(s)
  BY <1>5 DEF OrganizersStep, EventStatusWrite, EventDeleteWrite, AddOrganizerPromote,
              RemoveOrganizerCount, RemoveOrganizerParticipant, RemoveOrganizerDemote,
              RemoveOrganizerLeave
<1>6. CASE EventChatStep(s)
  BY <1>6 DEF EventChatStep, KickLeave, KickCancel, SyncAdmin, SyncMember, SyncEnd
<1> QED BY <1>1, <1>2, <1>3, <1>4, <1>5, <1>6 DEF Step

\* The statements that write the event are reached only from the check that
\* it is not deleted; the delete of an organizer from the read of the row or
\* from the count.
Reaches(s) ==
  /\ request'[s].pc \in {"event.status", "event.delete"} => ~event.deleted /\ UNCHANGED event
  /\ request'[s].pc = "organizer.delete" =>
       \/ RemoveOrganizerCount(s)
       \/ \E u \in Users : RemoveOrganizerBegin(s, u)

LEMMA ReachesStep ==
  ASSUME TypeInv, NEW s \in Slots, Arrive(s) \/ Step(s) \/ Fail(s)
  PROVE  Reaches(s)
<1> USE DEF TypeInv, TypeOK, Reaches, At
<1>1. ASSUME NEW r, request' = [request EXCEPT ![s] = r],
             r.pc \notin {"event.status", "event.delete", "organizer.delete"}
      PROVE  Reaches(s)
  BY <1>1
<1>2. ASSUME End(s) PROVE Reaches(s)
  BY <1>1, <1>2 DEF End, Idle
<1>3. ASSUME NEW l, Goto(s, l), l \notin {"event.status", "event.delete", "organizer.delete"}
      PROVE  Reaches(s)
  <2> DEFINE q == [request[s] EXCEPT !.pc = l]
  <2>1. q.pc = l /\ request' = [request EXCEPT ![s] = q]
    BY <1>3 DEF Goto, Request
  <2> HIDE DEF q
  <2> QED BY <1>1, <1>3, <2>1
<1>4. ASSUME NEW op, NEW r, Begin(op, s, r), r.pc \notin {"event.status", "event.delete", "organizer.delete"}
      PROVE  Reaches(s)
  BY <1>1, <1>4 DEF Begin
<1>5. CASE Arrive(s)
  <2>1. Idle \in Request
    BY IdleOK
  <2>2. ASSUME NEW status \in EventStatus, EventStatusBegin(s, status) PROVE Reaches(s)
    BY <2>1, <2>2 DEF EventStatusBegin, Begin, tables, Request
  <2>3. ASSUME NEW u \in Users, RemoveOrganizerBegin(s, u) PROVE Reaches(s)
    BY <2>1, <2>3 DEF RemoveOrganizerBegin, Begin, Request
  <2>4. ASSUME EventDeleteBegin(s) PROVE Reaches(s)
    BY <2>1, <2>4 DEF EventDeleteBegin, Begin, tables, Request
  <2> QED BY <1>4, <1>5, <2>1, <2>2, <2>3, <2>4
       DEF Arrive, RegistrationsBegin, AttendanceBegin, OrganizersBegin, EventChatBegin,
           RegisterBegin, UpdateStatusBegin, ApproveAllBegin, RemoveBegin, CheckInBegin,
           AddOrganizerBegin, KickBegin, SyncBegin, Request
<1>6. CASE Fail(s)
  BY <1>2, <1>6 DEF Fail, Throw
<1>7. CASE RegistrationsStep(s)
  <2> USE DEF Throw
  <2>1. CASE RegisterCreate(s)
    <3> DEFINE r == request[s]
               q == IF r.i = Len(r.team) THEN [r EXCEPT !.pc = "register.join", !.i = 1]
                                         ELSE [r EXCEPT !.i = @ + 1]
    <3>1. End(s) \/ request' = [request EXCEPT ![s] = q]
      BY <2>1 DEF RegisterCreate
    <3>2. q.pc \in {"register.join", "register.create"}
      BY <2>1 DEF RegisterCreate, Request
    <3> HIDE DEF q
    <3> QED BY <1>1, <1>2, <3>1, <3>2
  <2>2. CASE RegisterJoin(s)
    <3> DEFINE q == [request[s] EXCEPT !.i = @ + 1]
    <3>1. End(s) \/ request' = [request EXCEPT ![s] = q]
      BY <2>2 DEF RegisterJoin
    <3>2. q.pc = "register.join"
      BY <2>2 DEF RegisterJoin, Request
    <3> HIDE DEF q
    <3> QED BY <1>1, <1>2, <3>1, <3>2
  <2>3. CASE RegisterCapacity(s) \/ RegisterExisting(s) \/ RegisterTeammates(s)
    BY <1>2, <1>3, <2>3 DEF RegisterCapacity, RegisterExisting, RegisterTeammates
  <2>4. CASE UpdateStatusWrite(s) \/ UpdateStatusOrganizer(s) \/ UpdateStatusLeave(s)
    BY <1>2, <1>3, <2>4 DEF UpdateStatusWrite, UpdateStatusOrganizer, UpdateStatusLeave
  <2>5. CASE ApproveAllWrite(s) \/ RemoveDelete(s) \/ RemoveLeave(s)
    BY <1>2, <1>3, <2>5 DEF ApproveAllWrite, RemoveDelete, RemoveLeave
  <2> QED BY <1>7, <2>1, <2>2, <2>3, <2>4, <2>5 DEF RegistrationsStep
<1>8. CASE AttendanceStep(s)
  <2> USE DEF Throw
  <2>1. CASE CheckInRead(s)
    <3> DEFINE row == registration[request[s].user]
               q == [request[s] EXCEPT !.pc = "checkin.record", !.row = row.row,
                                       !.seen = row.status]
    <3>1. End(s) \/ request' = [request EXCEPT ![s] = q]
      BY <2>1 DEF CheckInRead
    <3>2. q.pc = "checkin.record"
      BY DEF Request
    <3> HIDE DEF q
    <3> QED BY <1>1, <1>2, <3>1, <3>2
  <2>2. CASE CheckInRecord(s) \/ CheckInMark(s)
    BY <1>2, <1>3, <2>2 DEF CheckInRecord, CheckInMark
  <2> QED BY <1>8, <2>1, <2>2 DEF AttendanceStep
<1>9. CASE OrganizersStep(s)
  <2> USE DEF Throw
  <2>1. CASE RemoveOrganizerCount(s)
    <3>1. CASE Goto(s, "organizer.delete")
      BY <2>1, <3>1 DEF Goto
    <3> QED BY <1>2, <2>1, <3>1 DEF RemoveOrganizerCount
  <2>2. CASE EventStatusWrite(s) \/ EventDeleteWrite(s) \/ AddOrganizerPromote(s)
             \/ RemoveOrganizerDemote(s) \/ RemoveOrganizerLeave(s)
    BY <1>2, <2>2 DEF EventStatusWrite, EventDeleteWrite, AddOrganizerPromote,
                      RemoveOrganizerDemote, RemoveOrganizerLeave
  <2>3. CASE AddOrganizerCreate(s) \/ RemoveOrganizerDelete(s) \/ RemoveOrganizerParticipant(s)
    BY <1>2, <1>3, <2>3
    DEF AddOrganizerCreate, RemoveOrganizerDelete, RemoveOrganizerParticipant
  <2> QED BY <1>9, <2>1, <2>2, <2>3 DEF OrganizersStep
<1>10. CASE EventChatStep(s)
  <2>1. CASE KickLeave(s) \/ KickCancel(s) \/ SyncEnd(s)
    BY <1>2, <1>3, <2>1 DEF KickLeave, KickCancel, SyncEnd
  <2>2. CASE SyncAdmin(s)
    BY <2>2 DEF SyncAdmin, Request
  <2>3. CASE SyncMember(s)
    BY <2>3 DEF SyncMember, Request
  <2> QED BY <1>10, <2>1, <2>2, <2>3 DEF EventChatStep
<1> QED BY <1>5, <1>6, <1>7, <1>8, <1>9, <1>10 DEF Step

-----------------------------------------------------------------------------
(***************************************************************************)
(* The deletion of the event, under any number of overlapping requests.    *)
(***************************************************************************)
\* A step of one request leaves the program counters of the others alone.
LEMMA OnlyOneMoves ==
  ASSUME TypeInv, NEW s \in Slots, Arrive(s) \/ Step(s) \/ Fail(s)
  PROVE  \A t \in Slots \ {s} : request'[t].pc = request[t].pc
BY FollowsStep DEF Follows

\* A write of the event is used up by the step that makes it.
LEMMA EventWritten ==
  ASSUME TypeInv, NEW s \in Slots, EventStatusWrite(s) \/ EventDeleteWrite(s)
  PROVE  s \in Unwritten /\ s \notin Unwritten'
BY DEF EventStatusWrite, EventDeleteWrite, End, Idle, At, Unwritten, TypeInv, TypeOK

\* Whatever overlaps and whoever dies, a deletion is undone by nothing, and
\* only an update that had passed its check before can still move the status.
THEOREM DeletionStays == Spec => DeletionIsFinal
<1>1. ASSUME TypeInv, NEW s \in Slots, Arrive(s) \/ Step(s) \/ Fail(s), event.deleted
      PROVE  /\ event'.deleted
             /\ Unwritten' \subseteq Unwritten
             /\ event'.status # event.status => Unwritten' # Unwritten
  <2>1. \A t \in Slots \ {s} : request'[t].pc = request[t].pc
    BY <1>1, OnlyOneMoves
  <2>2. request'[s].pc \notin {"event.status", "event.delete"}
    BY <1>1, ReachesStep DEF Reaches
  <2>3. Unwritten' \subseteq Unwritten
    BY <2>1, <2>2 DEF Unwritten, At
  <2>4. CASE UNCHANGED event
    BY <1>1, <2>3, <2>4
  <2>5. CASE EventStatusWrite(s)
    BY <1>1, <2>3, <2>5, EventWritten DEF EventStatusWrite, TypeInv, TypeOK
  <2>6. CASE EventDeleteWrite(s)
    BY <1>1, <2>3, <2>6, EventWritten DEF EventDeleteWrite
  <2> QED BY <1>1, <2>4, <2>5, <2>6, EventWriters
<1>2. TypeInv /\ [Next]_vars =>
        [event.deleted => /\ event.deleted'
                          /\ Unwritten' \subseteq Unwritten
                          /\ event.status' # event.status => Unwritten' # Unwritten]_vars
  BY <1>1 DEF Next
<1> QED BY <1>2, AlwaysTypeInv, PTL DEF Spec, DeletionIsFinal

-----------------------------------------------------------------------------
(***************************************************************************)
(* One request at a time.  The claims about handlers that overlapping      *)
(* requests can break hold when there is one slot: what a handler has read *)
(* is still so when it writes.                                             *)
(***************************************************************************)
\* An organizer about to be deleted is not the last PRIMARY one.
PrimaryInv ==
  /\ SomePrimary
  /\ \A s \in Slots : At(s, "organizer.delete") => Primaries \ {request[s].user} # {}

\* When requests do not overlap, some PRIMARY organizer remains: the count of
\* removeOrganizer is still right when the row is deleted.
THEOREM PrimaryStays ==
  ASSUME NEW only, Slots = {only}
  PROVE  Spec => []SomePrimary
<1>1. Init => PrimaryInv
  BY UsersAssumption DEF Init, PrimaryInv, SomePrimary, Primaries, At, Idle
<1>2. TypeInv /\ PrimaryInv /\ [Next]_vars => PrimaryInv'
  <2> SUFFICES ASSUME TypeInv, PrimaryInv, [Next]_vars
               PROVE  PrimaryInv'
    OBVIOUS
  <2>1. CASE UNCHANGED vars
    BY <2>1 DEF vars, PrimaryInv, SomePrimary, Primaries, At
  <2>2. ASSUME Arrive(only) \/ Step(only) \/ Fail(only)
        PROVE  PrimaryInv'
    <3> USE DEF TypeInv, TypeOK, At
    <3>1. only \in Slots /\ LocalOK(request[only])
      OBVIOUS
    <3>2. CASE UNCHANGED organizer
      <4>1. Primaries' = Primaries
        BY <3>2 DEF Primaries
      <4>2. ASSUME RemoveOrganizerCount(only), request'[only].pc = "organizer.delete"
            PROVE  Primaries \ {request'[only].user} # {}
        <5>1. ~(Cardinality(Primaries) <= 1)
          BY <3>1, <4>2 DEF RemoveOrganizerCount, Throw, End, Idle
        <5>2. Cardinality(Primaries) # 1 /\ IsFiniteSet(Primaries)
          BY <5>1, UsersAssumption, FS_Subset DEF Primaries
        <5>3. Primaries # {request'[only].user}
          BY <5>2, FS_Singleton
        <5> QED BY <5>3, <3>1 DEF PrimaryInv, SomePrimary
      <4>3. ASSUME NEW u \in Users, RemoveOrganizerBegin(only, u),
                   request'[only].pc = "organizer.delete"
            PROVE  Primaries \ {request'[only].user} # {}
        <5>1. u \notin Primaries /\ request'[only].user = u
          <6>1. Idle \in Request
            BY IdleOK
          <6> QED BY <3>1, <4>3, <6>1 DEF RemoveOrganizerBegin, Begin, Request, Primaries
        <5> QED BY <5>1 DEF PrimaryInv, SomePrimary
      <4>4. Reaches(only)
        BY <2>2, <3>1, ReachesStep
      <4> QED BY <3>1, <4>1, <4>2, <4>3, <4>4 DEF PrimaryInv, SomePrimary, Reaches
    <3>3. CASE AddOrganizerCreate(only) /\ request[only].user \notin Organizers
      <4>1. Primaries \subseteq Primaries'
        BY <3>1, <3>3 DEF AddOrganizerCreate, Primaries, Organizers
      <4>2. request'[only].pc = "organizer.promote"
        BY <3>1, <3>3 DEF AddOrganizerCreate, Goto, Request
      <4> QED BY <4>1, <4>2 DEF PrimaryInv, SomePrimary
    <3>4. CASE RemoveOrganizerDelete(only) /\ request[only].user \in Organizers
      <4>1. Primaries' = Primaries \ {request[only].user}
        BY <3>1, <3>4 DEF RemoveOrganizerDelete, Primaries
      <4>2. request'[only].pc = "organizer.participant"
        BY <3>1, <3>4 DEF RemoveOrganizerDelete, Goto, Request
      <4>3. Primaries \ {request[only].user} # {}
        BY <3>1, <3>4 DEF RemoveOrganizerDelete, PrimaryInv
      <4> QED BY <4>1, <4>2, <4>3 DEF PrimaryInv, SomePrimary
    <3>5. CASE AddOrganizerCreate(only) /\ request[only].user \in Organizers
      BY <3>2, <3>5 DEF AddOrganizerCreate, Throw, tables
    <3>6. CASE RemoveOrganizerDelete(only) /\ request[only].user \notin Organizers
      BY <3>2, <3>6 DEF RemoveOrganizerDelete, Throw, tables
    <3> QED BY <2>2, <3>1, <3>2, <3>3, <3>4, <3>5, <3>6, OrganizerWriters
  <2> QED BY <2>1, <2>2 DEF Next
<1>3. PrimaryInv => SomePrimary
  BY DEF PrimaryInv
<1> QED BY <1>1, <1>2, <1>3, AlwaysTypeInv, PTL DEF Spec

-----------------------------------------------------------------------------
(***************************************************************************)
(* Seats.  While a request is in flight somebody may have a seat without   *)
(* reason: the user whom the request has still to take it from.            *)
(***************************************************************************)
Participant(u) == Registered(u) /\ registration[u].status # "CANCELLED"

Earned(u) == /\ member[u] = "ADMIN" => u \in Organizers
             /\ member[u] = "MEMBER" => u \in Organizers \/ Participant(u)

LeavingLabels == {"status.organizer", "status.leave", "remove.leave",
                  "organizer.participant", "organizer.demote", "organizer.leave"}

\* What a handler has seen, and relies on for the seats it gives or leaves.
Relies(r) ==
  /\ r.pc \in {"register.capacity", "register.existing", "register.teammates"} => r.i = 1
  /\ r.pc = "register.create" => \A i \in 1..(r.i - 1) : Participant(r.team[i])
  /\ r.pc = "register.join" => \A i \in 1..Len(r.team) : Participant(r.team[i])
  /\ r.pc = "organizer.promote" => r.user \in Organizers
  /\ r.pc = "organizer.demote" => Participant(r.user)
  /\ r.pc = "kick.cancel" => member[r.user] = "NONE"
  /\ r.pc = "sync.join" => r.admins \subseteq Organizers /\ \A u \in r.joins : Participant(u)

Settled(r) == /\ \A u \in Users : Earned(u) \/ (r.pc \in LeavingLabels /\ r.user = u)
              /\ Relies(r)

SeatsInv == \A s \in Slots : Settled(request[s])

\* A request that ends leaves only seats that are earned.
LEMMA SettledIdle ==
  ASSUME \A u \in Users : Earned(u)
  PROVE  Settled(Idle)
BY DEF Settled, Relies, Idle, LeavingLabels

\* Nobody loses the reason for a seat, and the seats that change are earned.
LEMMA EarnedStays ==
  ASSUME NEW u \in Users, Earned(u),
         u \in Organizers => (u \in Organizers)',
         Participant(u) => Participant(u)',
         \/ member'[u] = member[u]
         \/ member'[u] = "NONE"
         \/ member'[u] = "MEMBER" /\ ((u \in Organizers)' \/ Participant(u)')
         \/ member'[u] = "ADMIN" /\ (u \in Organizers)'
  PROVE  Earned(u)'
BY DEF Earned

LEMMA RegistrationsSettle ==
  ASSUME TypeInv, NEW s \in Slots, Settled(request[s]), RegistrationsStep(s)
  PROVE  Settled(request[s])'
<1> PICK r : r = request[s]
  OBVIOUS
<1> USE DEF TypeInv, TypeOK, At, Throw, tables
<1>0. r \in Request /\ LocalOK(r) /\ request \in [Slots -> Request] /\ Settled(r)
  OBVIOUS
<1>1. ASSUME \A u \in Users : Earned(u)', End(s)
      PROVE  Settled(request[s])'
  BY <1>0, <1>1 DEF End, Idle, Settled, Relies, LeavingLabels
<1>2. ASSUME UNCHANGED tables, \A u \in Users : Earned(u) PROVE \A u \in Users : Earned(u)'
  BY <1>2 DEF Earned, Participant, Registered, Organizers
<1>3. ASSUME r.pc \notin LeavingLabels PROVE \A u \in Users : Earned(u)
  BY <1>0, <1>3 DEF Settled
<1>4. CASE RegisterCapacity(s) \/ RegisterExisting(s) \/ RegisterTeammates(s)
  <2>1. \A u \in Users : Earned(u)
    BY <1>3, <1>4 DEF RegisterCapacity, RegisterExisting, RegisterTeammates, LeavingLabels
  <2>2. UNCHANGED tables /\ r.i = 1
    BY <1>0, <1>4
    DEF RegisterCapacity, RegisterExisting, RegisterTeammates, Settled, Relies
  <2>3. ASSUME NEW l \in {"register.existing", "register.teammates", "register.create"},
               Goto(s, l)
        PROVE  Settled(request[s])'
    <3>1. request'[s].pc = l /\ request'[s].i = 1
      BY <1>0, <2>2, <2>3 DEF Goto, Request
    <3> QED BY <1>2, <2>1, <2>2, <3>1 DEF Settled, Relies, LeavingLabels
  <2> QED BY <1>1, <1>2, <1>4, <2>1, <2>2, <2>3
       DEF RegisterCapacity, RegisterExisting, RegisterTeammates
<1>5. CASE RegisterCreate(s)
  <2> DEFINE w == r.team[r.i]
  <2>1. \A u \in Users : Earned(u)
    BY <1>3, <1>5 DEF RegisterCreate, LeavingLabels
  <2>2. CASE Registered(w)
    BY <1>1, <1>2, <1>5, <2>1, <2>2 DEF RegisterCreate
  <2>3. CASE ~Registered(w)
    <3>1. /\ r.team \in Teams /\ r.i \in 1..Len(r.team) /\ r.row # 0
          /\ \A i \in 1..(r.i - 1) : Participant(r.team[i])
      BY <1>0, <1>5 DEF RegisterCreate, LocalOK, RegisterLabels, Settled, Relies
    <3>2. /\ Len(r.team) \in Nat
          /\ \A i \in 1..Len(r.team) : r.team[i] \in Users
      BY <3>1, TeamType, NumberAssumption
    <3>3. /\ registration' = [registration EXCEPT ![w] = [status |-> "APPROVED", row |-> r.row]]
          /\ UNCHANGED <<organizer, member>>
      BY <1>5, <2>3 DEF RegisterCreate
    <3>4. /\ \A u \in Users : Participant(u) => Participant(u)'
          /\ Participant(w)'
      BY <3>1, <3>2, <3>3 DEF Participant, Registered, NoRow
    <3>5. \A u \in Users : Earned(u)'
      BY <2>1, <3>3, <3>4, EarnedStays DEF Organizers
    <3>6. \A i \in 1..r.i : Participant(r.team[i])'
      BY <3>1, <3>2, <3>4
    <3>7. CASE r.i = Len(r.team)
      <4>1. request'[s].pc = "register.join" /\ request'[s].team = r.team
        <5>1. request' = [request EXCEPT ![s] = [r EXCEPT !.pc = "register.join", !.i = 1]]
          BY <1>5, <2>3, <3>7 DEF RegisterCreate
        <5> QED BY <1>0, <5>1 DEF Request
      <4> QED BY <3>5, <3>6, <3>7, <4>1 DEF Settled, Relies
    <3>8. CASE r.i # Len(r.team)
      <4>1. /\ request'[s].pc = "register.create" /\ request'[s].team = r.team
            /\ request'[s].i = r.i + 1
        BY <1>0, <1>5, <2>3, <3>8 DEF RegisterCreate, Request
      <4>2. (r.i + 1) - 1 = r.i
        BY <1>0 DEF Request
      <4> QED BY <3>5, <3>6, <4>1, <4>2 DEF Settled, Relies
    <3> QED BY <3>7, <3>8
  <2> QED BY <2>2, <2>3
<1>6. CASE RegisterJoin(s)
  <2> DEFINE w == r.team[r.i]
  <2>1. \A u \in Users : Earned(u)
    BY <1>3, <1>6 DEF RegisterJoin, LeavingLabels
  <2>2. /\ r.team \in Teams /\ r.i \in 1..Len(r.team)
        /\ \A i \in 1..Len(r.team) : Participant(r.team[i])
    BY <1>0, <1>6 DEF RegisterJoin, LocalOK, RegisterLabels, Settled, Relies
  <2>3. /\ member' = [member EXCEPT ![w] = IF @ = "NONE" THEN "MEMBER" ELSE @]
        /\ UNCHANGED <<organizer, registration>>
    BY <1>6 DEF RegisterJoin, JoinAsMember
  <2>4. \A u \in Users : Participant(u)' <=> Participant(u)
    BY <2>3 DEF Participant, Registered
  <2>5. w \in Users /\ Participant(w)
    BY <2>2, TeamType
  <2>6. \A u \in Users : \/ member'[u] = member[u]
                         \/ u = w /\ member'[u] = "MEMBER"
    BY <2>3, <2>5
  <2>7. \A u \in Users : Earned(u)'
    BY <2>1, <2>3, <2>4, <2>5, <2>6, EarnedStays DEF Organizers
  <2>8. CASE End(s)
    BY <1>1, <2>7, <2>8
  <2>9. CASE request' = [request EXCEPT ![s].i = @ + 1]
    <3>1. request'[s].pc = "register.join" /\ request'[s].team = r.team
      BY <1>0, <1>6, <2>9 DEF RegisterJoin, Request
    <3>2. \A i \in 1..Len(r.team) : Participant(r.team[i])'
      BY <2>2, <2>4, TeamType
    <3> QED BY <2>7, <3>1, <3>2 DEF Settled, Relies
  <2> QED BY <1>6, <2>8, <2>9 DEF RegisterJoin
<1>7. CASE UpdateStatusWrite(s)
  <2>1. \A u \in Users : Earned(u)
    BY <1>3, <1>7 DEF UpdateStatusWrite, LeavingLabels
  <2>2. CASE ~Registered(r.user) \/ registration[r.user].row # r.row
    BY <1>1, <1>2, <1>7, <2>1, <2>2 DEF UpdateStatusWrite
  <2>3. CASE ~(~Registered(r.user) \/ registration[r.user].row # r.row)
    <3>1. r.user \in Users /\ r.seen \in RegistrationStatus
      BY <1>0, <1>7, StatusAssumption DEF UpdateStatusWrite, LocalOK, UserLabels, Labels
    <3>2. /\ registration' = [registration EXCEPT ![r.user].status = r.seen]
          /\ UNCHANGED <<organizer, member>>
      BY <1>7, <2>3 DEF UpdateStatusWrite
    <3>3. \A u \in Users \ {r.user} : Participant(u)' <=> Participant(u)
      BY <3>1, <3>2 DEF Participant, Registered
    <3>4. \A u \in Users \ {r.user} : Earned(u)'
      BY <2>1, <3>2, <3>3, EarnedStays DEF Organizers
    <3>5. CASE r.seen \in Inactive
      <4>1. request'[s].pc = "status.organizer" /\ request'[s].user = r.user
        BY <1>0, <1>7, <2>3, <3>5 DEF UpdateStatusWrite, Goto, Request
      <4> QED BY <3>4, <4>1 DEF Settled, Relies, LeavingLabels
    <3>6. CASE r.seen \notin Inactive
      <4>1. Participant(r.user)'
        <5>1. registration'[r.user] = [registration[r.user] EXCEPT !.status = r.seen]
          BY <3>1, <3>2
        <5>2. registration'[r.user].status = r.seen /\ r.seen # "CANCELLED" /\ r.seen # "NONE"
          BY <3>1, <3>6, <5>1 DEF Inactive, RegistrationStatus, Active, Registration, NoRow
        <5> QED BY <5>2 DEF Participant, Registered, NoRow
      <4>2. Earned(r.user)'
        BY <2>1, <3>1, <3>2, <4>1, EarnedStays DEF Organizers
      <4>3. End(s)
        BY <1>7, <2>3, <3>6 DEF UpdateStatusWrite
      <4> QED BY <1>1, <3>4, <4>2, <4>3
    <3> QED BY <3>5, <3>6
  <2> QED BY <2>2, <2>3
<1>8. CASE UpdateStatusOrganizer(s)
  <2>1. \A u \in Users : Earned(u) \/ r.user = u
    BY <1>0 DEF Settled
  <2>2. CASE r.user \in Organizers
    <3>1. End(s) /\ UNCHANGED tables /\ \A u \in Users : Earned(u)
      BY <1>8, <2>1, <2>2 DEF UpdateStatusOrganizer, Earned
    <3> QED BY <1>1, <1>2, <3>1
  <2>3. CASE r.user \notin Organizers
    <3>1. request'[s].pc = "status.leave" /\ request'[s].user = r.user /\ UNCHANGED tables
      BY <1>0, <1>8, <2>3 DEF UpdateStatusOrganizer, Goto, Request
    <3>2. \A u \in Users : Earned(u) => Earned(u)'
      BY <3>1 DEF Earned, Participant, Registered, Organizers
    <3> QED BY <2>1, <3>1, <3>2 DEF Settled, Relies, LeavingLabels
  <2> QED BY <2>2, <2>3
<1>9. CASE UpdateStatusLeave(s) \/ RemoveLeave(s)
  <2>1. \A u \in Users : Earned(u) \/ r.user = u
    BY <1>0 DEF Settled
  <2>2. /\ member' = [member EXCEPT ![r.user] = "NONE"]
        /\ UNCHANGED <<organizer, registration>> /\ End(s)
    BY <1>9 DEF UpdateStatusLeave, RemoveLeave, LeaveChat
  <2>3. \A u \in Users : Earned(u)'
    BY <2>1, <2>2 DEF Earned, Participant, Registered, Organizers
  <2> QED BY <1>1, <2>2, <2>3
<1>10. CASE ApproveAllWrite(s)
  <2>1. \A u \in Users : Earned(u)
    BY <1>3, <1>10 DEF ApproveAllWrite, LeavingLabels
  <2>2. UNCHANGED <<organizer, member>> /\ End(s)
    BY <1>10 DEF ApproveAllWrite
  <2>3. \A u \in Users : Participant(u) => Participant(u)'
    BY <1>10 DEF ApproveAllWrite, Participant, Registered, Registration, NoRow
  <2>4. \A u \in Users : Earned(u)'
    BY <2>1, <2>2, <2>3, EarnedStays DEF Organizers
  <2> QED BY <1>1, <2>2, <2>4
<1>11. CASE RemoveDelete(s)
  <2>1. \A u \in Users : Earned(u)
    BY <1>3, <1>11 DEF RemoveDelete, LeavingLabels
  <2>2. CASE ~Registered(r.user) \/ registration[r.user].row # r.row
    BY <1>1, <1>2, <1>11, <2>1, <2>2 DEF RemoveDelete
  <2>3. CASE ~(~Registered(r.user) \/ registration[r.user].row # r.row)
    <3>1. /\ registration' = [registration EXCEPT ![r.user] = NoRow]
          /\ UNCHANGED <<organizer, member>>
          /\ request'[s].pc = "remove.leave" /\ request'[s].user = r.user
      BY <1>0, <1>11, <2>3 DEF RemoveDelete, Goto, Request
    <3>2. \A u \in Users \ {r.user} : Earned(u)'
      BY <2>1, <3>1 DEF Earned, Participant, Registered, Organizers
    <3> QED BY <3>1, <3>2 DEF Settled, Relies, LeavingLabels
  <2> QED BY <2>2, <2>3
<1> QED BY <1>4, <1>5, <1>6, <1>7, <1>8, <1>9, <1>10, <1>11 DEF RegistrationsStep

LEMMA AttendanceSettle ==
  ASSUME TypeInv, NEW s \in Slots, Settled(request[s]), AttendanceStep(s)
  PROVE  Settled(request[s])'
<1> PICK r : r = request[s]
  OBVIOUS
<1> USE DEF TypeInv, TypeOK, At, Throw, tables
<1>0. r \in Request /\ LocalOK(r) /\ request \in [Slots -> Request] /\ Settled(r)
  OBVIOUS
<1>1. /\ UNCHANGED <<organizer, member>>
      /\ \A u \in Users : Earned(u)
  BY <1>0 DEF AttendanceStep, CheckInRead, CheckInRecord, CheckInMark, Settled, LeavingLabels
<1>2. \A u \in Users : Participant(u) => Participant(u)'
  BY DEF AttendanceStep, CheckInRead, CheckInRecord, CheckInMark, Participant, Registered,
         Registration, NoRow
<1>3. \A u \in Users : Earned(u)'
  BY <1>1, <1>2, EarnedStays DEF Organizers
<1>4. request'[s].pc \in {"idle", "checkin.record", "checkin.mark"}
  <2>1. CASE CheckInRead(s)
    <3> DEFINE row == registration[r.user]
               q == [r EXCEPT !.pc = "checkin.record", !.row = row.row, !.seen = row.status]
    <3>1. End(s) \/ request' = [request EXCEPT ![s] = q]
      BY <2>1 DEF CheckInRead
    <3>2. q.pc = "checkin.record"
      BY <1>0 DEF Request
    <3> HIDE DEF q
    <3> QED BY <1>0, <3>1, <3>2 DEF End, Idle
  <2>2. CASE CheckInRecord(s) \/ CheckInMark(s)
    BY <1>0, <2>2 DEF CheckInRecord, CheckInMark, End, Goto, Idle, Request
  <2> QED BY <2>1, <2>2 DEF AttendanceStep
<1> QED BY <1>3, <1>4 DEF Settled, Relies, LeavingLabels

LEMMA OrganizersSettle ==
  ASSUME TypeInv, NEW s \in Slots, Settled(request[s]), OrganizersStep(s)
  PROVE  Settled(request[s])'
<1> PICK r : r = request[s]
  OBVIOUS
<1> USE DEF TypeInv, TypeOK, At, Throw, tables
<1>0. r \in Request /\ LocalOK(r) /\ request \in [Slots -> Request] /\ Settled(r)
  OBVIOUS
<1>1. ASSUME \A u \in Users : Earned(u)', End(s)
      PROVE  Settled(request[s])'
  BY <1>0, <1>1 DEF End, Idle, Settled, Relies, LeavingLabels
<1>2. ASSUME UNCHANGED <<registration, organizer, member>>, NEW u \in Users, Earned(u)
      PROVE  Earned(u)'
  BY <1>2 DEF Earned, Participant, Registered, Organizers
<1>3. ASSUME r.pc \notin LeavingLabels PROVE \A u \in Users : Earned(u)
  BY <1>0, <1>3 DEF Settled
<1>4. CASE EventStatusWrite(s) \/ EventDeleteWrite(s)
  <2>1. \A u \in Users : Earned(u)
    BY <1>3, <1>4 DEF EventStatusWrite, EventDeleteWrite, LeavingLabels
  <2>2. UNCHANGED <<registration, organizer, member>> /\ End(s)
    BY <1>4 DEF EventStatusWrite, EventDeleteWrite
  <2> QED BY <1>1, <1>2, <2>1, <2>2
<1>5. CASE AddOrganizerCreate(s)
  <2>1. \A u \in Users : Earned(u)
    BY <1>3, <1>5 DEF AddOrganizerCreate, LeavingLabels
  <2>2. CASE r.user \in Organizers
    BY <1>1, <1>2, <1>5, <2>1, <2>2 DEF AddOrganizerCreate
  <2>3. CASE r.user \notin Organizers
    <3>1. r.user \in Users /\ r.seen \in OrganizerRole
      BY <1>0, <1>5 DEF AddOrganizerCreate, LocalOK, UserLabels, Labels
    <3>2. /\ organizer' = [organizer EXCEPT ![r.user] = r.seen]
          /\ UNCHANGED <<registration, member>>
          /\ request'[s].pc = "organizer.promote" /\ request'[s].user = r.user
      BY <1>0, <1>5, <2>3 DEF AddOrganizerCreate, Goto, Request
    <3>3. Organizers' = Organizers \cup {r.user}
      BY <3>1, <3>2 DEF Organizers, OrganizerRole
    <3>4. \A u \in Users : Earned(u)'
      BY <2>1, <3>2, <3>3 DEF Earned, Participant, Registered
    <3> QED BY <3>2, <3>3, <3>4 DEF Settled, Relies
  <2> QED BY <2>2, <2>3
<1>6. CASE AddOrganizerPromote(s)
  <2>1. (\A u \in Users : Earned(u)) /\ r.user \in Organizers
    BY <1>0, <1>3, <1>6 DEF AddOrganizerPromote, LeavingLabels, Settled, Relies
  <2>2. /\ member' = [member EXCEPT ![r.user] = "ADMIN"]
        /\ UNCHANGED <<organizer, registration>> /\ End(s)
    BY <1>6 DEF AddOrganizerPromote, JoinAsAdmin
  <2>3. \A u \in Users : Earned(u)'
    BY <2>1, <2>2 DEF Earned, Participant, Registered, Organizers
  <2> QED BY <1>1, <2>2, <2>3
<1>7. CASE RemoveOrganizerCount(s)
  <2>1. \A u \in Users : Earned(u)
    BY <1>3, <1>7 DEF RemoveOrganizerCount, LeavingLabels
  <2>2. UNCHANGED tables
    BY <1>7 DEF RemoveOrganizerCount
  <2>3. CASE Goto(s, "organizer.delete")
    <3>1. request'[s].pc = "organizer.delete"
      BY <1>0, <2>3 DEF Goto, Request
    <3> QED BY <1>2, <2>1, <2>2, <3>1 DEF Settled, Relies
  <2> QED BY <1>1, <1>2, <1>7, <2>1, <2>2, <2>3 DEF RemoveOrganizerCount
<1>8. CASE RemoveOrganizerDelete(s)
  <2>1. \A u \in Users : Earned(u)
    BY <1>3, <1>8 DEF RemoveOrganizerDelete, LeavingLabels
  <2>2. CASE r.user \notin Organizers
    BY <1>1, <1>2, <1>8, <2>1, <2>2 DEF RemoveOrganizerDelete
  <2>3. CASE r.user \in Organizers
    <3>1. /\ organizer' = [organizer EXCEPT ![r.user] = "NONE"]
          /\ UNCHANGED <<registration, member>>
          /\ request'[s].pc = "organizer.participant" /\ request'[s].user = r.user
      BY <1>0, <1>8, <2>3 DEF RemoveOrganizerDelete, Goto, Request
    <3>2. \A u \in Users \ {r.user} : Earned(u)'
      BY <2>1, <3>1 DEF Earned, Participant, Registered, Organizers
    <3> QED BY <3>1, <3>2 DEF Settled, Relies, LeavingLabels
  <2> QED BY <2>2, <2>3
<1>9. CASE RemoveOrganizerParticipant(s)
  <2>1. \A u \in Users : Earned(u) \/ r.user = u
    BY <1>0 DEF Settled
  <2>2. UNCHANGED tables
    BY <1>9 DEF RemoveOrganizerParticipant
  <2>3. CASE registration[r.user].status \in RegistrationStatus \ {"CANCELLED"}
    <3>1. request'[s].pc = "organizer.demote" /\ request'[s].user = r.user
      BY <1>0, <1>9, <2>3 DEF RemoveOrganizerParticipant, Goto, Request
    <3>2. Participant(r.user)'
      BY <2>2, <2>3 DEF Participant, Registered, NoRow, RegistrationStatus, Active, Inactive
    <3> QED BY <1>2, <2>1, <2>2, <3>1, <3>2 DEF Settled, Relies, LeavingLabels
  <2>4. CASE registration[r.user].status \notin RegistrationStatus \ {"CANCELLED"}
    <3>1. request'[s].pc = "organizer.leave" /\ request'[s].user = r.user
      BY <1>0, <1>9, <2>4 DEF RemoveOrganizerParticipant, Goto, Request
    <3> QED BY <1>2, <2>1, <2>2, <3>1 DEF Settled, Relies, LeavingLabels
  <2> QED BY <2>3, <2>4
<1>10. CASE RemoveOrganizerDemote(s)
  <2>1. (\A u \in Users : Earned(u) \/ r.user = u) /\ Participant(r.user)
    BY <1>0, <1>10 DEF RemoveOrganizerDemote, Settled, Relies
  <2>2. /\ member' = [member EXCEPT ![r.user] = IF @ = "NONE" THEN "NONE" ELSE "MEMBER"]
        /\ UNCHANGED <<organizer, registration>> /\ End(s)
    BY <1>10 DEF RemoveOrganizerDemote
  <2>3. \A u \in Users : Earned(u)'
    BY <2>1, <2>2 DEF Earned, Participant, Registered, Organizers
  <2> QED BY <1>1, <2>2, <2>3
<1>11. CASE RemoveOrganizerLeave(s)
  <2>1. \A u \in Users : Earned(u) \/ r.user = u
    BY <1>0 DEF Settled
  <2>2. /\ member' = [member EXCEPT ![r.user] = "NONE"]
        /\ UNCHANGED <<organizer, registration>> /\ End(s)
    BY <1>11 DEF RemoveOrganizerLeave, LeaveChat
  <2>3. \A u \in Users : Earned(u)'
    BY <2>1, <2>2 DEF Earned, Participant, Registered, Organizers
  <2> QED BY <1>1, <2>2, <2>3
<1> QED BY <1>4, <1>5, <1>6, <1>7, <1>8, <1>9, <1>10, <1>11 DEF OrganizersStep

LEMMA EventChatSettle ==
  ASSUME TypeInv, NEW s \in Slots, Settled(request[s]), EventChatStep(s)
  PROVE  Settled(request[s])'
<1> PICK r : r = request[s]
  OBVIOUS
<1> USE DEF TypeInv, TypeOK, At, Throw, tables
<1>0. r \in Request /\ LocalOK(r) /\ request \in [Slots -> Request] /\ Settled(r)
  OBVIOUS
<1>1. ASSUME \A u \in Users : Earned(u)', End(s)
      PROVE  Settled(request[s])'
  BY <1>0, <1>1 DEF End, Idle, Settled, Relies, LeavingLabels
<1>2. \A u \in Users : Earned(u)
  BY <1>0 DEF EventChatStep, KickLeave, KickCancel, SyncAdmin, SyncMember, SyncEnd,
              LeavingLabels, Settled
<1>3. CASE KickLeave(s)
  <2>1. r.user \in Users
    BY <1>0, <1>3 DEF KickLeave, LocalOK, UserLabels, Labels
  <2>2. /\ member' = [member EXCEPT ![r.user] = "NONE"]
        /\ UNCHANGED <<organizer, registration>>
        /\ request'[s].pc = "kick.cancel" /\ request'[s].user = r.user
    BY <1>0, <1>3 DEF KickLeave, LeaveChat, Goto, Request
  <2>3. \A u \in Users : Earned(u)'
    BY <1>2, <2>2 DEF Earned, Participant, Registered, Organizers
  <2> QED BY <2>1, <2>2, <2>3 DEF Settled, Relies
<1>4. CASE KickCancel(s)
  <2>1. member[r.user] = "NONE"
    BY <1>0, <1>4 DEF KickCancel, Settled, Relies
  <2>2. /\ \A u \in Users \ {r.user} : registration'[u] = registration[u]
        /\ UNCHANGED <<organizer, member>> /\ End(s)
    BY <1>4 DEF KickCancel
  <2>3. \A u \in Users : Earned(u)'
    BY <1>2, <2>1, <2>2 DEF Earned, Participant, Registered, Organizers
  <2> QED BY <1>1, <2>2, <2>3
<1>5. CASE SyncAdmin(s)
  <2>1. PICK w \in r.admins : /\ member' = [member EXCEPT ![w] = "ADMIN"]
                              /\ request' = [request EXCEPT ![s].admins = @ \ {w}]
    BY <1>5 DEF SyncAdmin, JoinAsAdmin
  <2>2. r.admins \subseteq Organizers /\ \A u \in r.joins : Participant(u)
    BY <1>0, <1>5 DEF SyncAdmin, Settled, Relies
  <2>3. UNCHANGED <<organizer, registration>>
    BY <1>5 DEF SyncAdmin
  <2>4. \A u \in Users : Earned(u)'
    BY <1>2, <2>1, <2>2, <2>3 DEF Earned, Participant, Registered, Organizers
  <2>5. /\ request'[s].pc = "sync.join" /\ request'[s].joins = r.joins
        /\ request'[s].admins = r.admins \ {w}
    BY <1>0, <1>5, <2>1 DEF SyncAdmin, Request
  <2>6. r.admins \ {w} \subseteq Organizers' /\ \A u \in r.joins : Participant(u)'
    BY <2>2, <2>3 DEF Participant, Registered, Organizers
  <2> QED BY <2>4, <2>5, <2>6 DEF Settled, Relies
<1>6. CASE SyncMember(s)
  <2>1. PICK w \in r.joins : /\ member' = [member EXCEPT ![w] = IF @ = "NONE" THEN "MEMBER" ELSE @]
                             /\ request' = [request EXCEPT ![s].joins = @ \ {w}]
    BY <1>6 DEF SyncMember, JoinAsMember
  <2>2. r.admins \subseteq Organizers /\ \A u \in r.joins : Participant(u)
    BY <1>0, <1>6 DEF SyncMember, Settled, Relies
  <2>3. UNCHANGED <<organizer, registration>>
    BY <1>6 DEF SyncMember
  <2>4. \A u \in Users : Earned(u)'
    BY <1>2, <2>1, <2>2, <2>3 DEF Earned, Participant, Registered, Organizers
  <2>5. /\ request'[s].pc = "sync.join" /\ request'[s].joins = r.joins \ {w}
        /\ request'[s].admins = r.admins
    BY <1>0, <1>6, <2>1 DEF SyncMember, Request
  <2>6. r.admins \subseteq Organizers' /\ \A u \in r.joins : Participant(u)'
    BY <2>2, <2>3 DEF Participant, Registered, Organizers
  <2> QED BY <2>4, <2>5, <2>6 DEF Settled, Relies
<1>7. CASE SyncEnd(s)
  <2>1. UNCHANGED tables /\ End(s)
    BY <1>7 DEF SyncEnd
  <2>2. \A u \in Users : Earned(u)'
    BY <1>2, <2>1 DEF Earned, Participant, Registered, Organizers
  <2> QED BY <1>1, <2>1, <2>2
<1> QED BY <1>3, <1>4, <1>5, <1>6, <1>7 DEF EventChatStep

LEMMA ArriveSettles ==
  ASSUME TypeInv, NEW s \in Slots, Settled(request[s]), Arrive(s)
  PROVE  Settled(request[s])'
<1> USE DEF TypeInv, TypeOK
<1>1. request[s] = Idle /\ Idle \in Request
  BY IdleOK DEF Arrive, RegistrationsBegin, AttendanceBegin, OrganizersBegin, EventChatBegin,
       RegisterBegin, UpdateStatusBegin, ApproveAllBegin, RemoveBegin, CheckInBegin,
       EventStatusBegin, EventDeleteBegin, AddOrganizerBegin, RemoveOrganizerBegin,
       KickBegin, SyncBegin, Begin
<1>2. \A u \in Users : Earned(u)
  BY <1>1 DEF Settled, Idle, LeavingLabels
<1>3. UNCHANGED tables
  BY ArriveWrites
<1>4. \A u \in Users : Earned(u)'
  BY <1>2, <1>3 DEF tables, Earned, Participant, Registered, Organizers
<1>5. ASSUME NEW op, NEW r, Begin(op, s, r), r.pc \notin LeavingLabels,
             Relies(r)
      PROVE  Settled(request[s])'
  <2>1. request'[s] = r
    BY <1>5 DEF Begin
  <2>2. Relies(r)'
    BY <1>3, <1>5 DEF tables, Relies, Participant, Registered, Organizers
  <2> QED BY <1>4, <1>5, <2>1, <2>2 DEF Settled
<1>6. ASSUME NEW op, NEW r, Begin(op, s, r),
             r.pc \notin LeavingLabels
               \cup {"register.create", "register.join", "organizer.promote",
                     "organizer.demote", "kick.cancel", "sync.join"},
             r.i = 1
      PROVE  Settled(request[s])'
  BY <1>5, <1>6 DEF Relies
<1>7. CASE SyncBegin(s)
  <2> DEFINE r == [Idle EXCEPT !.pc = "sync.join", !.admins = Organizers,
                               !.joins = {u \in Users : /\ Registered(u)
                                                        /\ registration[u].status # "CANCELLED"}]
  <2>1. Begin("sync", s, r)
    BY <1>7 DEF SyncBegin
  <2>2. /\ r.pc = "sync.join" /\ r.admins = Organizers
        /\ r.joins = {u \in Users : Participant(u)}
    BY <1>1 DEF Request, Participant
  <2> HIDE DEF r
  <2>3. Relies(r) /\ r.pc \notin LeavingLabels
    BY <2>2 DEF Relies, LeavingLabels
  <2> QED BY <1>5, <2>1, <2>3
<1>8. CASE RegistrationsBegin(s)
  BY <1>1, <1>6, <1>8, IdleOK
  DEF RegistrationsBegin, RegisterBegin, UpdateStatusBegin, ApproveAllBegin, RemoveBegin,
      Request, LeavingLabels
<1>9. CASE AttendanceBegin(s)
  BY <1>1, <1>6, <1>9, IdleOK DEF AttendanceBegin, CheckInBegin, Request, LeavingLabels
<1>10. CASE OrganizersBegin(s)
  BY <1>1, <1>6, <1>10, IdleOK
  DEF OrganizersBegin, EventStatusBegin, EventDeleteBegin, AddOrganizerBegin,
      RemoveOrganizerBegin, Request, LeavingLabels
<1>11. ASSUME NEW u \in Users, KickBegin(s, u) PROVE Settled(request[s])'
  BY <1>1, <1>6, <1>11, IdleOK DEF KickBegin, Request, LeavingLabels
<1> QED BY <1>7, <1>8, <1>9, <1>10, <1>11 DEF Arrive, EventChatBegin

\* When requests neither overlap nor die, the seats of the chat are earned
\* whenever no request is in flight.
THEOREM SeatsEarned ==
  ASSUME NEW only, Slots = {only}, ~MayFail
  PROVE  Spec => []SeatsAreEarned
<1>1. Init => SeatsInv
  <2> SUFFICES ASSUME Init, NEW s \in Slots PROVE Settled(request[s])
    BY DEF SeatsInv
  <2>1. \A u \in Users : Earned(u)
    BY UsersAssumption DEF Init, Earned, Organizers
  <2> QED BY <2>1, SettledIdle DEF Init
<1>2. TypeInv /\ SeatsInv /\ [Next]_vars => SeatsInv'
  <2> SUFFICES ASSUME TypeInv, SeatsInv, [Next]_vars
               PROVE  SeatsInv'
    OBVIOUS
  <2>1. CASE UNCHANGED vars
    BY <2>1 DEF vars, SeatsInv, Settled, Relies, Earned, Participant, Registered, Organizers
  <2>2. ASSUME Arrive(only) \/ Step(only)
        PROVE  SeatsInv'
    <3>1. only \in Slots /\ Settled(request[only])
      BY DEF SeatsInv
    <3>2. Settled(request[only])'
      BY <2>2, <3>1, ArriveSettles, RegistrationsSettle, AttendanceSettle,
         OrganizersSettle, EventChatSettle DEF Step
    <3> QED BY <3>2 DEF SeatsInv
  <2>3. ~Fail(only)
    BY DEF Fail
  <2> QED BY <2>1, <2>2, <2>3 DEF Next
<1>3. SeatsInv => SeatsAreEarned
  <2> SUFFICES ASSUME SeatsInv, \A s \in Slots : At(s, "idle"), NEW u \in Users
               PROVE  Earned(u)
    BY DEF SeatsAreEarned, Earned, Participant
  <2>1. Settled(request[only]) /\ request[only].pc = "idle"
    BY DEF SeatsInv, At
  <2> QED BY <2>1 DEF Settled, LeavingLabels
<1> QED BY <1>1, <1>2, <1>3, AlwaysTypeInv, PTL DEF Spec
=============================================================================
