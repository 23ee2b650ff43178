------------------------ MODULE FestTicketing_proofs ------------------------
(***************************************************************************)
(* Theorems about FestTicketing, for every number of users, fests, years   *)
(* and requests in flight.                                                 *)
(***************************************************************************)
EXTENDS FestTicketing, FiniteSetTheorems, TLAPS

-----------------------------------------------------------------------------
(***************************************************************************)
(* Type correctness, with what the locals of a request are at each         *)
(* statement: what is active exists, and what a request refers to exists.  *)
(***************************************************************************)
UserLabels == {"auto.fest", "auto.register", "my.fest", "my.register",
               "ticket.count", "ticket.create"}

\* The labels at which a request holds a fest that it read as active.
FestLabels == {"auto.register", "my.register", "ticket.count", "ticket.create"}

LocalOK(r) ==
  /\ r.pc \in UserLabels => r.user \in Users
  /\ r.pc \in FestLabels => r.fest \in Fests /\ r.year \in Years
  /\ r.pc = "ticket.create" => r.seq # 0
  /\ r.pc = "fest.write" => r.fest \in Fests /\ (r.year \in Years \/ Exists(r.fest))

TypeInv == /\ TypeOK
           /\ \A f \in active : Exists(f)
           /\ \A s \in Slots : LocalOK(request[s])

LEMMA SizeType ==
  /\ Cardinality(Users) \in Nat
  /\ \A f \in Fests : /\ IsFiniteSet(Holders(f))
                      /\ Cardinality(Holders(f)) \in Nat
                      /\ Cardinality(Holders(f)) <= Cardinality(Users)
<1>1. IsFiniteSet(Users)
  BY SetsAssumption
<1>2. \A f \in Fests : Holders(f) \in SUBSET Users
  BY DEF Holders
<1> QED BY <1>1, <1>2, FS_Subset, FS_CardinalityType

LEMMA IdleOK == Idle \in Request /\ LocalOK(Idle)
<1>1. Idle \in Request
  BY SizeType DEF Idle, Request
<1> QED BY <1>1 DEF Idle, LocalOK, UserLabels, FestLabels

\* A step of one request that leaves the years alone.
LEMMA RequestStep ==
  ASSUME TypeInv, NEW s \in Slots, NEW r \in Request, LocalOK(r),
         request' = [request EXCEPT ![s] = r], UNCHANGED year
  PROVE  request' \in [Slots -> Request] /\ \A t \in Slots : LocalOK(request[t])'
<1>1. request' \in [Slots -> Request] /\ \A t \in Slots : request'[t] = IF t = s THEN r ELSE request[t]
  BY DEF TypeInv, TypeOK
<1> QED BY <1>1 DEF TypeInv, LocalOK, Exists

LEMMA EndStep ==
  ASSUME TypeInv, NEW s \in Slots, End(s), UNCHANGED year
  PROVE  request' \in [Slots -> Request] /\ \A t \in Slots : LocalOK(request[t])'
BY IdleOK, RequestStep DEF End

LEMMA GotoStep ==
  ASSUME TypeInv, NEW s \in Slots, NEW l, Goto(s, l), UNCHANGED year,
         request[s].pc \in FestLabels, l = "ticket.count"
  PROVE  request' \in [Slots -> Request] /\ \A t \in Slots : LocalOK(request[t])'
<1> DEFINE r == [request[s] EXCEPT !.pc = l]
<1>1. request[s] \in Request /\ LocalOK(request[s])
  BY DEF TypeInv, TypeOK
<1>2. r \in Request
  BY <1>1 DEF Request
<1>3. r.pc = "ticket.count" /\ r.user = request[s].user /\ r.fest = request[s].fest /\ r.year = request[s].year
  BY <1>1 DEF Request
<1>4. request' = [request EXCEPT ![s] = r]
  BY DEF Goto
<1> HIDE DEF r
<1>5. LocalOK(r)
  BY <1>1, <1>3 DEF LocalOK, UserLabels, FestLabels
<1> QED BY <1>2, <1>4, <1>5, RequestStep

LEMMA BeginStep ==
  ASSUME TypeInv, NEW s \in Slots, NEW op, NEW r \in Request, LocalOK(r),
         Begin(op, s, r), UNCHANGED year
  PROVE  request' \in [Slots -> Request] /\ \A t \in Slots : LocalOK(request[t])'
BY RequestStep DEF Begin

LEMMA FestStepType ==
  ASSUME TypeInv, NEW s \in Slots,
         \/ \E f \in Fests, y \in Years, switch \in {"on", "off"} :
              CreateFestBegin(s, f, y, switch)
         \/ \E f \in Fests, y \in Years \cup {None}, switch \in {"on", "off", "keep"} :
              UpdateFestBegin(s, f, y, switch)
         \/ FestWrite(s)
  PROVE  TypeInv'
<1> USE DEF TypeInv, TypeOK
<1>1. ASSUME NEW f \in Fests, NEW y \in Years \cup {None}, NEW switch \in {"on", "off", "keep"},
             y \in Years \/ Exists(f), NEW op,
             Begin(op, s, [Idle EXCEPT !.pc = "fest.write", !.fest = f,
                                       !.year = y, !.switch = switch]),
             active' \subseteq active,
             UNCHANGED <<account, year, registration, ticket>>
      PROVE  TypeInv'
  <2> DEFINE r == [Idle EXCEPT !.pc = "fest.write", !.fest = f, !.year = y, !.switch = switch]
  <2>1. r \in Request
    BY IdleOK DEF Request
  <2>2. r.pc = "fest.write" /\ r.fest = f /\ r.year = y
    BY IdleOK DEF Request
  <2>3. Begin(op, s, r)
    BY <1>1
  <2> HIDE DEF r
  <2>4. LocalOK(r)
    BY <1>1, <2>2 DEF LocalOK, UserLabels, FestLabels
  <2>5. request' \in [Slots -> Request] /\ \A t \in Slots : LocalOK(request[t])'
    BY <1>1, <2>1, <2>3, <2>4, BeginStep
  <2> QED BY <1>1, <2>5 DEF Exists
<1>2. ASSUME NEW f \in Fests, NEW y \in Years, NEW switch \in {"on", "off"},
             CreateFestBegin(s, f, y, switch)
      PROVE  TypeInv'
  BY <1>1, <1>2 DEF CreateFestBegin
<1>3. ASSUME NEW f \in Fests, NEW y \in Years \cup {None}, NEW switch \in {"on", "off", "keep"},
             UpdateFestBegin(s, f, y, switch)
      PROVE  TypeInv'
  BY <1>1, <1>3 DEF UpdateFestBegin
<1>4. CASE FestWrite(s)
  <2> DEFINE r == request[s]
  <2>1. r \in Request /\ LocalOK(r) /\ r.pc = "fest.write"
    BY <1>4 DEF FestWrite, At
  <2>2. r.fest \in Fests /\ (r.year \in Years \/ Exists(r.fest)) /\ r.switch \in {"on", "off", "keep"}
    BY <2>1 DEF LocalOK, Request
  <2>3. year' = [year EXCEPT ![r.fest] = IF r.year = None THEN @ ELSE r.year]
    BY <1>4 DEF FestWrite
  <2>4. year' \in [Fests -> Years \cup {None}]
    BY <2>1, <2>2, <2>3 DEF Request
  <2>5. \A f \in Fests : Exists(f) \/ f = r.fest => Exists(f)'
    BY <2>2, <2>3, SetsAssumption DEF Exists
  <2>6. active' \subseteq active \cup {r.fest}
    BY <1>4, <2>2 DEF FestWrite
  <2>7. \A t \in Slots : request'[t] = IF t = s THEN Idle ELSE request[t]
    BY <1>4 DEF FestWrite, End
  <2>8. request' \in [Slots -> Request]
    BY <1>4, IdleOK DEF FestWrite, End
  <2>9. \A t \in Slots : LocalOK(request[t])'
    <3> SUFFICES ASSUME NEW t \in Slots
                 PROVE  LocalOK(request[t])'
      OBVIOUS
    <3>1. CASE t = s
      BY <2>7, <3>1 DEF LocalOK, Idle, UserLabels, FestLabels
    <3>2. CASE t # s
      BY <2>5, <2>7, <3>2 DEF LocalOK
    <3> QED BY <3>1, <3>2
  <2>10. UNCHANGED <<account, registration, ticket>>
    BY <1>4 DEF FestWrite
  <2> HIDE DEF r
  <2>11. active' \subseteq Fests /\ \A f \in active' : Exists(f)'
    BY <2>2, <2>5, <2>6
  <2> QED BY <2>4, <2>8, <2>9, <2>10, <2>11
<1> QED BY <1>2, <1>3, <1>4

LEMMA TicketStepType ==
  ASSUME TypeInv, NEW s \in Slots,
         \/ \E u \in Users : SignUp(s, u) \/ AskTickets(s, u)
         \/ ReadActiveFest(s) \/ AutoRegister(s) \/ MyRegister(s)
         \/ TicketCount(s) \/ TicketCreate(s) \/ Fail(s)
  PROVE  TypeInv'
<1> USE DEF TypeInv, TypeOK, At
<1> DEFINE r == request[s]
<1>0. r \in Request /\ LocalOK(r)
  OBVIOUS
<1>1. ASSUME NEW u \in Users, SignUp(s, u)
      PROVE  TypeInv'
  <2> DEFINE q == [Idle EXCEPT !.pc = "auto.fest", !.user = u]
  <2>1. q \in Request /\ q.pc = "auto.fest" /\ q.user = u
    BY IdleOK DEF Request
  <2>2. Begin("signUp", s, q) /\ account' = account \cup {u}
        /\ UNCHANGED <<year, active, registration, ticket>>
    BY <1>1 DEF SignUp
  <2> HIDE DEF q
  <2>3. LocalOK(q)
    BY <2>1 DEF LocalOK, UserLabels, FestLabels
  <2> QED BY <2>1, <2>2, <2>3, BeginStep DEF Exists
<1>2. ASSUME NEW u \in Users, AskTickets(s, u)
      PROVE  TypeInv'
  <2> DEFINE q == [Idle EXCEPT !.pc = "my.fest", !.user = u]
  <2>1. q \in Request /\ q.pc = "my.fest" /\ q.user = u
    BY IdleOK DEF Request
  <2>2. Begin("askTickets", s, q) /\ UNCHANGED tables
    BY <1>2 DEF AskTickets
  <2> HIDE DEF q
  <2>3. LocalOK(q)
    BY <2>1 DEF LocalOK, UserLabels, FestLabels
  <2> QED BY <2>1, <2>2, <2>3, BeginStep DEF Exists, tables
<1>3. CASE ReadActiveFest(s)
  <2>1. CASE End(s) /\ UNCHANGED tables
    BY <2>1, EndStep DEF tables, Exists
  <2>2. ASSUME NEW f \in active,
               request' = [request EXCEPT
                 ![s].pc = IF At(s, "auto.fest") THEN "auto.register" ELSE "my.register",
                 ![s].fest = f,
                 ![s].year = year[f]]
        PROVE  TypeInv'
    <3> DEFINE l == IF At(s, "auto.fest") THEN "auto.register" ELSE "my.register"
               q == [r EXCEPT !.pc = l, !.fest = f, !.year = year[f]]
    <3>1. f \in Fests /\ year[f] \in Years /\ l \in {"auto.register", "my.register"}
      BY DEF Exists
    <3>2. r.user \in Users
      BY <1>0, <1>3 DEF ReadActiveFest, LocalOK, UserLabels
    <3> HIDE DEF l
    <3>3. q \in Request /\ q.pc = l /\ q.user = r.user /\ q.fest = f /\ q.year = year[f]
      BY <1>0, <3>1 DEF Request
    <3>4. request' = [request EXCEPT ![s] = q]
      BY <2>2 DEF l
    <3> HIDE DEF q
    <3>5. LocalOK(q)
      BY <3>1, <3>2, <3>3 DEF LocalOK, UserLabels, FestLabels
    <3>6. UNCHANGED tables
      BY <1>3 DEF ReadActiveFest
    <3> QED BY <3>3, <3>4, <3>5, <3>6, RequestStep DEF tables, Exists
  <2> QED BY <1>3, <2>1, <2>2 DEF ReadActiveFest
<1>4. CASE AutoRegister(s) \/ MyRegister(s)
  <2>1. r.pc \in FestLabels /\ r.fest \in Fests /\ r.user \in Users
    BY <1>0, <1>4 DEF AutoRegister, MyRegister, LocalOK, UserLabels, FestLabels
  <2>2. CASE End(s) /\ UNCHANGED tables
    BY <2>2, EndStep DEF tables, Exists
  <2>3. CASE /\ registration' = [registration EXCEPT ![r.fest] = @ \cup {r.user}]
             /\ Goto(s, "ticket.count")
             /\ UNCHANGED <<account, year, active, ticket>>
    <3>1. registration' \in [Fests -> SUBSET Users]
      BY <2>1, <2>3
    <3> QED BY <2>1, <2>3, <3>1, GotoStep DEF Exists
  <2> QED BY <1>4, <2>2, <2>3 DEF AutoRegister, MyRegister
<1>5. CASE TicketCount(s)
  <2> DEFINE n == Cardinality(Holders(r.fest)) + 1
             q == [r EXCEPT !.pc = "ticket.create", !.seq = n]
  <2>1. r.fest \in Fests /\ r.user \in Users /\ r.year \in Years
    BY <1>0, <1>5 DEF TicketCount, LocalOK, UserLabels, FestLabels
  <2>2. n \in 0..(Cardinality(Users) + 1) /\ n # 0
    BY <2>1, SizeType
  <2> HIDE DEF n
  <2>3. q \in Request /\ q.pc = "ticket.create" /\ q.user = r.user /\ q.fest = r.fest
        /\ q.year = r.year /\ q.seq = n
    BY <1>0, <2>2 DEF Request
  <2>4. request' = [request EXCEPT ![s] = q]
    BY <1>5 DEF TicketCount, n
  <2> HIDE DEF q
  <2>5. LocalOK(q)
    BY <2>1, <2>2, <2>3 DEF LocalOK, UserLabels, FestLabels
  <2>6. UNCHANGED tables
    BY <1>5 DEF TicketCount
  <2> QED BY <2>3, <2>4, <2>5, <2>6, RequestStep DEF tables, Exists
<1>6. CASE TicketCreate(s)
  <2> DEFINE n == [year |-> r.year, seq |-> r.seq]
  <2>1. r.fest \in Fests /\ r.user \in Users /\ r.year \in Years /\ r.seq # 0
    BY <1>0, <1>6 DEF TicketCreate, LocalOK, UserLabels, FestLabels
  <2>2. n \in TicketNumber
    BY <1>0, <2>1, SizeType DEF Request, TicketNumber
  <2>3. CASE Throw(s)
    BY <2>3, EndStep DEF Throw, tables, Exists
  <2>4. CASE /\ ticket' = [ticket EXCEPT ![r.fest][r.user] = n]
             /\ End(s)
             /\ UNCHANGED <<account, year, active, registration>>
    <3>1. ticket' \in [Fests -> [Users -> TicketNumber \cup {NoTicket}]]
      BY <2>1, <2>2, <2>4
    <3> QED BY <2>4, <3>1, EndStep DEF Exists
  <2> QED BY <1>6, <2>3, <2>4 DEF TicketCreate
<1>7. CASE Fail(s)
  BY <1>7, EndStep DEF Fail, Throw, tables, Exists
<1> QED BY <1>1, <1>2, <1>3, <1>4, <1>5, <1>6, <1>7

LEMMA InitType == Init => TypeInv
<1> SUFFICES ASSUME Init
             PROVE  TypeInv
  OBVIOUS
<1>1. TypeOK
  BY IdleOK DEF Init, TypeOK
<1> QED BY <1>1, IdleOK DEF Init, TypeInv

LEMMA NextType == TypeInv /\ [Next]_vars => TypeInv'
<1> SUFFICES ASSUME TypeInv, [Next]_vars
             PROVE  TypeInv'
  OBVIOUS
<1>1. CASE UNCHANGED vars
  BY <1>1 DEF vars, TypeInv, TypeOK, LocalOK, Exists
<1>2. ASSUME NEW s \in Slots, Arrive(s) \/ Step(s) \/ Fail(s)
      PROVE  TypeInv'
  BY <1>2, FestStepType, TicketStepType DEF Arrive, Step
<1> QED BY <1>1, <1>2 DEF Next

LEMMA AlwaysTypeInv == Spec => []TypeInv
BY InitType, NextType, PTL DEF Spec

\* The tables and the requests in flight always have their types: above all,
\* every ticket bears a year, although a fest is read long before the insert.
THEOREM TypeCorrect == Spec => []TypeOK
BY AlwaysTypeInv, PTL DEF TypeInv

-----------------------------------------------------------------------------
(***************************************************************************)
(* Who goes where: a step moves one request, and each statement on the way *)
(* to a ticket is reached only from the one before it.                     *)
(***************************************************************************)
FestBegin(s) ==
  \/ \E f \in Fests, y \in Years, switch \in {"on", "off"} : CreateFestBegin(s, f, y, switch)
  \/ \E f \in Fests, y \in Years \cup {None}, switch \in {"on", "off", "keep"} :
       UpdateFestBegin(s, f, y, switch)

Follows(s) ==
  /\ \A t \in Slots \ {s} : request'[t] = request[t]
  /\ request'[s].pc \in {"auto.register", "my.register"} => ReadActiveFest(s)
  /\ request'[s].pc = "ticket.count" => AutoRegister(s) \/ MyRegister(s)
  /\ request'[s].pc = "ticket.create" => TicketCount(s)
  /\ request'[s].pc = "fest.write" => FestBegin(s)

LEMMA FollowsStep ==
  ASSUME TypeInv, NEW s \in Slots, Arrive(s) \/ Step(s) \/ Fail(s)
  PROVE  Follows(s)
<1> USE DEF TypeInv, TypeOK, Follows
<1>1. ASSUME NEW r, request' = [request EXCEPT ![s] = r],
             \/ r.pc \in {"idle", "auto.fest", "my.fest"}
             \/ r.pc = "fest.write" /\ FestBegin(s)
             \/ r.pc \in {"auto.register", "my.register"} /\ ReadActiveFest(s)
             \/ r.pc = "ticket.count" /\ (AutoRegister(s) \/ MyRegister(s))
             \/ r.pc = "ticket.create" /\ TicketCount(s)
      PROVE  Follows(s)
  BY <1>1
<1>2. ASSUME End(s)
      PROVE  Follows(s)
  BY <1>1, <1>2 DEF End, Idle
<1>3. ASSUME Goto(s, "ticket.count"), AutoRegister(s) \/ MyRegister(s)
      PROVE  Follows(s)
  <2> DEFINE q == [request[s] EXCEPT !.pc = "ticket.count"]
  <2>1. q.pc = "ticket.count"
    BY DEF Request
  <2>2. request' = [request EXCEPT ![s] = q]
    BY <1>3 DEF Goto
  <2> HIDE DEF q
  <2> QED BY <1>1, <1>3, <2>1, <2>2
<1>4. CASE FestBegin(s)
  <2>1. PICK f, y, switch :
          request' = [request EXCEPT ![s] =
            [Idle EXCEPT !.pc = "fest.write", !.fest = f, !.year = y, !.switch = switch]]
    BY <1>4 DEF FestBegin, CreateFestBegin, UpdateFestBegin, Begin
  <2> DEFINE q == [Idle EXCEPT !.pc = "fest.write", !.fest = f, !.year = y, !.switch = switch]
  <2>2. q.pc = "fest.write"
    BY IdleOK DEF Request
  <2>3. request' = [request EXCEPT ![s] = q]
    BY <2>1
  <2> HIDE DEF q
  <2> QED BY <1>1, <1>4, <2>2, <2>3
<1>5. CASE \E u \in Users : SignUp(s, u) \/ AskTickets(s, u)
  <2>1. \A u : /\ [Idle EXCEPT !.pc = "auto.fest", !.user = u].pc = "auto.fest"
                /\ [Idle EXCEPT !.pc = "my.fest", !.user = u].pc = "my.fest"
    BY IdleOK DEF Request
  <2> QED BY <1>1, <1>5, <2>1 DEF SignUp, AskTickets, Begin
<1>6. CASE ReadActiveFest(s)
  <2>1. CASE End(s)
    BY <1>2, <2>1
  <2>2. ASSUME NEW f \in active,
               request' = [request EXCEPT
                 ![s].pc = IF At(s, "auto.fest") THEN "auto.register" ELSE "my.register",
                 ![s].fest = f,
                 ![s].year = year[f]]
        PROVE  Follows(s)
    <3> DEFINE l == IF At(s, "auto.fest") THEN "auto.register" ELSE "my.register"
               q == [request[s] EXCEPT !.pc = l, !.fest = f, !.year = year[f]]
    <3>1. l \in {"auto.register", "my.register"}
      OBVIOUS
    <3> HIDE DEF l
    <3>2. q.pc = l
      BY DEF Request
    <3>3. request' = [request EXCEPT ![s] = q]
      BY <2>2 DEF l
    <3> HIDE DEF q
    <3> QED BY <1>1, <1>6, <3>1, <3>2, <3>3
  <2> QED BY <1>6, <2>1, <2>2 DEF ReadActiveFest
<1>7. CASE AutoRegister(s) \/ MyRegister(s)
  BY <1>2, <1>3, <1>7 DEF AutoRegister, MyRegister
<1>8. CASE TicketCount(s)
  <2> DEFINE q == [request[s] EXCEPT !.pc = "ticket.create",
                                     !.seq = Cardinality(Holders(request[s].fest)) + 1]
  <2>1. q.pc = "ticket.create"
    BY DEF Request
  <2>2. request' = [request EXCEPT ![s] = q]
    BY <1>8 DEF TicketCount
  <2> HIDE DEF q
  <2> QED BY <1>1, <1>8, <2>1, <2>2
<1>9. CASE TicketCreate(s) \/ FestWrite(s) \/ Fail(s)
  BY <1>2, <1>9 DEF TicketCreate, FestWrite, Fail, Throw
<1> QED BY <1>4, <1>5, <1>6, <1>7, <1>8, <1>9 DEF Arrive, Step, FestBegin

\* Who writes tickets and registrations.
LEMMA TicketWriters ==
  ASSUME NEW s \in Slots, Arrive(s) \/ Step(s) \/ Fail(s)
  PROVE  /\ UNCHANGED ticket \/ TicketCreate(s)
         /\ UNCHANGED registration \/ AutoRegister(s) \/ MyRegister(s)
         /\ UNCHANGED year \/ FestWrite(s)
<1> USE DEF tables, Throw
<1>1. CASE Arrive(s)
  BY <1>1 DEF Arrive, CreateFestBegin, UpdateFestBegin, SignUp, AskTickets
<1>2. CASE Step(s)
  BY <1>2 DEF Step, FestWrite, ReadActiveFest, AutoRegister, MyRegister, TicketCount, TicketCreate
<1>3. CASE Fail(s)
  BY <1>3 DEF Fail
<1> QED BY <1>1, <1>2, <1>3

-----------------------------------------------------------------------------
(***************************************************************************)
(* A ticket has a registration behind it, because a request that is about  *)
(* to count or to insert has.                                              *)
(***************************************************************************)
RegisteredInv ==
  /\ TicketIsRegistered
  /\ \A s \in Slots : request[s].pc \in {"ticket.count", "ticket.create"} =>
       request[s].user \in registration[request[s].fest]

\* However sign-up and ticket request interleave, and wherever they die, no
\* ticket is without a registration for its fest.
THEOREM TicketsRegistered == Spec => []TicketIsRegistered
<1>1. Init => RegisteredInv
  BY DEF Init, RegisteredInv, TicketIsRegistered, Holders, Idle
<1>2. TypeInv /\ RegisteredInv /\ [Next]_vars => RegisteredInv'
  <2> SUFFICES ASSUME TypeInv, RegisteredInv, [Next]_vars
               PROVE  RegisteredInv'
    OBVIOUS
  <2>1. CASE UNCHANGED vars
    BY <2>1 DEF vars, RegisteredInv, TicketIsRegistered, Holders
  <2>2. ASSUME NEW s \in Slots, Arrive(s) \/ Step(s) \/ Fail(s)
        PROVE  RegisteredInv'
    <3> USE DEF TypeInv, TypeOK, At
    <3> DEFINE r == request[s]
    <3>0. Follows(s) /\ r \in Request /\ LocalOK(r)
      BY <2>2, FollowsStep
    <3>1. \A f \in Fests : registration[f] \subseteq registration'[f]
      <4>1. CASE UNCHANGED registration
        BY <4>1
      <4>2. CASE AutoRegister(s) \/ MyRegister(s)
        BY <4>2 DEF AutoRegister, MyRegister, tables
      <4> QED BY <2>2, <4>1, <4>2, TicketWriters
    <3>2. TicketIsRegistered'
      <4>1. CASE UNCHANGED ticket
        BY <3>1, <4>1 DEF RegisteredInv, TicketIsRegistered, Holders
      <4>2. CASE TicketCreate(s)
        <5>1. r.fest \in Fests /\ r.user \in registration[r.fest]
          BY <3>0, <4>2 DEF TicketCreate, LocalOK, FestLabels, RegisteredInv
        <5>2. \A f \in Fests, u \in Users :
                ticket'[f][u] = ticket[f][u] \/ (f = r.fest /\ u = r.user)
          BY <4>2, <5>1 DEF TicketCreate, Throw, tables
        <5> QED BY <3>1, <5>1, <5>2 DEF RegisteredInv, TicketIsRegistered, Holders
      <4> QED BY <2>2, <4>1, <4>2, TicketWriters
    <3>3. ASSUME NEW t \in Slots, request'[t].pc \in {"ticket.count", "ticket.create"}
          PROVE  request'[t].user \in registration'[request'[t].fest]
      <4>1. CASE t # s
        <5>1. request'[t] = request[t]
          BY <3>0, <4>1 DEF Follows
        <5>2. request[t].fest \in Fests /\ request[t].user \in registration[request[t].fest]
          BY <3>3, <5>1 DEF LocalOK, FestLabels, RegisteredInv
        <5> QED BY <3>1, <5>1, <5>2
      <4>2. CASE t = s /\ request'[s].pc = "ticket.count"
        <5>1. AutoRegister(s) \/ MyRegister(s)
          BY <3>0, <4>2 DEF Follows
        <5>2. r.fest \in Fests
          BY <3>0, <5>1 DEF AutoRegister, MyRegister, LocalOK, FestLabels
        <5>3. /\ Goto(s, "ticket.count")
              /\ registration' = [registration EXCEPT ![r.fest] = @ \cup {r.user}]
          BY <4>2, <5>1 DEF AutoRegister, MyRegister, End, Idle
        <5>4. request'[s].user = r.user /\ request'[s].fest = r.fest
          BY <5>3 DEF Goto, Request
        <5> QED BY <4>2, <5>2, <5>3, <5>4
      <4>3. CASE t = s /\ request'[s].pc = "ticket.create"
        <5>1. TicketCount(s)
          BY <3>0, <4>3 DEF Follows
        <5>2. r.fest \in Fests /\ r.user \in registration[r.fest]
          BY <3>0, <5>1 DEF TicketCount, LocalOK, FestLabels, RegisteredInv
        <5>3. request'[s].user = r.user /\ request'[s].fest = r.fest
          BY <5>1 DEF TicketCount, Request
        <5> QED BY <3>1, <4>3, <5>2, <5>3
      <4> QED BY <3>3, <4>1, <4>2, <4>3
    <3> QED BY <3>2, <3>3 DEF RegisteredInv
  <2> QED BY <2>1, <2>2 DEF Next
<1>3. RegisteredInv => TicketIsRegistered
  BY DEF RegisteredInv
<1> QED BY <1>1, <1>2, <1>3, AlwaysTypeInv, PTL DEF Spec

-----------------------------------------------------------------------------
(***************************************************************************)
(* The numbering.  As long as no fest changes its year, the tickets of a   *)
(* fest are the only ones that bear its year and a number in use, so that  *)
(* an insert fails unless it continues the book of its fest.               *)
(***************************************************************************)
\* What a step leaves in the request that it moves.
Leaves(s) ==
  LET r == request[s]
      q == request'[s]
  IN  /\ \/ q.fest \in {None, r.fest}
         \/ Exists(q.fest)
         \/ \A t \in Slots : request[t].fest # q.fest
      /\ q.pc \in {"auto.register", "my.register"} => q.year = year[q.fest]
      /\ q.pc \in {"ticket.count", "ticket.create"} =>
           r.pc \in FestLabels /\ q.fest = r.fest /\ q.year = r.year
      /\ q.pc = "ticket.create" => q.seq = Cardinality(Holders(q.fest)) + 1
      /\ q.pc = "fest.write" /\ q.year # None =>
           ~Exists(q.fest) /\ \A t \in Slots : request[t].fest # q.fest

LEMMA LeavesStep ==
  ASSUME TypeInv, "festYear" \notin Ops, NEW s \in Slots, Arrive(s) \/ Step(s) \/ Fail(s)
  PROVE  Leaves(s)
<1> USE DEF TypeInv, TypeOK
<1>1. CASE End(s)
  <2>1. request'[s] = Idle
    BY <1>1 DEF End
  <2> QED BY <2>1 DEF Leaves, Idle
<1>2. CASE FestBegin(s)
  <2>1. PICK f \in Fests, y \in Years \cup {None}, switch \in {"on", "off", "keep"} :
          /\ request' = [request EXCEPT ![s] =
               [Idle EXCEPT !.pc = "fest.write", !.fest = f, !.year = y, !.switch = switch]]
          /\ \/ Exists(f) /\ y = None
             \/ ~Exists(f) /\ \A t \in Slots : request[t].fest # f
    <3>1. CASE \E f \in Fests, y \in Years, switch \in {"on", "off"} : CreateFestBegin(s, f, y, switch)
      BY <3>1 DEF CreateFestBegin, Begin
    <3>2. CASE \E f \in Fests, y \in Years \cup {None}, switch \in {"on", "off", "keep"} :
                 UpdateFestBegin(s, f, y, switch)
      BY <3>2 DEF UpdateFestBegin, Begin
    <3> QED BY <1>2, <3>1, <3>2 DEF FestBegin
  <2> DEFINE q == [Idle EXCEPT !.pc = "fest.write", !.fest = f, !.year = y, !.switch = switch]
  <2>2. q.pc = "fest.write" /\ q.fest = f /\ q.year = y
    BY IdleOK DEF Request
  <2>3. request' = [request EXCEPT ![s] = q]
    BY <2>1
  <2> HIDE DEF q
  <2>4. request'[s] = q
    BY <2>3
  <2> QED BY <2>1, <2>2, <2>4 DEF Leaves
<1>3. CASE \E u \in Users : SignUp(s, u) \/ AskTickets(s, u)
  <2>1. PICK u \in Users, l \in {"auto.fest", "my.fest"} :
          request' = [request EXCEPT ![s] = [Idle EXCEPT !.pc = l, !.user = u]]
    BY <1>3 DEF SignUp, AskTickets, Begin
  <2> DEFINE q == [Idle EXCEPT !.pc = l, !.user = u]
  <2>2. q.pc = l /\ q.fest = None
    BY IdleOK DEF Request, Idle
  <2>3. request' = [request EXCEPT ![s] = q]
    BY <2>1
  <2> HIDE DEF q
  <2>4. request'[s] = q
    BY <2>3
  <2> QED BY <2>1, <2>2, <2>4 DEF Leaves
<1>4. ASSUME NEW f \in active,
             request' = [request EXCEPT
               ![s].pc = IF At(s, "auto.fest") THEN "auto.register" ELSE "my.register",
               ![s].fest = f,
               ![s].year = year[f]]
      PROVE  Leaves(s)
  <2>1. /\ request'[s].pc \in {"auto.register", "my.register"}
        /\ request'[s].fest = f
        /\ request'[s].year = year[f]
    BY <1>4 DEF Request
  <2> QED BY <2>1 DEF Leaves
<1>5. ASSUME Goto(s, "ticket.count"), request[s].pc \in FestLabels
      PROVE  Leaves(s)
  <2>1. /\ request'[s].pc = "ticket.count"
        /\ request'[s].fest = request[s].fest
        /\ request'[s].year = request[s].year
    BY <1>5 DEF Goto, Request
  <2> QED BY <1>5, <2>1 DEF Leaves
<1>6. CASE TicketCount(s)
  <2>1. /\ request'[s].pc = "ticket.create"
        /\ request'[s].fest = request[s].fest
        /\ request'[s].year = request[s].year
        /\ request'[s].seq = Cardinality(Holders(request[s].fest)) + 1
    BY <1>6 DEF TicketCount, Request
  <2> QED BY <1>6, <2>1 DEF Leaves, TicketCount, At, FestLabels
<1>7. CASE ReadActiveFest(s)
  BY <1>1, <1>4, <1>7 DEF ReadActiveFest
<1>8. CASE AutoRegister(s) \/ MyRegister(s)
  BY <1>1, <1>5, <1>8 DEF AutoRegister, MyRegister, At, FestLabels
<1>9. CASE TicketCreate(s) \/ FestWrite(s) \/ Fail(s)
  BY <1>1, <1>9 DEF TicketCreate, FestWrite, Fail, Throw
<1> QED BY <1>2, <1>3, <1>6, <1>7, <1>8, <1>9 DEF Arrive, Step, FestBegin

\* A fest that is being inserted is known to its own request only, and apart
\* from that a year, once read or printed, is the year of its fest for good.
YearInv ==
  /\ \A s \in Slots : request[s].pc = "fest.write" /\ request[s].year # None =>
       /\ ~Exists(request[s].fest)
       /\ \A t \in Slots \ {s} : request[t].fest # request[s].fest
  /\ \A s \in Slots : request[s].pc \in FestLabels =>
       request[s].year = year[request[s].fest]
  /\ \A f \in Fests, u \in Users : u \in Holders(f) => ticket[f][u].year = year[f]

LEMMA YearStep ==
  ASSUME TypeInv, YearInv, "festYear" \notin Ops,
         NEW s \in Slots, Arrive(s) \/ Step(s) \/ Fail(s)
  PROVE  YearInv'
<1> USE DEF TypeInv, TypeOK
<1> DEFINE r == request[s]
           q == request'[s]
<1>0. Leaves(s) /\ Follows(s) /\ r \in Request /\ LocalOK(r)
  BY LeavesStep, FollowsStep
<1>1. \A t \in Slots \ {s} : request'[t] = request[t]
  BY <1>0 DEF Follows
<1>2. ASSUME NEW f \in Fests, Exists(f)
      PROVE  year'[f] = year[f]
  <2>1. CASE FestWrite(s)
    <3>1. r.year = None \/ r.fest # f
      BY <1>2, <2>1 DEF FestWrite, At, YearInv
    <3> QED BY <1>0, <2>1, <3>1 DEF FestWrite
  <2> QED BY <2>1, TicketWriters
<1>3. ASSUME NEW f \in Fests, year[f] = None, year'[f] # None
      PROVE  FestWrite(s) /\ f = r.fest /\ r.year # None
  <2>1. FestWrite(s)
    BY <1>3, TicketWriters
  <2> QED BY <1>0, <1>3, <2>1 DEF FestWrite
<1>4. ASSUME NEW t \in Slots, request'[t].pc = "fest.write", request'[t].year # None
      PROVE  /\ year'[request'[t].fest] = None
             /\ \A v \in Slots \ {t} : request'[v].fest # request'[t].fest
  <2>0. request'[t].fest \in Fests
    <3>1. LocalOK(request[t])'
      BY NextType DEF Next
    <3> QED BY <1>4, <3>1 DEF LocalOK
  <2>1. /\ year[request'[t].fest] = None
        /\ \A v \in Slots \ {t} : request'[v].fest # request'[t].fest
    <3>1. CASE t = s
      BY <1>0, <1>1, <1>4, <3>1 DEF Leaves, Exists
    <3>2. CASE t # s
      <4>1. /\ request'[t] = request[t]
            /\ year[request[t].fest] = None
            /\ \A v \in Slots \ {t} : request[v].fest # request[t].fest
        BY <1>1, <1>4, <3>2 DEF YearInv, Exists
      <4>2. q.fest # request[t].fest
        BY <1>0, <2>0, <3>2, <4>1, SetsAssumption DEF Leaves, Exists
      <4> QED BY <1>1, <3>2, <4>1, <4>2
    <3> QED BY <3>1, <3>2
  <2>2. year'[request'[t].fest] = None
    <3>1. SUFFICES ASSUME year'[request'[t].fest] # None
                   PROVE  FALSE
      OBVIOUS
    <3>2. FestWrite(s) /\ request'[t].fest = r.fest /\ r.year # None
      BY <1>3, <2>0, <2>1, <3>1
    <3>3. t # s
      BY <1>4, <3>2 DEF FestWrite, End, Idle
    <3> QED BY <1>1, <3>2, <3>3 DEF YearInv, FestWrite, At
  <2> QED BY <2>1, <2>2
<1>5. ASSUME NEW t \in Slots, request'[t].pc \in FestLabels
      PROVE  request'[t].year = year'[request'[t].fest]
  <2>1. request'[t].year = year[request'[t].fest]
    <3>1. CASE t = s
      BY <1>0, <1>5, <3>1 DEF Leaves, YearInv, FestLabels
    <3>2. CASE t # s
      BY <1>1, <1>5, <3>2 DEF YearInv
    <3> QED BY <3>1, <3>2
  <2>2. LocalOK(request[t])'
    BY NextType DEF Next
  <2>3. request'[t].fest \in Fests /\ request'[t].year \in Years
    BY <1>5, <2>2 DEF LocalOK
  <2> QED BY <1>2, <2>1, <2>3, SetsAssumption DEF Exists
<1>6. ASSUME NEW f \in Fests, NEW u \in Users, u \in Holders(f)'
      PROVE  ticket'[f][u].year = year'[f]
  <2>1. CASE ticket'[f][u] = ticket[f][u]
    <3>1. u \in Holders(f)
      BY <1>6, <2>1 DEF Holders
    <3>2. ticket[f][u].year = year[f] /\ ticket[f][u] \in TicketNumber
      BY <3>1 DEF YearInv, Holders
    <3> QED BY <1>2, <2>1, <3>2, SetsAssumption DEF TicketNumber, Exists
  <2>2. CASE ticket'[f][u] # ticket[f][u]
    <3>1. TicketCreate(s)
      BY <2>2, TicketWriters
    <3>2. r.fest \in Fests /\ r.year = year[r.fest] /\ r.year \in Years /\ UNCHANGED year
      BY <1>0, <3>1 DEF TicketCreate, LocalOK, FestLabels, At, YearInv, Throw, tables
    <3>3. f = r.fest /\ ticket'[f][u].year = r.year
      BY <2>2, <3>1, <3>2 DEF TicketCreate, Throw, tables
    <3> QED BY <3>2, <3>3
  <2> QED BY <2>1, <2>2
<1> QED BY <1>4, <1>5, <1>6 DEF YearInv, Exists

\* The numbers of a fest have no gap, and a count is never ahead of them.
NumberInv ==
  /\ \A f \in Fests : {ticket[f][u].seq : u \in Holders(f)} = 1..Cardinality(Holders(f))
  /\ \A s \in Slots : request[s].pc = "ticket.create" =>
       request[s].seq <= Cardinality(Holders(request[s].fest)) + 1

\* An insert that succeeds continues the book: the smaller numbers are taken,
\* and taken with the year that the request has read.
LEMMA CreateIssues ==
  ASSUME TypeInv, YearInv, NumberInv, NEW s \in Slots, TicketCreate(s), ~UNCHANGED ticket,
         NEW f, f = request[s].fest, NEW u, u = request[s].user
  PROVE  /\ f \in Fests /\ u \in Users \ Holders(f)
         /\ ticket' = [ticket EXCEPT ![f][u] =
              [year |-> year[f], seq |-> Cardinality(Holders(f)) + 1]]
         /\ Cardinality(Holders(f))' = Cardinality(Holders(f)) + 1
         /\ Holders(f)' = Holders(f) \cup {u}
         /\ \A g \in Fests \ {f} : Holders(g)' = Holders(g)
<1> USE DEF TypeInv, TypeOK
<1> DEFINE r == request[s]
           n == [year |-> r.year, seq |-> r.seq]
           c == Cardinality(Holders(f))
<1>1. /\ f \in Fests /\ u \in Users
      /\ r.year = year[f] /\ r.year \in Years
      /\ r.seq \in Nat /\ r.seq # 0 /\ r.seq <= c + 1
  <2>1. r \in Request /\ LocalOK(r) /\ r.pc = "ticket.create"
    BY DEF TicketCreate, At
  <2>2. r.seq \in Nat
    BY <2>1, SizeType DEF Request
  <2> QED BY <2>1, <2>2 DEF LocalOK, UserLabels, FestLabels, YearInv, NumberInv
<1>2. c \in Nat /\ IsFiniteSet(Holders(f))
  BY <1>1, SizeType
<1>3. /\ ~Taken(n) /\ u \notin Holders(f)
      /\ ticket' = [ticket EXCEPT ![f][u] = n]
  BY DEF TicketCreate, Throw, tables
<1>4. r.seq = c + 1
  <2>1. SUFFICES ASSUME r.seq <= c
                 PROVE  FALSE
    <3>1. \A a, b \in Nat : a <= b + 1 /\ ~(a <= b) => a = b + 1
      OBVIOUS
    <3>2. r.seq \in Nat /\ c \in Nat /\ r.seq <= c + 1
      BY <1>1, <1>2
    <3> HIDE DEF r, c, n
    <3> QED BY <2>1, <3>1, <3>2
  <2>2. r.seq \in 1..c
    <3> HIDE DEF r, c
    <3> QED BY <1>1, <1>2, <2>1
  <2>3. PICK v \in Holders(f) : ticket[f][v].seq = r.seq
    BY <1>1, <2>2 DEF NumberInv
  <2>4. v \in Users /\ ticket[f][v] \in TicketNumber /\ ticket[f][v].year = year[f]
    BY <1>1, <2>3 DEF Holders, YearInv
  <2>5. ticket[f][v] = n
    BY <1>1, <2>3, <2>4 DEF TicketNumber
  <2> QED BY <1>1, <1>3, <2>4, <2>5 DEF Taken
<1>5. n # NoTicket
  BY <1>1, SetsAssumption DEF NoTicket
<1>6. /\ Holders(f)' = Holders(f) \cup {u}
      /\ \A g \in Fests \ {f} : Holders(g)' = Holders(g)
  BY <1>1, <1>3, <1>5 DEF Holders
<1>7. Cardinality(Holders(f) \cup {u}) = c + 1
  BY <1>2, <1>3, FS_AddElement
<1>8. n = [year |-> year[f], seq |-> c + 1]
  BY <1>1, <1>4
<1> QED BY <1>1, <1>3, <1>6, <1>7, <1>8

LEMMA NextNumber ==
  ASSUME NEW k \in Nat
  PROVE  (1..k) \cup {k + 1} = 1..(k + 1)
OBVIOUS

LEMMA NumberStep ==
  ASSUME TypeInv, YearInv, NumberInv, "festYear" \notin Ops,
         NEW s \in Slots, Arrive(s) \/ Step(s) \/ Fail(s)
  PROVE  /\ NumberInv'
         /\ \/ UNCHANGED ticket
            \/ \E f \in Fests : \E u \in Users \ Holders(f) :
                 /\ ticket' = [ticket EXCEPT ![f][u] =
                      [year |-> year[f], seq |-> Cardinality(Holders(f)) + 1]]
                 /\ Cardinality(Holders(f))' = Cardinality(Holders(f)) + 1
                 /\ \A g \in Fests \ {f} : Holders(g)' = Holders(g)
<1>0. Leaves(s) /\ Follows(s) /\ \A t \in Slots : LocalOK(request[t])'
  BY LeavesStep, FollowsStep, NextType DEF Next, TypeInv
\* What a request counted stays within bounds if no book loses a ticket.
<1>1. ASSUME \A f \in Fests : Cardinality(Holders(f)) <= Cardinality(Holders(f))',
             \A f \in Fests : Cardinality(Holders(f))' \in Nat,
             NEW t \in Slots, request'[t].pc = "ticket.create"
      PROVE  request'[t].seq <= (Cardinality(Holders(request[t].fest)) + 1)'
  <2> DEFINE f == request'[t].fest
             c == Cardinality(Holders(f))
             d == Cardinality({u \in Users : ticket'[f][u] # NoTicket})
             n == request'[t].seq
  <2>1. f \in Fests
    BY <1>0, <1>1 DEF LocalOK, FestLabels
  <2>2. n <= c + 1 /\ n \in Nat
    <3>1. request'[t] \in Request
      BY NextType DEF Next, TypeInv, TypeOK
    <3>2. n \in Nat
      BY <3>1, SizeType DEF Request
    <3>3. CASE t = s
      BY <1>0, <1>1, <2>1, <3>2, <3>3, SizeType DEF Leaves
    <3>4. CASE t # s
      BY <1>0, <1>1, <3>2, <3>4 DEF Follows, NumberInv
    <3> QED BY <3>2, <3>3, <3>4
  <2>3. c \in Nat /\ d \in Nat /\ c <= d
    BY <1>1, <2>1, SizeType DEF Holders
  <2>4. n <= d + 1
    <3> HIDE DEF f, c, d, n
    <3> QED BY <2>2, <2>3
  <2> QED BY <2>4 DEF Holders
<1>2. CASE UNCHANGED ticket
  <2>1. \A f : Holders(f)' = Holders(f)
    BY <1>2 DEF Holders
  <2>2. \A f \in Fests : /\ Cardinality(Holders(f)) <= Cardinality(Holders(f))'
                         /\ Cardinality(Holders(f))' \in Nat
    BY <2>1, SizeType
  <2> QED BY <1>1, <1>2, <2>1, <2>2 DEF NumberInv
<1>3. CASE ~UNCHANGED ticket
  <2>1. PICK f \in Fests, u \in Users :
          /\ u \notin Holders(f)
          /\ ticket' = [ticket EXCEPT ![f][u] =
               [year |-> year[f], seq |-> Cardinality(Holders(f)) + 1]]
          /\ Cardinality(Holders(f))' = Cardinality(Holders(f)) + 1
          /\ Holders(f)' = Holders(f) \cup {u}
          /\ \A g \in Fests \ {f} : Holders(g)' = Holders(g)
    <3>1. TicketCreate(s)
      BY <1>3, TicketWriters
    <3>2. PICK f, u : f = request[s].fest /\ u = request[s].user
      OBVIOUS
    <3> QED BY <1>3, <3>1, <3>2, CreateIssues
  <2>3. \A g \in Fests : /\ Cardinality(Holders(g)) <= Cardinality(Holders(g))'
                         /\ Cardinality(Holders(g))' \in Nat
    <3>1. \A g \in Fests : \/ Cardinality(Holders(g))' = Cardinality(Holders(g))
                            \/ Cardinality(Holders(g))' = Cardinality(Holders(g)) + 1
      BY <2>1
    <3>2. \A a \in Nat : \A b \in {a, a + 1} : a <= b /\ b \in Nat
      OBVIOUS
    <3> QED BY <3>1, <3>2, SizeType
  <2>4. ASSUME NEW g \in Fests
        PROVE  {ticket[g][v].seq : v \in Holders(g)}' = 1..Cardinality(Holders(g))'
    <3>1. CASE g # f
      <4>1. \A v \in Holders(g) : ticket'[g][v] = ticket[g][v]
        BY <2>1, <3>1 DEF TypeInv, TypeOK
      <4> QED BY <2>1, <3>1, <4>1 DEF NumberInv
    <3>2. CASE g = f
      <4>1. /\ ticket'[f][u].seq = Cardinality(Holders(f)) + 1
            /\ \A v \in Holders(f) : ticket'[f][v] = ticket[f][v]
        BY <2>1 DEF TypeInv, TypeOK, Holders
      <4>6. {ticket[g][v].seq : v \in Holders(g)}' =
              {ticket'[f][v].seq : v \in Holders(f) \cup {u}}
        <5>1. Holders(g)' = Holders(f) \cup {u}
          BY <2>1, <3>2
        <5> QED BY <3>2, <5>1, Zenon
      <4>2. {ticket[g][v].seq : v \in Holders(g)}' =
              {ticket[f][v].seq : v \in Holders(f)} \cup {Cardinality(Holders(f)) + 1}
        BY <4>1, <4>6
      <4>3. {ticket[g][v].seq : v \in Holders(g)}' =
              1..Cardinality(Holders(f)) \cup {Cardinality(Holders(f)) + 1}
        BY <2>1, <4>2 DEF NumberInv
      <4>5. Cardinality(Holders(f)) \in Nat
        BY <2>1, SizeType
      <4> QED BY <2>1, <3>2, <4>3, <4>5, NextNumber
    <3> QED BY <3>1, <3>2
  <2>5. NumberInv'
    BY <1>1, <2>3, <2>4 DEF NumberInv
  <2> QED BY <2>1, <2>5
<1> QED BY <1>2, <1>3

\* FestTicketing implements TicketBook: whatever the interleaving of counts
\* and inserts, the tickets of a fest are numbered from 1 without a gap or a
\* repeat, in the order of their creation, if no fest changes its year.
THEOREM Numbered ==
  ASSUME "festYear" \notin Ops
  PROVE  Spec => NumberedInOrder
<1> DEFINE NumberedInv == TypeInv /\ YearInv /\ NumberInv
           last == [f \in Fests |-> Cardinality(Holders(f))]
           number == [f \in Fests |-> [u \in Users |-> ticket[f][u].seq]]
<1>1. Init => NumberedInv
  <2> SUFFICES ASSUME Init
               PROVE  YearInv /\ NumberInv
    BY InitType
  <2>1. \A s \in Slots : request[s].pc = "idle"
    BY DEF Init, Idle
  <2>2. \A f \in Fests : Holders(f) = {}
    BY DEF Init, Holders
  <2>3. YearInv
    BY <2>1, <2>2 DEF YearInv, FestLabels
  <2>4. \A f \in Fests : Cardinality(Holders(f)) = 0
    BY <2>2, FS_EmptySet
  <2>5. \A f \in Fests : {ticket[f][u].seq : u \in Holders(f)} = 1..Cardinality(Holders(f))
    BY <2>2, <2>4
  <2> QED BY <2>1, <2>3, <2>5 DEF NumberInv
<1>2. Init => Book!Init
  <2> SUFFICES ASSUME Init
               PROVE  Book!Init
    OBVIOUS
  <2>1. \A f \in Fests : Holders(f) = {}
    BY DEF Init, Holders
  <2>2. \A f \in Fests : Cardinality(Holders(f)) = 0
    BY <2>1, FS_EmptySet
  <2>3. \A f \in Fests, u \in Users : ticket[f][u].seq = 0
    BY DEF Init, NoTicket
  <2> QED BY <2>2, <2>3 DEF Book!Init
<1>3. NumberedInv /\ [Next]_vars => NumberedInv' /\ [Book!Next]_<<last, number>>
  <2> SUFFICES ASSUME NumberedInv, [Next]_vars
               PROVE  NumberedInv' /\ [Book!Next]_<<last, number>>
    OBVIOUS
  <2>1. ASSUME UNCHANGED ticket
        PROVE  UNCHANGED <<last, number>>
    BY <2>1 DEF Holders
  <2>2. CASE UNCHANGED vars
    <3>1. YearInv' /\ NumberInv'
      <4>1. \A f : Holders(f)' = Holders(f)
        BY <2>2 DEF vars, Holders
      <4>2. YearInv'
        BY <2>2, <4>1 DEF vars, YearInv, Exists
      <4>3. NumberInv'
        BY <2>2, <4>1 DEF vars, NumberInv
      <4> QED BY <4>2, <4>3
    <3> QED BY <2>1, <2>2, <3>1, NextType DEF vars
  <2>3. ASSUME NEW s \in Slots, Arrive(s) \/ Step(s) \/ Fail(s)
        PROVE  NumberedInv' /\ [Book!Next]_<<last, number>>
    <3>1. NumberedInv'
      BY <2>3, NextType, YearStep, NumberStep
    <3>2. CASE UNCHANGED ticket
      BY <2>1, <3>1, <3>2
    <3>3. CASE ~UNCHANGED ticket
      <4>1. PICK f \in Fests, u \in Users :
              /\ u \notin Holders(f)
              /\ ticket' = [ticket EXCEPT ![f][u] =
                   [year |-> year[f], seq |-> Cardinality(Holders(f)) + 1]]
              /\ Cardinality(Holders(f))' = Cardinality(Holders(f)) + 1
              /\ \A g \in Fests \ {f} : Holders(g)' = Holders(g)
        BY <2>3, <3>3, NumberStep
      <4>2. number[f][u] = 0
        BY <4>1 DEF Holders, NoTicket
      <4>3. last' = [last EXCEPT ![f] = @ + 1]
        BY <4>1
      <4>4. \A g \in Fests, v \in Users :
              ticket'[g][v].seq = IF g = f /\ v = u THEN Cardinality(Holders(f)) + 1
                                                    ELSE ticket[g][v].seq
        BY <4>1 DEF TypeInv, TypeOK
      <4>5. number' = [number EXCEPT ![f][u] = last[f] + 1]
        <5>1. number' = [g \in Fests |-> [v \in Users |->
                          IF g = f /\ v = u THEN Cardinality(Holders(f)) + 1
                                            ELSE ticket[g][v].seq]]
          BY <4>4
        <5> QED BY <5>1
      <4>6. Book!Issue(f, u)
        BY <4>2, <4>3, <4>5 DEF Book!Issue
      <4> QED BY <3>1, <4>6 DEF Book!Next
    <3> QED BY <3>2, <3>3
  <2> QED BY <2>2, <2>3 DEF Next
<1> QED BY <1>1, <1>2, <1>3, PTL DEF Spec, NumberedInOrder, Book!Spec
=============================================================================
