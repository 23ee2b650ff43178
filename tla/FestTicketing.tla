---------------------------- MODULE FestTicketing ----------------------------
(***************************************************************************)
(* FestService and TicketingService: fests are created, updated and made   *)
(* active; a new account is registered for the active fest in the          *)
(* background, and a user without a ticket who asks for tickets gets one.  *)
(* The number of a ticket is made from a count of the fest's tickets.      *)
(*                                                                         *)
(* Requests run and interleave as in EventDb: one step is one statement.   *)
(* Rows of these tables are never deleted by the program, so a look-up     *)
(* that would refuse what the next insert refuses too is part of it.       *)
(***************************************************************************)
EXTENDS Naturals, FiniteSets

CONSTANTS
  Users,    \* the accounts that can be opened
  Fests,    \* the fests that can be created
  Years,    \* the years that a fest can be given
  None,     \* no user, fest or year
  Slots,    \* requests that can be in flight at the same time
  Ops,      \* the handlers that clients call
  MayFail   \* whether a request can die between two statements

ASSUME SetsAssumption == /\ IsFiniteSet(Users)
                         /\ None \notin Users \cup Fests \cup Years
ASSUME FailAssumption == MayFail \in BOOLEAN

VARIABLES
  account,       \* the users who have signed up
  year,          \* the year of the fest, None before it is created
  active,        \* the fests whose isActive is set
  registration,  \* the users with a FestRegistration row, by fest
  ticket,        \* the number of the user's ticket, by fest, or NoTicket
  request        \* the request in each slot

tables == <<account, year, active, registration, ticket>>
vars == <<account, year, active, registration, ticket, request>>

-----------------------------------------------------------------------------
\* TECHGRAM-<year>-<seq>: the padding of seq to five digits cuts nothing off.
TicketNumber == [year : Years, seq : 1..(Cardinality(Users) + 1)]
NoTicket == [year |-> None, seq |-> 0]

Holders(f) == {u \in Users : ticket[f][u] # NoTicket}
Taken(n) == \E f \in Fests, u \in Users : ticket[f][u] = n

\* `seq` is the number to insert; `switch` is the isActive sent, or "keep".
Request == [pc : {"idle", "auto.fest", "auto.register", "my.fest", "my.register",
                  "ticket.count", "ticket.create", "fest.write"},
            user : Users \cup {None},
            fest : Fests \cup {None},
            year : Years \cup {None},
            seq : 0..(Cardinality(Users) + 1),
            switch : {"on", "off", "keep"}]

Idle == [pc |-> "idle", user |-> None, fest |-> None, year |-> None,
         seq |-> 0, switch |-> "keep"]

TypeOK ==
  /\ account \subseteq Users
  /\ year \in [Fests -> Years \cup {None}]
  /\ active \subseteq Fests
  /\ registration \in [Fests -> SUBSET Users]
  /\ ticket \in [Fests -> [Users -> TicketNumber \cup {NoTicket}]]
  /\ request \in [Slots -> Request]

Init ==
  /\ account = {}
  /\ year = [f \in Fests |-> None]
  /\ active = {}
  /\ registration = [f \in Fests |-> {}]
  /\ ticket = [f \in Fests |-> [u \in Users |-> NoTicket]]
  /\ request = [s \in Slots |-> Idle]

-----------------------------------------------------------------------------
Begin(op, s, r) ==
  /\ op \in Ops
  /\ request[s] = Idle
  /\ request' = [request EXCEPT ![s] = r]

At(s, label) == request[s].pc = label
Goto(s, label) == request' = [request EXCEPT ![s].pc = label]
End(s) == request' = [request EXCEPT ![s] = Idle]
Throw(s) == End(s) /\ UNCHANGED tables

Fail(s) == MayFail /\ ~At(s, "idle") /\ Throw(s)

-----------------------------------------------------------------------------
(***************************************************************************)
(* create and update of a fest.  One that is switched on first switches    *)
(* off the others, in a statement of its own.                              *)
(***************************************************************************)
Exists(f) == year[f] # None

\* The id is new: no request in flight is about to insert it.
CreateFestBegin(s, f, y, switch) ==
  /\ ~Exists(f)
  /\ \A t \in Slots : request[t].fest # f
  /\ switch # "keep"
  /\ Begin("createFest", s, [Idle EXCEPT !.pc = "fest.write", !.fest = f,
                                         !.year = y, !.switch = switch])
  /\ active' = IF switch = "on" THEN {} ELSE active
  /\ UNCHANGED <<account, year, registration, ticket>>

\* No year is sent (None), or, when "festYear" is among Ops, any.
UpdateFestBegin(s, f, y, switch) ==
  /\ Exists(f)
  /\ y # None => "festYear" \in Ops
  /\ Begin("updateFest", s, [Idle EXCEPT !.pc = "fest.write", !.fest = f,
                                         !.year = y, !.switch = switch])
  /\ active' = IF switch = "on" THEN active \cap {f} ELSE active
  /\ UNCHANGED <<account, year, registration, ticket>>

\* Mutant: a year that is not sent is written all the same.
FestWriteDropsYear(s) ==
  LET r == request[s]
  IN  /\ At(s, "fest.write")
      /\ year' = [year EXCEPT ![r.fest] = r.year]
      /\ active' = IF r.switch = "on" THEN active \cup {r.fest} ELSE active \ {r.fest}
      /\ End(s)
      /\ UNCHANGED <<account, registration, ticket>>

\* The insert of create, the update of update.
FestWrite(s) ==
  LET r == request[s]
  IN  /\ At(s, "fest.write")
      /\ year' = [year EXCEPT ![r.fest] = IF r.year = None THEN @ ELSE r.year]
      /\ active' = CASE r.switch = "on"   -> active \cup {r.fest}
                     [] r.switch = "off"  -> active \ {r.fest}
                     [] r.switch = "keep" -> active
      /\ End(s)
      /\ UNCHANGED <<account, registration, ticket>>

-----------------------------------------------------------------------------
(***************************************************************************)
(* The two ways to a ticket.                                               *)
(***************************************************************************)
\* AuthService.register inserts the account and does not wait for the rest.
SignUp(s, u) ==
  /\ u \notin account
  /\ Begin("signUp", s, [Idle EXCEPT !.pc = "auto.fest", !.user = u])
  /\ account' = account \cup {u}
  /\ UNCHANGED <<year, active, registration, ticket>>

\* Only a user without any ticket, for whatever fest, goes on to get one.
AskTickets(s, u) ==
  /\ u \in account
  /\ \A f \in Fests : ticket[f][u] = NoTicket
  /\ Begin("askTickets", s, [Idle EXCEPT !.pc = "my.fest", !.user = u])
  /\ UNCHANGED tables

\* findFirst of the active fests; without one there is nothing to do.
ReadActiveFest(s) ==
  /\ request[s].pc \in {"auto.fest", "my.fest"}
  /\ \/ active = {} /\ End(s)
     \/ \E f \in active :
          request' = [request EXCEPT
            ![s].pc = IF At(s, "auto.fest") THEN "auto.register" ELSE "my.register",
            ![s].fest = f,
            ![s].year = year[f]]
  /\ UNCHANGED tables

\* An earlier registration ends the sign-up's request, with or without ticket.
AutoRegister(s) ==
  LET r == request[s]
  IN  /\ At(s, "auto.register")
      /\ IF r.user \in registration[r.fest]
           THEN End(s) /\ UNCHANGED tables
           ELSE /\ registration' = [registration EXCEPT ![r.fest] = @ \cup {r.user}]
                /\ Goto(s, "ticket.count")
                /\ UNCHANGED <<account, year, active, ticket>>

\* Mutant: the sign-up is taken to have registered the user.
MyRegisterSkipped(s) ==
  /\ At(s, "my.register")
  /\ Goto(s, "ticket.count")
  /\ UNCHANGED tables

\* An upsert: an earlier registration is kept.
MyRegister(s) ==
  LET r == request[s]
  IN  /\ At(s, "my.register")
      /\ registration' = [registration EXCEPT ![r.fest] = @ \cup {r.user}]
      /\ Goto(s, "ticket.count")
      /\ UNCHANGED <<account, year, active, ticket>>

\* Mutant: the registrations are counted in place of the tickets.
TicketCountRegistrations(s) ==
  LET r == request[s]
  IN  /\ At(s, "ticket.count")
      /\ request' = [request EXCEPT ![s].pc = "ticket.create",
                                    ![s].seq = Cardinality(registration[r.fest]) + 1]
      /\ UNCHANGED tables

TicketCount(s) ==
  LET r == request[s]
  IN  /\ At(s, "ticket.count")
      /\ request' = [request EXCEPT ![s].pc = "ticket.create",
                                    ![s].seq = Cardinality(Holders(r.fest)) + 1]
      /\ UNCHANGED tables

\* Mutant: ticketNumber is not unique.
TicketCreateAnyNumber(s) ==
  LET r == request[s]
  IN  /\ At(s, "ticket.create")
      /\ IF r.user \in Holders(r.fest)
           THEN Throw(s)
           ELSE /\ ticket' = [ticket EXCEPT ![r.fest][r.user] =
                                [year |-> r.year, seq |-> r.seq]]
                /\ End(s)
                /\ UNCHANGED <<account, year, active, registration>>

\* ticketNumber is unique over all fests, and so is (festId, userId): the
\* insert fails on a number or a ticket that is already there.
TicketCreate(s) ==
  LET r == request[s]
      n == [year |-> r.year, seq |-> r.seq]
  IN  /\ At(s, "ticket.create")
      /\ IF Taken(n) \/ r.user \in Holders(r.fest)
           THEN Throw(s)
           ELSE /\ ticket' = [ticket EXCEPT ![r.fest][r.user] = n]
                /\ End(s)
                /\ UNCHANGED <<account, year, active, registration>>

-----------------------------------------------------------------------------
Step(s) ==
  \/ FestWrite(s)
  \/ ReadActiveFest(s) \/ AutoRegister(s) \/ MyRegister(s)
  \/ TicketCount(s) \/ TicketCreate(s)

Arrive(s) ==
  \/ \E f \in Fests, y \in Years, switch \in {"on", "off"} :
       CreateFestBegin(s, f, y, switch)
  \/ \E f \in Fests, y \in Years \cup {None}, switch \in {"on", "off", "keep"} :
       UpdateFestBegin(s, f, y, switch)
  \/ \E u \in Users : SignUp(s, u) \/ AskTickets(s, u)

Next == \E s \in Slots : Arrive(s) \/ Step(s) \/ Fail(s)

Spec == Init /\ [][Next]_vars

\* What a handler awaits is settled sooner or later, as in EventDesk.
FairSpec == Spec /\ \A s \in Slots : WF_vars(Step(s))

-----------------------------------------------------------------------------
(***************************************************************************)
(* Properties.                                                             *)
(***************************************************************************)
Book == INSTANCE TicketBook WITH
  last   <- [f \in Fests |-> Cardinality(Holders(f))],
  number <- [f \in Fests |-> [u \in Users |-> ticket[f][u].seq]]

\* Although each number comes from a count that may be out of date when it is
\* used, the tickets of a fest are numbered from 1 without a gap or a repeat,
\* in the order of their creation.  It takes that no fest changes its year.
NumberedInOrder == Book!Spec

\* A ticket has a registration for its fest behind it, whichever of the two
\* ways created it and whatever request died half-way.
TicketIsRegistered ==
  \A f \in Fests, u \in Users : u \in Holders(f) => u \in registration[f]

\* From some moment on one fest stays active, and no ticket of another fest
\* bears its year.
Steady ==
  \E f \in Fests : <>[](/\ active = {f}
                        /\ \A g \in Fests \ {f}, u \in Users : ticket[g][u].year # year[f])

\* A request can fail because somebody else got the number it had counted,
\* but a user who keeps asking gets a ticket: each such failure is a ticket
\* for another user, and there are only so many.
AskersAreServed ==
  ~MayFail /\ Steady =>
    \A u \in Users :
      []<><<\E s \in Slots : AskTickets(s, u)>>_vars => <>(\E f \in Fests : u \in Holders(f))

\* Activating a fest deactivates the other active fests.
OneActiveFest == Cardinality(active) <= 1
=============================================================================
