------------------------------- MODULE People -------------------------------
(***************************************************************************)
(* Accounts, roles and groups: AuthService.register as far as its tickets  *)
(* and tokens are not concerned (see FestTicketing and RefreshTokens), the *)
(* statuses and roles of UsersService, and GroupsService.  Sign-up does    *)
(* not wait for the assignment to SYSTEM groups, and swallows its errors.  *)
(*                                                                         *)
(* The guards look at the account when a request arrives; what changes     *)
(* later does not stop it.                                                 *)
(***************************************************************************)
EXTENDS Calls, FiniteSets

CONSTANTS
  Roles,       \* the roles; one of them is "participant"
  Permissions, \* the permissions that each role carries
  SignedUp,    \* users that have an account at the start
  Staff,       \* those of them with every role
  Groups,      \* the groups that exist or may be made
  SystemRule,  \* SYSTEM groups at the start: the users whose number meets the rule
  RulesSent,   \* such users for the groups that are made; none without a rule
  MaxPeople    \* bound: calls

ASSUME PeopleAssumption ==
  /\ "participant" \in Roles
  /\ Permissions \in [Roles -> SUBSET {"role:manage", "group:create", "user:ban"}]
  /\ SignedUp \subseteq Users /\ Staff \subseteq SignedUp
  /\ DOMAIN SystemRule \subseteq Groups
  /\ \A g \in DOMAIN SystemRule : SystemRule[g] \subseteq Users
  /\ RulesSent \subseteq SUBSET Users
  /\ Groups \cap Users = {}
  /\ MaxPeople \in Nat

VARIABLES
  account,    \* the accounts
  inactive,   \* those whose status is not ACTIVE
  role,       \* UserRole: <<user, role>>
  group,      \* Group
  rule,       \* autoAssignRule of a SYSTEM group: the users whose number meets it
  member,     \* GroupMember: <<group, user>>
  people,     \* the calls in flight
  peopleLeft, \* calls that may still begin
  (* History: *)
  settled,    \* <<group, user>> that a finished assignment has dealt with
  dropped     \* roles and memberships that somebody has deleted since

peopleHistory == <<settled, dropped>>
peopleVars == <<account, inactive, role, group, rule, member, people, peopleLeft, settled, dropped>>

-----------------------------------------------------------------------------
Memberships == Groups \X Users

\* Sign-up and the assignment that goes on after it: `todo` are the groups it
\* has yet to look at, `at` the one it is about to join, `met` all it has read.
SignUpCall == [pc : {"open", "role", "groups", "next", "join"}, user : Users,
               todo : SUBSET Groups, at : Groups \cup {None}, met : SUBSET Groups]
MemberCall == [pc : {"look", "add", "find", "drop"}, user : Users, group : Groups, target : Users]
GroupCall  == [pc : {"empty", "delete"}, user : {None}, group : Groups]
RoleCall   == [pc : {"grant", "revoke"}, user : {None}, target : Users, role : Roles]

PeopleTypeOK ==
  /\ account \subseteq Users
  /\ inactive \subseteq account
  /\ role \subseteq account \X Roles
  /\ group \subseteq Groups
  /\ rule \in [Groups -> SUBSET Users]
  /\ member \subseteq group \X account
  /\ people \in [Slots -> {Idle} \cup SignUpCall \cup MemberCall \cup GroupCall \cup RoleCall]
  /\ peopleLeft \in Nat
  /\ settled \subseteq Memberships
  /\ dropped \subseteq Memberships \cup (Users \X Roles)

\* Those who have signed up before are in the groups of their number.
PeopleInit ==
  /\ account = SignedUp
  /\ inactive = {}
  /\ role = (account \X {"participant"}) \cup (Staff \X Roles)
  /\ group = DOMAIN SystemRule
  /\ rule = [g \in Groups |-> IF g \in group THEN SystemRule[g] ELSE {}]
  /\ member = {m \in group \X account : m[2] \in rule[m[1]]}
  /\ people = [s \in Slots |-> Idle]
  /\ peopleLeft = MaxPeople
  /\ settled = member
  /\ dropped = {}

PeopleGoto(s, call) == Goto(people, peopleLeft, s, call)

-----------------------------------------------------------------------------
(* The guards.                                                             *)

\* JwtStrategy.validate: the user of the token has an account that is active.
Authenticated(u) == u \in account \ inactive

\* What getUserRoles shows of a user, and PermissionsGuard of one with a
\* permission.
RolesOf(u) == {r \in Roles : <<u, r>> \in role}
Permitted(u, permission) ==
  Authenticated(u) /\ \E r \in RolesOf(u) : permission \in Permissions[r]

\* softDeleteUser of oneself, and updateUserStatus by somebody with the permission.
Deactivate(actor, u) ==
  /\ Authenticated(actor) /\ (actor = u \/ Permitted(actor, "user:ban"))
  /\ u \in account \ inactive
  /\ peopleLeft > 0 /\ peopleLeft' = peopleLeft - 1
  /\ inactive' = inactive \cup {u}
  /\ UNCHANGED <<account, role, group, rule, member, people, settled, dropped>>

Activate(actor, u) ==
  /\ Permitted(actor, "user:ban")
  /\ u \in inactive
  /\ peopleLeft > 0 /\ peopleLeft' = peopleLeft - 1
  /\ inactive' = inactive \ {u}
  /\ UNCHANGED <<account, role, group, rule, member, people, settled, dropped>>

-----------------------------------------------------------------------------
(* register.                                                               *)

\* The number is not taken; bcrypt takes its time before the insert.
Register(s, u) ==
  /\ u \notin account
  /\ Begin(people, peopleLeft, s,
       [pc |-> "open", user |-> u, todo |-> {}, at |-> None, met |-> {}])
  /\ UNCHANGED <<account, inactive, role, group, rule, member>> /\ UNCHANGED peopleHistory

OpenAccount(s) == LET c == people[s] IN
  /\ c.pc = "open"
  /\ account' = account \cup {c.user}
  /\ PeopleGoto(s, IF c.user \in account THEN Idle ELSE [c EXCEPT !.pc = "role"])
  /\ UNCHANGED <<inactive, role, group, rule, member>> /\ UNCHANGED peopleHistory

\* If somebody was faster to give the role, sign-up fails here.
DefaultRole(s) == LET c == people[s] given == <<c.user, "participant">> IN
  /\ c.pc = "role"
  /\ role' = role \cup {given}
  /\ PeopleGoto(s, IF given \in role THEN Idle ELSE [c EXCEPT !.pc = "groups"])
  /\ UNCHANGED <<account, inactive, group, rule, member>> /\ UNCHANGED peopleHistory

\* autoAssignGroups reads the SYSTEM groups and keeps those whose rule the
\* number meets.
SystemGroups(s) ==
  LET c == people[s]
      met == {g \in group : c.user \in rule[g]}
  IN
  /\ c.pc = "groups"
  /\ PeopleGoto(s, [c EXCEPT !.pc = "next", !.todo = met, !.met = met])
  /\ UNCHANGED <<account, inactive, role, group, rule, member>> /\ UNCHANGED peopleHistory

\* Mutant: the first group that has the user already ends the loop.
NextGroupOrEnd(s) == LET c == people[s] IN
  /\ c.pc = "next"
  /\ \E g \in c.todo :
       PeopleGoto(s, IF <<g, c.user>> \in member THEN [c EXCEPT !.todo = {}]
                     ELSE [c EXCEPT !.pc = "join", !.at = g])
  /\ UNCHANGED <<account, inactive, role, group, rule, member>> /\ UNCHANGED peopleHistory

\* Looks for the membership, and passes over a group that has the user.
NextGroup(s) == LET c == people[s] IN
  /\ c.pc = "next"
  /\ \E g \in c.todo :
       PeopleGoto(s, IF <<g, c.user>> \in member THEN [c EXCEPT !.todo = @ \ {g}]
                     ELSE [c EXCEPT !.pc = "join", !.at = g])
  /\ UNCHANGED <<account, inactive, role, group, rule, member>> /\ UNCHANGED peopleHistory

\* A membership that exists by now, or a group that does not, ends it all.
JoinGroup(s) == LET c == people[s] new == <<c.at, c.user>> IN
  /\ c.pc = "join"
  /\ IF c.at \in group /\ new \notin member
     THEN /\ member' = member \cup {new}
          /\ dropped' = dropped \ {new}
          /\ PeopleGoto(s, [c EXCEPT !.pc = "next", !.todo = @ \ {c.at}, !.at = None])
     ELSE PeopleGoto(s, Idle) /\ UNCHANGED <<member, dropped>>
  /\ UNCHANGED <<account, inactive, role, group, rule, settled>>

Assigned(s) == LET c == people[s] IN
  /\ c.pc = "next"
  /\ c.todo = {}
  /\ PeopleGoto(s, Idle)
  /\ settled' = settled \cup (c.met \X {c.user})
  /\ UNCHANGED <<account, inactive, role, group, rule, member, dropped>>

-----------------------------------------------------------------------------
(* Members of a group.                                                     *)

IsMember(g, u) == <<g, u>> \in member   \* assertMembership

\* addMember and removeMember: the actor is in the group, whose members
\* getMembers shows.
GroupMembers(g) == {u \in Users : IsMember(g, u)}

AddMember(s, actor, g, u) ==
  /\ Authenticated(actor)
  /\ IsMember(g, actor)
  /\ Begin(people, peopleLeft, s, [pc |-> "look", user |-> actor, group |-> g, target |-> u])
  /\ UNCHANGED <<account, inactive, role, group, rule, member>> /\ UNCHANGED peopleHistory

RemoveMember(s, actor, g, u) ==
  /\ Authenticated(actor)
  /\ IsMember(g, actor)
  /\ Begin(people, peopleLeft, s, [pc |-> "find", user |-> actor, group |-> g, target |-> u])
  /\ UNCHANGED <<account, inactive, role, group, rule, member>> /\ UNCHANGED peopleHistory

\* The target has an account and is not a member, respectively is one.
LookMember(s) == LET c == people[s] IN
  /\ c.pc \in {"look", "find"}
  /\ PeopleGoto(s, IF c.target \notin account \/ IsMember(c.group, c.target) = (c.pc = "look")
                   THEN Idle ELSE [c EXCEPT !.pc = IF c.pc = "look" THEN "add" ELSE "drop"])
  /\ UNCHANGED <<account, inactive, role, group, rule, member>> /\ UNCHANGED peopleHistory

InsertMember(s) == LET c == people[s] new == <<c.group, c.target>> IN
  /\ c.pc = "add"
  /\ IF c.group \in group /\ new \notin member
     THEN /\ member' = member \cup {new}
          /\ dropped' = dropped \ {new}
     ELSE UNCHANGED <<member, dropped>>
  /\ PeopleGoto(s, Idle)
  /\ UNCHANGED <<account, inactive, role, group, rule, settled>>

DeleteMember(s) == LET c == people[s] IN
  /\ c.pc = "drop"
  /\ member' = member \ {<<c.group, c.target>>}
  /\ dropped' = dropped \cup {<<c.group, c.target>>}
  /\ PeopleGoto(s, Idle)
  /\ UNCHANGED <<account, inactive, role, group, rule, settled>>

\* create: the group with its rule and its first member by one statement.
CreateGroup(u, g, sent) ==
  /\ Permitted(u, "group:create")
  /\ g \notin group /\ g \notin DOMAIN SystemRule /\ {m \in dropped : m[1] = g} = {}
  /\ peopleLeft > 0 /\ peopleLeft' = peopleLeft - 1
  /\ group' = group \cup {g}
  /\ rule' = [rule EXCEPT ![g] = sent]
  /\ member' = member \cup {<<g, u>>}
  /\ UNCHANGED <<account, inactive, role, people, settled, dropped>>

\* remove deletes the members, then the group, and with it whoever has joined
\* in between.
RemoveGroup(s, actor, g) ==
  /\ Permitted(actor, "group:create")
  /\ g \in group
  /\ Begin(people, peopleLeft, s, [pc |-> "empty", user |-> None, group |-> g])
  /\ UNCHANGED <<account, inactive, role, group, rule, member>> /\ UNCHANGED peopleHistory

\* Mutant: a membership does not go with its group.
DeleteGroupOnly(s) == LET c == people[s] IN
  /\ c.pc \in {"empty", "delete"}
  /\ LET its == {m \in member : m[1] = c.group} IN
       IF c.pc = "empty" THEN member' = member \ its /\ dropped' = dropped \cup its
       ELSE UNCHANGED <<member, dropped>>
  /\ group' = IF c.pc = "delete" THEN group \ {c.group} ELSE group
  /\ PeopleGoto(s, IF c.pc = "delete" THEN Idle ELSE [c EXCEPT !.pc = "delete"])
  /\ UNCHANGED <<account, inactive, role, rule, settled>>

DeleteMembers(s) == LET c == people[s] IN
  /\ c.pc \in {"empty", "delete"}
  /\ LET its == {m \in member : m[1] = c.group} IN
       member' = member \ its /\ dropped' = dropped \cup its
  /\ group' = IF c.pc = "delete" THEN group \ {c.group} ELSE group
  /\ PeopleGoto(s, IF c.pc = "delete" THEN Idle ELSE [c EXCEPT !.pc = "delete"])
  /\ UNCHANGED <<account, inactive, role, rule, settled>>

-----------------------------------------------------------------------------
(* Roles: a look-up, then the statement.                                   *)

AssignRole(s, actor, u, r) ==
  /\ Permitted(actor, "role:manage")
  /\ u \in account /\ <<u, r>> \notin role
  /\ Begin(people, peopleLeft, s, [pc |-> "grant", user |-> None, target |-> u, role |-> r])
  /\ UNCHANGED <<account, inactive, role, group, rule, member>> /\ UNCHANGED peopleHistory

RemoveRole(s, actor, u, r) ==
  /\ Permitted(actor, "role:manage")
  /\ u \in account /\ <<u, r>> \in role
  /\ Begin(people, peopleLeft, s, [pc |-> "revoke", user |-> None, target |-> u, role |-> r])
  /\ UNCHANGED <<account, inactive, role, group, rule, member>> /\ UNCHANGED peopleHistory

WriteRole(s) == LET c == people[s] row == <<c.target, c.role>> IN
  /\ c.pc \in {"grant", "revoke"}
  /\ IF c.pc = "grant" THEN role' = role \cup {row} /\ dropped' = dropped \ {row}
     ELSE role' = role \ {row} /\ dropped' = dropped \cup {row}
  /\ PeopleGoto(s, Idle)
  /\ UNCHANGED <<account, inactive, group, rule, member, settled>>

-----------------------------------------------------------------------------
PeopleDie(s) ==
  /\ Die(people, peopleLeft, s)
  /\ UNCHANGED <<account, inactive, role, group, rule, member>> /\ UNCHANGED peopleHistory

PeopleStep(s) ==
  \/ OpenAccount(s) \/ DefaultRole(s) \/ SystemGroups(s) \/ NextGroup(s) \/ JoinGroup(s)
  \/ Assigned(s) \/ LookMember(s) \/ InsertMember(s) \/ DeleteMember(s) \/ DeleteMembers(s)
  \/ WriteRole(s)

PeopleRequest(s) ==
  /\ Free(people, peopleLeft, s)
  /\ \E u \in Users :
       \/ Register(s, u)
       \/ \E g \in Groups, t \in Users : AddMember(s, u, g, t) \/ RemoveMember(s, u, g, t)
       \/ \E t \in Users, r \in Roles : AssignRole(s, u, t, r) \/ RemoveRole(s, u, t, r)
       \/ \E g \in Groups : RemoveGroup(s, u, g)

PeopleNext ==
  \/ \E u \in Users, g \in Groups, sent \in RulesSent : CreateGroup(u, g, sent)
  \/ \E actor, u \in Users : Deactivate(actor, u) \/ Activate(actor, u)
  \/ \E s \in Slots : PeopleRequest(s) \/ PeopleStep(s) \/ PeopleDie(s)

PeopleSpec == PeopleInit /\ [][PeopleNext]_peopleVars

-----------------------------------------------------------------------------
(* Properties.                                                             *)

\* findMyGroups.
MyGroups(u) == {g \in group : IsMember(g, u)}

\* A sign-up whose assignment ran to its end has put the user into every group
\* that its number meets, next to whatever else was done to the groups and
\* their members; only what was deleted since is missing.
AssignedToAll == \A m \in settled \ dropped :
  /\ m[1] \in MyGroups(m[2]) /\ m[2] \in GroupMembers(m[1])
  /\ <<m[2], "participant">> \in role \cup dropped
=============================================================================
