--------------------------- MODULE RefreshTokens ---------------------------
(***************************************************************************)
(* AuthService without sign-up: login, logout, rotation of refresh tokens, *)
(* change and reset of the password, verification of the email, and the    *)
(* nightly cleanup.  All kinds of token are rows of one table; the kind is *)
(* the prefix of familyId, so it is that of the family.                    *)
(*                                                                         *)
(* Requests run and interleave as in EventDb: one step is one statement.   *)
(* A request that its first reads refuse writes nothing; it is one that    *)
(* was not sent.  A row deleted by the cleanup keeps its place in `token`, *)
(* marked gone, so that properties can speak of its successors.            *)
(***************************************************************************)
EXTENDS Naturals, Sequences, FiniteSets

CONSTANTS
  Users,      \* the accounts; all have an email
  Passwords,  \* the passwords they choose
  None,       \* no user, no password
  Slots,      \* requests that can be in flight at the same time
  MayFail,    \* whether a request can die between two statements
  MaxRequests \* bound: requests that are ever begun

ASSUME SetsAssumption == /\ None \notin Users \cup Passwords
                         /\ IsFiniteSet(Slots)
ASSUME BoundAssumption == MaxRequests \in Nat /\ MayFail \in BOOLEAN

VARIABLES
  password,   \* the password behind user.passwordHash
  active,     \* the users whose status is ACTIVE
  token,      \* the RefreshToken rows in the order of their insertion
  request,    \* the request in each slot
  served,     \* the number of requests begun
  (* History: *)
  ended,      \* families that some statement has revoked as a whole
  overtaken,  \* of these, the ones that a refresh in flight escaped at the last time
  unsettled   \* users whose last change of password may have missed a token

history == <<ended, overtaken, unsettled>>
vars == <<password, active, token, request, served, ended, overtaken, unsettled>>

-----------------------------------------------------------------------------
Kinds == {"SESSION", "RESET", "VERIFY"}

\* A family is named by its first row.  `parent` is the row that was rotated
\* into this one (0 for the first), `opened` the password when it was opened.
Row == [user : Users, kind : Kinds, family : Nat \ {0}, revoked : BOOLEAN,
        expired : BOOLEAN, gone : BOOLEAN, parent : Nat, opened : Passwords]

\* `row` is the key of the row it read, `family` the one to insert into, 0 for
\* a new one; `opened` as in Row; `new` is the password it was sent.
Request == [pc : {"idle", "issue", "rotate", "close", "write", "spend",
                  "revokeAll", "activate", "revokeVerify"},
            user : Users \cup {None},
            row : Nat,
            kind : Kinds,
            family : Nat,
            opened : Passwords \cup {None},
            new : Passwords \cup {None}]

Idle == [pc |-> "idle", user |-> None, row |-> 0, kind |-> "SESSION",
         family |-> 0, opened |-> None, new |-> None]

TypeOK ==
  /\ password \in [Users -> Passwords]
  /\ active \subseteq Users
  /\ token \in Seq(Row)
  /\ request \in [Slots -> Request]
  /\ served \in Nat
  /\ ended \subseteq Nat
  /\ overtaken \subseteq ended
  /\ unsettled \subseteq Users

Init ==
  /\ password \in [Users -> Passwords]
  /\ active = Users
  /\ token = <<>>
  /\ request = [s \in Slots |-> Idle]
  /\ served = 0
  /\ ended = {}
  /\ overtaken = {}
  /\ unsettled = {}

-----------------------------------------------------------------------------
(***************************************************************************)
(* Rows and requests.                                                      *)
(***************************************************************************)
Rows == DOMAIN token
Found(t) == ~token[t].gone
Usable(t) == Found(t) /\ ~token[t].revoked /\ ~token[t].expired
Families(u) == {token[t].family : t \in {r \in Rows : token[r].user = u}}

At(s, label) == request[s].pc = label

\* The labels from which a request goes on to insert a row.
Inserting(s) == request[s].pc \in {"rotate", "revokeVerify", "issue"}

Begin(s, r) ==
  /\ request[s] = Idle
  /\ served < MaxRequests
  /\ served' = served + 1
  /\ request' = [request EXCEPT ![s] = r]

Goto(s, label) == request' = [request EXCEPT ![s].pc = label] /\ UNCHANGED served
End(s) == request' = [request EXCEPT ![s] = Idle] /\ UNCHANGED served

\* Between the write of a password and the revocation of all tokens.
Settling(s) == \/ At(s, "revokeAll")
               \/ At(s, "spend") /\ request[s].kind = "RESET"

\* The handler throws, or the request or the whole process dies.
Throw(s) ==
  /\ unsettled' = IF Settling(s) THEN unsettled \cup {request[s].user} ELSE unsettled
  /\ End(s)
  /\ UNCHANGED <<password, active, token, ended, overtaken>>

Fail(s) == MayFail /\ ~At(s, "idle") /\ Throw(s)

\* updateMany: revoke the rows in `which`.
Revoke(which) ==
  token' = [t \in Rows |-> [token[t] EXCEPT !.revoked = @ \/ t \in which]]

\* The families in `which` have ended; a refresh that has read a row of one of
\* them goes on.
EndFamilies(which) ==
  /\ ended' = ended \cup which
  /\ overtaken' = (overtaken \ which)
       \cup {f \in which : \E s \in Slots : Inserting(s) /\ request[s].family = f}

-----------------------------------------------------------------------------
(***************************************************************************)
(* login, and generateTokens with its one statement, the insert.           *)
(***************************************************************************)
\* The password sent is the one read here; any other is refused.
LoginBegin(s, u) ==
  /\ u \in active
  /\ Begin(s, [Idle EXCEPT !.pc = "issue", !.user = u, !.opened = password[u]])
  /\ UNCHANGED <<password, active, token, history>>

\* Mutant: no family is made up when none was passed.
IssueNoFamily(s) ==
  LET r == request[s]
  IN  /\ At(s, "issue")
      /\ token' = Append(token,
           [user |-> r.user, kind |-> r.kind, family |-> r.family,
            revoked |-> FALSE, expired |-> FALSE, gone |-> FALSE,
            parent |-> r.row, opened |-> r.opened])
      /\ End(s)
      /\ UNCHANGED <<password, active, history>>

Issue(s) ==
  LET r == request[s]
  IN  /\ At(s, "issue")
      /\ token' = Append(token,
           [user |-> r.user, kind |-> r.kind,
            family |-> IF r.family = 0 THEN Len(token) + 1 ELSE r.family,
            revoked |-> FALSE, expired |-> FALSE, gone |-> FALSE,
            parent |-> r.row, opened |-> r.opened])
      /\ End(s)
      /\ UNCHANGED <<password, active, history>>

-----------------------------------------------------------------------------
(***************************************************************************)
(* refreshTokens and logout.  The token sent may be of any kind, and it    *)
(* may be revoked: clients retry, and old tokens are kept somewhere.       *)
(***************************************************************************)
\* The token is found and not revoked, nor expired: it is to be rotated.
RefreshBegin(s, t) ==
  /\ Usable(t)
  /\ Begin(s, [Idle EXCEPT !.pc = "rotate", !.user = token[t].user, !.row = t,
                           !.kind = token[t].kind, !.family = token[t].family,
                           !.opened = token[t].opened])
  /\ UNCHANGED <<password, active, token, history>>

\* A revoked token is sent, which is taken for reuse; or any token is sent to
\* logout, by whoever is signed in.
CloseBegin(s, t) ==
  /\ Found(t)
  /\ token[t].revoked \/ active # {}
  /\ Begin(s, [Idle EXCEPT !.pc = "close", !.user = token[t].user, !.row = t,
                           !.kind = token[t].kind, !.family = token[t].family])
  /\ UNCHANGED <<password, active, token, history>>

\* Mutant: a row is inserted for the client, and the old one stays valid.
RotateUnrevoked(s) ==
  LET t == request[s].row
  IN  /\ At(s, "rotate")
      /\ IF ~Found(t)
           THEN Throw(s)
           ELSE /\ Goto(s, "issue")
                /\ UNCHANGED <<password, active, token, history>>

\* The update is by key, and finds the row unless it was cleaned up meanwhile;
\* it does not look whether another request has revoked it.
Rotate(s) ==
  LET t == request[s].row
  IN  /\ At(s, "rotate")
      /\ IF ~Found(t)
           THEN Throw(s)
           ELSE /\ Revoke({t})
                /\ Goto(s, "issue")
                /\ UNCHANGED <<password, active, history>>

\* Mutant: only the token that was sent is revoked.
CloseToken(s) ==
  LET f == request[s].family
  IN  /\ At(s, "close")
      /\ Revoke({request[s].row})
      /\ EndFamilies({f})
      /\ End(s)
      /\ UNCHANGED <<password, active, unsettled>>

Close(s) ==
  LET f == request[s].family
  IN  /\ At(s, "close")
      /\ Revoke({t \in Rows : token[t].family = f})
      /\ EndFamilies({f})
      /\ End(s)
      /\ UNCHANGED <<password, active, unsettled>>

-----------------------------------------------------------------------------
(***************************************************************************)
(* changePassword, forgotPassword and resetPassword.                       *)
(***************************************************************************)
\* The guard of the route lets only ACTIVE users in, and the handler has
\* compared the current password.
ChangePasswordBegin(s, u, p) ==
  /\ u \in active
  /\ Begin(s, [Idle EXCEPT !.pc = "write", !.user = u, !.new = p])
  /\ UNCHANGED <<password, active, token, history>>

ForgotPasswordBegin(s, u) ==
  /\ Begin(s, [Idle EXCEPT !.pc = "issue", !.user = u, !.kind = "RESET",
                           !.opened = password[u]])
  /\ UNCHANGED <<password, active, token, history>>

ResetPasswordBegin(s, t, p) ==
  /\ Usable(t)
  /\ token[t].kind = "RESET"
  /\ Begin(s, [Idle EXCEPT !.pc = "write", !.user = token[t].user, !.row = t,
                           !.kind = "RESET", !.new = p])
  /\ UNCHANGED <<password, active, token, history>>

WritePassword(s) ==
  LET r == request[s]
  IN  /\ At(s, "write")
      /\ password' = [password EXCEPT ![r.user] = r.new]
      /\ Goto(s, IF r.kind = "RESET" THEN "spend" ELSE "revokeAll")
      /\ UNCHANGED <<active, token, history>>

\* A reset or verification token that has served is revoked, by key.  When the
\* cleanup has deleted it the update throws, and nothing after it happens.
Spend(s) ==
  LET r == request[s]
  IN  /\ At(s, "spend")
      /\ IF ~Found(r.row)
           THEN Throw(s)
           ELSE /\ Revoke({r.row})
                /\ IF r.kind = "RESET" THEN Goto(s, "revokeAll") ELSE End(s)
                /\ UNCHANGED <<password, active, history>>

\* Mutant: pending reset and verification tokens are left alone.
RevokeSessions(s) ==
  LET u == request[s].user
      sessions == {t \in Rows : token[t].user = u /\ token[t].kind = "SESSION"}
  IN  /\ At(s, "revokeAll")
      /\ Revoke(sessions)
      /\ EndFamilies({token[t].family : t \in sessions})
      /\ unsettled' =
           IF \E r \in Slots : Inserting(r) /\ request[r].user = u
             THEN unsettled \cup {u} ELSE unsettled \ {u}
      /\ End(s)
      /\ UNCHANGED <<password, active>>

\* All rows of the user, of any kind.
RevokeAll(s) ==
  LET u == request[s].user
  IN  /\ At(s, "revokeAll")
      /\ Revoke({t \in Rows : token[t].user = u})
      /\ EndFamilies(Families(u))
      /\ unsettled' =
           IF \E r \in Slots : Inserting(r) /\ request[r].user = u
             THEN unsettled \cup {u} ELSE unsettled \ {u}
      /\ End(s)
      /\ UNCHANGED <<password, active>>

-----------------------------------------------------------------------------
(***************************************************************************)
(* resendVerification, verifyEmail and the status set by an administrator. *)
(***************************************************************************)
ResendBegin(s, u) ==
  /\ u \in active
  /\ Begin(s, [Idle EXCEPT !.pc = "revokeVerify", !.user = u, !.kind = "VERIFY",
                           !.opened = password[u]])
  /\ UNCHANGED <<password, active, token, history>>

RevokeVerify(s) ==
  LET u == request[s].user
  IN  /\ At(s, "revokeVerify")
      /\ Revoke({t \in Rows : token[t].user = u /\ token[t].kind = "VERIFY"})
      /\ Goto(s, "issue")
      /\ UNCHANGED <<password, active, history>>

VerifyBegin(s, t) ==
  /\ Usable(t)
  /\ token[t].kind = "VERIFY"
  /\ Begin(s, [Idle EXCEPT !.pc = "activate", !.user = token[t].user, !.row = t,
                           !.kind = "VERIFY"])
  /\ UNCHANGED <<password, active, token, history>>

Activate(s) ==
  /\ At(s, "activate")
  /\ active' = active \cup {request[s].user}
  /\ Goto(s, "spend")
  /\ UNCHANGED <<password, token, history>>

\* One statement; the read before it can only find that there is no such user.
UserStatus(u) ==
  /\ active' = IF u \in active THEN active \ {u} ELSE active \cup {u}
  /\ UNCHANGED <<password, token, request, served, history>>

-----------------------------------------------------------------------------
(***************************************************************************)
(* Time.  Lifetimes differ by kind, so rows expire in any order.           *)
(***************************************************************************)
Expire(t) ==
  /\ ~token[t].expired
  /\ token' = [token EXCEPT ![t].expired = TRUE]
  /\ UNCHANGED <<password, active, request, served, history>>

\* cleanupExpiredTokens, daily: one deleteMany.
Cleanup ==
  /\ \E t \in Rows : token[t].expired /\ Found(t)
  /\ token' = [t \in Rows |-> [token[t] EXCEPT !.gone = @ \/ token[t].expired]]
  /\ UNCHANGED <<password, active, request, served, history>>

-----------------------------------------------------------------------------
Step(s) == \/ Issue(s) \/ Rotate(s) \/ Close(s)
           \/ WritePassword(s) \/ Spend(s) \/ RevokeAll(s)
           \/ RevokeVerify(s) \/ Activate(s)

Arrive(s) ==
  \/ \E u \in Users : \/ LoginBegin(s, u)
                      \/ ForgotPasswordBegin(s, u)
                      \/ ResendBegin(s, u)
                      \/ \E p \in Passwords : ChangePasswordBegin(s, u, p)
  \/ \E t \in Rows : \/ RefreshBegin(s, t)
                     \/ CloseBegin(s, t)
                     \/ VerifyBegin(s, t)
                     \/ \E p \in Passwords : ResetPasswordBegin(s, t, p)

Next == \/ \E s \in Slots : Arrive(s) \/ Step(s) \/ Fail(s)
        \/ \E u \in Users : UserStatus(u)
        \/ \E t \in Rows : Expire(t)
        \/ Cleanup

Spec == Init /\ [][Next]_vars

-----------------------------------------------------------------------------
(***************************************************************************)
(* Properties.                                                             *)
(***************************************************************************)
\* Rotation: every request that has read a token before it is revoked makes a
\* successor, but no others do, however often the token is sent and whoever
\* dies in between.  With one request at a time a family is a chain.
Successors(t) == {c \in Rows : token[c].parent = t}
FewSuccessors == \A t \in Rows : Cardinality(Successors(t)) <= Cardinality(Slots)

\* Logout, reuse of an old token, and a new password end whole families: no
\* token of theirs is valid again, except through a refresh that had read its
\* token already.
EndedIsDead ==
  \A t \in Rows : token[t].family \in ended \ overtaken => token[t].revoked

\* What API_DOCUMENTATION says of logout and reuse, without that exception.
LoggedOutStaysOut == \A t \in Rows : token[t].family \in ended => token[t].revoked

\* After a new password nothing is valid that was obtained under another one:
\* no session, no reset token and no verification token.  While the handler
\* has yet to revoke them they are; and they stay so if it stops there, or if
\* a login, refresh or mail was under way at that moment.
ValidUnderPassword ==
  \A t \in Rows :
    LET u == token[t].user
    IN  ~token[t].revoked /\ token[t].opened # password[u] =>
          u \in unsettled \/ \E s \in Slots : Settling(s) /\ request[s].user = u
=============================================================================
