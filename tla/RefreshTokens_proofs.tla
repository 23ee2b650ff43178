----------------------- MODULE RefreshTokens_proofs -----------------------
(***************************************************************************)
(* Theorems about RefreshTokens, for every set of users, passwords and     *)
(* slots and any number of requests.                                       *)
(***************************************************************************)
EXTENDS RefreshTokens, FiniteSetTheorems, SequenceTheorems, TLAPS

-----------------------------------------------------------------------------
(***************************************************************************)
(* Type correctness.  Rows refer to rows that are there: a family to its   *)
(* first, which has the same user, and a request to what it has read.      *)
(***************************************************************************)
RowsOK ==
  \A t \in 1..Len(token) :
    /\ token[t].family \in 1..Len(token)
    /\ token[t].parent \in 0..Len(token)
    /\ token[token[t].family].user = token[t].user

InsertLabels == {"rotate", "revokeVerify", "issue"}

\* What the locals of a request satisfy at each label.
LocalOK(r) ==
  /\ r.pc # "idle" => r.user \in Users
  /\ r.row \in 0..Len(token)
  /\ r.family \in 0..Len(token)
  /\ r.pc \in {"rotate", "close", "spend", "activate"} => r.row # 0
  /\ r.pc = "write" => r.new \in Passwords /\ (r.kind = "RESET" => r.row # 0)
  /\ r.pc = "close" => r.family # 0
  /\ r.pc = "revokeVerify" => r.row = 0
  /\ r.pc \in InsertLabels => r.opened \in Passwords
  /\ r.family # 0 => token[r.family].user = r.user

TypeInv ==
  /\ TypeOK
  /\ RowsOK
  /\ \A s \in Slots : LocalOK(request[s])
  /\ ended \subseteq 1..Len(token)

\* The rows stay where they are, and none that is revoked becomes valid.
Same(a, b) == /\ a.user = b.user /\ a.kind = b.kind /\ a.family = b.family
              /\ a.parent = b.parent /\ a.opened = b.opened
              /\ a.revoked => b.revoked

Kept == /\ token' \in Seq(Row)
        /\ Len(token') = Len(token)
        /\ \A t \in 1..Len(token) : Same(token[t], token'[t])

LEMMA RowsAre ==
  ASSUME token \in Seq(Row)
  PROVE  /\ Rows = 1..Len(token)
         /\ Len(token) \in Nat
         /\ \A t \in 1..Len(token) : token[t] \in Row
BY DEF Rows

\* What updateMany and update do to the rows.
LEMMA Revoked ==
  ASSUME token \in Seq(Row), NEW which, Revoke(which)
  PROVE  /\ Kept
         /\ \A t \in 1..Len(token) :
              token'[t].revoked = (token[t].revoked \/ t \in which)
<1>1. Rows = 1..Len(token) /\ Len(token) \in Nat
      /\ \A t \in 1..Len(token) : token[t] \in Row
  BY RowsAre
<1>2. \A t \in 1..Len(token) :
         /\ token'[t] = [token[t] EXCEPT !.revoked = token[t].revoked \/ t \in which]
         /\ token'[t] \in Row
  <2>1. \A r \in Row, b \in BOOLEAN : [r EXCEPT !.revoked = b] \in Row
    BY DEF Row
  <2>2. \A t \in 1..Len(token) : (token[t].revoked \/ t \in which) \in BOOLEAN
    OBVIOUS
  <2>3. \A t \in 1..Len(token) :
          token'[t] = [token[t] EXCEPT !.revoked = token[t].revoked \/ t \in which]
    BY <1>1 DEF Revoke
  <2> QED BY <1>1, <2>1, <2>2, <2>3
<1>3. token' \in [1..Len(token) -> Row]
  BY <1>1, <1>2 DEF Revoke
<1>4. token' \in Seq(Row) /\ Len(token') = Len(token)
  BY <1>1, <1>3
<1>5. \A t \in 1..Len(token) : Same(token[t], token'[t])
  BY <1>1, <1>2 DEF Same, Row
<1>6. \A t \in 1..Len(token) : token'[t].revoked = (token[t].revoked \/ t \in which)
  BY <1>1, <1>2 DEF Row
<1> QED BY <1>4, <1>5, <1>6 DEF Kept

\* What the passing of time does to them.
LEMMA Aged ==
  ASSUME token \in Seq(Row), Cleanup \/ \E t \in Rows : Expire(t)
  PROVE  Kept
<1>1. Rows = 1..Len(token) /\ Len(token) \in Nat
      /\ \A t \in 1..Len(token) : token[t] \in Row
  BY RowsAre
<1>2. CASE Cleanup
  <2>1. \A t \in 1..Len(token) :
          token'[t] = [token[t] EXCEPT !.gone = token[t].gone \/ token[t].expired]
    BY <1>1, <1>2 DEF Cleanup
  <2>2. \A t \in 1..Len(token) :
          \E b \in BOOLEAN : token'[t] = [token[t] EXCEPT !.gone = b]
    BY <1>1, <2>1, Zenon
  <2>3. \A r \in Row, b \in BOOLEAN : [r EXCEPT !.gone = b] \in Row
    BY DEF Row
  <2>4. \A r \in Row, b \in BOOLEAN : Same(r, [r EXCEPT !.gone = b])
    BY DEF Row, Same
  <2>5. \A t \in 1..Len(token) : token'[t] \in Row /\ Same(token[t], token'[t])
    <3>1. TAKE t \in 1..Len(token)
    <3>2. token[t] \in Row
      BY <1>1
    <3>3. PICK b \in BOOLEAN : token'[t] = [token[t] EXCEPT !.gone = b]
      BY <2>2
    <3>4. [token[t] EXCEPT !.gone = b] \in Row
      BY <2>3, <3>2, <3>3
    <3>5. Same(token[t], [token[t] EXCEPT !.gone = b])
      BY <2>4, <3>2, <3>3
    <3> QED BY <3>3, <3>4, <3>5
  <2>6. token' \in [1..Len(token) -> Row]
    BY <1>1, <1>2, <2>5 DEF Cleanup
  <2>7. token' \in Seq(Row) /\ Len(token') = Len(token)
    BY <1>1, <2>6
  <2> QED BY <2>5, <2>7 DEF Kept
<1>3. CASE \E t \in Rows : Expire(t)
  <2>1. PICK t \in 1..Len(token) : token' = [token EXCEPT ![t].expired = TRUE]
    BY <1>1, <1>3 DEF Expire
  <2>2. [token[t] EXCEPT !.expired = TRUE] \in Row
        /\ Same(token[t], [token[t] EXCEPT !.expired = TRUE])
    BY <1>1 DEF Row, Same
  <2>3. \A r \in Row : Same(r, r)
    BY DEF Same
  <2>4. token' \in Seq(Row) /\ Len(token') = Len(token)
    BY <1>1, <2>1, <2>2
  <2>5. \A i \in 1..Len(token) : Same(token[i], token'[i])
    BY <1>1, <2>1, <2>2, <2>3
  <2> QED BY <2>4, <2>5 DEF Kept
<1> QED BY <1>2, <1>3

LEMMA IdleOK ==
  ASSUME Len(token) \in Nat
  PROVE  Idle \in Request /\ LocalOK(Idle) /\ Idle.pc = "idle"
BY DEF Idle, Request, Kinds, LocalOK, InsertLabels

\* A step that changes at most one request, and no row but as in Kept.
LEMMA Moves ==
  ASSUME TypeInv, Kept, NEW s \in Slots, NEW q \in Request, LocalOK(q),
         request' = [request EXCEPT ![s] = q],
         password' \in [Users -> Passwords], active' \subseteq Users,
         served' \in Nat, ended' \subseteq 1..Len(token),
         overtaken' \subseteq ended', unsettled' \subseteq Users
  PROVE  TypeInv'
<1>1. Len(token) \in Nat /\ \A t \in 1..Len(token) : token[t] \in Row
  BY RowsAre DEF TypeInv, TypeOK
<1>2. TypeOK'
  BY <1>1 DEF TypeInv, TypeOK, Kept
<1>3. RowsOK'
  BY <1>1 DEF TypeInv, RowsOK, Kept, Same
<1>4. \A t \in Slots : request'[t] \in Request /\ LocalOK(request'[t])
  BY DEF TypeInv, TypeOK
<1>5. ASSUME NEW t \in Slots PROVE LocalOK(request[t])'
  BY <1>1, <1>4 DEF Kept, LocalOK, Same
<1> QED BY <1>1, <1>2, <1>3, <1>5 DEF TypeInv, Kept

-----------------------------------------------------------------------------
(***************************************************************************)
(* What the steps of a request have in common, but for Issue: the request  *)
(* moves on to q.  If q will insert a row, the request was going to before *)
(* the step, or it has just begun, or it has just read a valid token.      *)
(***************************************************************************)
Origin(s, q) ==
  q.pc \in InsertLabels =>
    \/ /\ request[s].pc \in InsertLabels
       /\ q.user = request[s].user /\ q.row = request[s].row
       /\ q.family = request[s].family /\ q.opened = request[s].opened
    \/ q.row = 0 /\ q.family = 0 /\ q.opened = password[q.user]
    \/ /\ q.row \in 1..Len(token) /\ ~token[q.row].revoked /\ q.pc = "rotate"
       /\ q.user = token[q.row].user /\ q.family = token[q.row].family
       /\ q.opened = token[q.row].opened

MovesTo(s, q) ==
  /\ q \in Request /\ LocalOK(q) /\ Origin(s, q)
  /\ q.pc = "issue" /\ q.row # 0 => token'[q.row].revoked
  /\ request' = [request EXCEPT ![s] = q]
  /\ Kept

LEMMA Unchanged == ASSUME TypeInv, UNCHANGED token PROVE Kept
BY DEF TypeInv, TypeOK, Kept, Same

LEMMA ToIdle ==
  ASSUME TypeInv, NEW s \in Slots, End(s), Kept
  PROVE  MovesTo(s, Idle)
<1>1. Len(token) \in Nat
  BY RowsAre DEF TypeInv, TypeOK
<1> QED BY <1>1, IdleOK DEF End, MovesTo, Origin, InsertLabels

\* The steps that begin a request.
LEMMA ArriveShape ==
  ASSUME TypeInv, NEW s \in Slots, Arrive(s)
  PROVE  /\ \E q : MovesTo(s, q)
         /\ UNCHANGED <<password, active, token, history>>
         /\ served' \in Nat
         /\ request[s] = Idle
<1>1. /\ Rows = 1..Len(token) /\ Len(token) \in Nat
      /\ \A t \in 1..Len(token) : token[t] \in Row
  BY RowsAre DEF TypeInv, TypeOK
<1>2. \E r : Begin(s, r) /\ UNCHANGED <<password, active, token, history>>
  BY DEF Arrive, LoginBegin, ForgotPasswordBegin, ResendBegin, ChangePasswordBegin,
         RefreshBegin, CloseBegin, VerifyBegin, ResetPasswordBegin
<1>a. /\ UNCHANGED <<password, active, token, history>>
      /\ served' \in Nat
      /\ request[s] = Idle
  BY <1>2 DEF Begin, TypeInv, TypeOK
<1>3. Kept
  BY <1>a, Unchanged
<1>4. \A u \in Users : password[u] \in Passwords
  BY DEF TypeInv, TypeOK
<1>5. \A u \in active : u \in Users
  BY DEF TypeInv, TypeOK
<1>6. \A t \in 1..Len(token) :
        /\ token[t].family \in 1..Len(token)
        /\ token[token[t].family].user = token[t].user
        /\ token[t].user \in Users /\ token[t].kind \in Kinds
        /\ token[t].opened \in Passwords
  BY <1>1 DEF TypeInv, RowsOK, Row
<1>7. ASSUME NEW u \in Users, LoginBegin(s, u) PROVE \E q : MovesTo(s, q)
  <2>1. PICK q : q = [Idle EXCEPT !.pc = "issue", !.user = u, !.opened = password[u]]
    OBVIOUS
  <2>2. q \in Request
    BY <1>4, <2>1 DEF Idle, Request, Kinds
  <2>3. LocalOK(q) /\ Origin(s, q) /\ q.row = 0
    BY <1>1, <1>4, <2>1 DEF Idle, LocalOK, Origin, InsertLabels
  <2>4. request' = [request EXCEPT ![s] = q]
    BY <1>7, <2>1 DEF LoginBegin, Begin
  <2> QED BY <1>3, <2>2, <2>3, <2>4 DEF MovesTo
<1>8. ASSUME NEW u \in Users, ForgotPasswordBegin(s, u) PROVE \E q : MovesTo(s, q)
  <2>1. PICK q : q = [Idle EXCEPT !.pc = "issue", !.user = u, !.kind = "RESET",
                      !.opened = password[u]]
    OBVIOUS
  <2>2. q \in Request
    BY <1>1, <1>4, <2>1 DEF Idle, Request, Kinds
  <2>3. LocalOK(q) /\ Origin(s, q) /\ (q.row = 0 \/ q.pc # "issue")
    BY <1>1, <1>4, <2>1 DEF Idle, LocalOK, Origin, InsertLabels
  <2>4. request' = [request EXCEPT ![s] = q]
    BY <1>8, <2>1 DEF ForgotPasswordBegin, Begin
  <2> QED BY <1>3, <2>2, <2>3, <2>4 DEF MovesTo
<1>9. ASSUME NEW u \in Users, ResendBegin(s, u) PROVE \E q : MovesTo(s, q)
  <2>1. PICK q : q = [Idle EXCEPT !.pc = "revokeVerify", !.user = u, !.kind = "VERIFY",
                      !.opened = password[u]]
    OBVIOUS
  <2>2. q \in Request
    BY <1>1, <1>4, <2>1 DEF Idle, Request, Kinds
  <2>3. LocalOK(q) /\ Origin(s, q) /\ (q.row = 0 \/ q.pc # "issue")
    BY <1>1, <1>4, <2>1 DEF Idle, LocalOK, Origin, InsertLabels
  <2>4. request' = [request EXCEPT ![s] = q]
    BY <1>9, <2>1 DEF ResendBegin, Begin
  <2> QED BY <1>3, <2>2, <2>3, <2>4 DEF MovesTo
<1>10. ASSUME NEW u \in Users, NEW p \in Passwords, ChangePasswordBegin(s, u, p)
       PROVE  \E q : MovesTo(s, q)
  <2>1. PICK q : q = [Idle EXCEPT !.pc = "write", !.user = u, !.new = p]
    OBVIOUS
  <2>2. q \in Request
    BY <1>1, <2>1 DEF Idle, Request, Kinds
  <2>3. LocalOK(q) /\ Origin(s, q) /\ (q.row = 0 \/ q.pc # "issue")
    BY <1>1, <2>1 DEF Idle, LocalOK, Origin, InsertLabels
  <2>4. request' = [request EXCEPT ![s] = q]
    BY <1>10, <2>1 DEF ChangePasswordBegin, Begin
  <2> QED BY <1>3, <2>2, <2>3, <2>4 DEF MovesTo
<1>11. ASSUME NEW t \in Rows, RefreshBegin(s, t) PROVE \E q : MovesTo(s, q)
  <2>a. /\ t \in 1..Len(token) /\ t # 0 /\ t \in 0..Len(token) /\ t \in Nat
        /\ token[t].family \in 1..Len(token) /\ token[t].family \in Nat
        /\ token[token[t].family].user = token[t].user
        /\ token[t].user \in Users /\ token[t].kind \in Kinds
        /\ token[t].opened \in Passwords
    BY <1>1, <1>6
  <2>1. PICK q : q = [Idle EXCEPT !.pc = "rotate", !.user = token[t].user, !.row = t,
                      !.kind = token[t].kind, !.family = token[t].family,
                      !.opened = token[t].opened]
    OBVIOUS
  <2>2. q \in Request
    BY <2>a, <2>1 DEF Idle, Request, Kinds
  <2>3. LocalOK(q) /\ Origin(s, q) /\ (q.row = 0 \/ q.pc # "issue")
    BY <1>1, <2>a, <1>11, <2>1 DEF Idle, LocalOK, Origin, InsertLabels, RefreshBegin, Usable
  <2>4. request' = [request EXCEPT ![s] = q]
    BY <1>11, <2>1 DEF RefreshBegin, Begin
  <2> QED BY <1>3, <2>2, <2>3, <2>4 DEF MovesTo
<1>12. ASSUME NEW t \in Rows, CloseBegin(s, t) PROVE \E q : MovesTo(s, q)
  <2>a. /\ t \in 1..Len(token) /\ t # 0 /\ t \in 0..Len(token) /\ t \in Nat
        /\ token[t].family \in 1..Len(token) /\ token[t].family \in Nat
        /\ token[token[t].family].user = token[t].user
        /\ token[t].user \in Users /\ token[t].kind \in Kinds
        /\ token[t].opened \in Passwords
    BY <1>1, <1>6
  <2>1. PICK q : q = [Idle EXCEPT !.pc = "close", !.user = token[t].user, !.row = t,
                      !.kind = token[t].kind, !.family = token[t].family]
    OBVIOUS
  <2>2. q \in Request
    BY <2>a, <2>1 DEF Idle, Request, Kinds
  <2>3. LocalOK(q) /\ Origin(s, q) /\ (q.row = 0 \/ q.pc # "issue")
    BY <1>1, <2>a, <2>1 DEF Idle, LocalOK, Origin, InsertLabels
  <2>4. request' = [request EXCEPT ![s] = q]
    BY <1>12, <2>1 DEF CloseBegin, Begin
  <2> QED BY <1>3, <2>2, <2>3, <2>4 DEF MovesTo
<1>13. ASSUME NEW t \in Rows, VerifyBegin(s, t) PROVE \E q : MovesTo(s, q)
  <2>a. /\ t \in 1..Len(token) /\ t # 0 /\ t \in 0..Len(token) /\ t \in Nat
        /\ token[t].family \in 1..Len(token) /\ token[t].family \in Nat
        /\ token[token[t].family].user = token[t].user
        /\ token[t].user \in Users /\ token[t].kind \in Kinds
        /\ token[t].opened \in Passwords
    BY <1>1, <1>6
  <2>1. PICK q : q = [Idle EXCEPT !.pc = "activate", !.user = token[t].user, !.row = t,
                      !.kind = "VERIFY"]
    OBVIOUS
  <2>2. q \in Request
    BY <2>a, <2>1 DEF Idle, Request, Kinds
  <2>3. LocalOK(q) /\ Origin(s, q) /\ (q.row = 0 \/ q.pc # "issue")
    BY <1>1, <2>a, <2>1 DEF Idle, LocalOK, Origin, InsertLabels
  <2>4. request' = [request EXCEPT ![s] = q]
    BY <1>13, <2>1 DEF VerifyBegin, Begin
  <2> QED BY <1>3, <2>2, <2>3, <2>4 DEF MovesTo
<1>14. ASSUME NEW t \in Rows, NEW p \in Passwords, ResetPasswordBegin(s, t, p)
       PROVE  \E q : MovesTo(s, q)
  <2>a. /\ t \in 1..Len(token) /\ t # 0 /\ t \in 0..Len(token) /\ t \in Nat
        /\ token[t].family \in 1..Len(token) /\ token[t].family \in Nat
        /\ token[token[t].family].user = token[t].user
        /\ token[t].user \in Users /\ token[t].kind \in Kinds
        /\ token[t].opened \in Passwords
    BY <1>1, <1>6
  <2>1. PICK q : q = [Idle EXCEPT !.pc = "write", !.user = token[t].user, !.row = t,
                      !.kind = "RESET", !.new = p]
    OBVIOUS
  <2>2. q \in Request
    BY <2>a, <2>1 DEF Idle, Request, Kinds
  <2>3. LocalOK(q) /\ Origin(s, q) /\ (q.row = 0 \/ q.pc # "issue")
    BY <1>1, <2>a, <2>1 DEF Idle, LocalOK, Origin, InsertLabels
  <2>4. request' = [request EXCEPT ![s] = q]
    BY <1>14, <2>1 DEF ResetPasswordBegin, Begin
  <2> QED BY <1>3, <2>2, <2>3, <2>4 DEF MovesTo
<1> QED BY <1>a, <1>7, <1>8, <1>9, <1>10, <1>11, <1>12, <1>13, <1>14 DEF Arrive

\* A request at some statement goes on to another.
LEMMA GoesOn ==
  ASSUME TypeInv, NEW s \in Slots, request[s].pc # "idle", Kept,
         NEW label \in {"issue", "spend", "revokeAll"}, Goto(s, label),
         label = "issue" => /\ request[s].pc \in InsertLabels
                            /\ request[s].row # 0 => token'[request[s].row].revoked,
         label = "spend" => request[s].row # 0
  PROVE  \E q : MovesTo(s, q)
<1>1. Len(token) \in Nat
  BY RowsAre DEF TypeInv, TypeOK
<1>2. request[s] \in Request /\ LocalOK(request[s])
  BY DEF TypeInv, TypeOK
<1>3. PICK q : q = [request[s] EXCEPT !.pc = label]
  OBVIOUS
<1>4. q \in Request
  BY <1>2, <1>3 DEF Request
<1>5. /\ q.pc = label /\ q.user = request[s].user /\ q.row = request[s].row
      /\ q.kind = request[s].kind /\ q.family = request[s].family
      /\ q.opened = request[s].opened /\ q.new = request[s].new
  BY <1>2, <1>3 DEF Request
<1>6. LocalOK(q)
  BY <1>2, <1>5 DEF LocalOK, InsertLabels
<1>7. Origin(s, q)
  BY <1>5 DEF Origin, InsertLabels
<1>8. request' = [request EXCEPT ![s] = q]
  BY <1>3 DEF Goto
<1> QED BY <1>4, <1>5, <1>6, <1>7, <1>8 DEF MovesTo

\* What a step may write besides the rows and its own request.
Typed ==
  /\ password' \in [Users -> Passwords] /\ active' \subseteq Users
  /\ served' \in Nat /\ ended' \subseteq 1..Len(token)
  /\ overtaken' \subseteq ended' /\ unsettled' \subseteq Users

LEMMA TypedSame ==
  ASSUME TypeInv, UNCHANGED <<password, active, served, history>>
  PROVE  Typed
BY DEF TypeInv, TypeOK, Typed, history

LEMMA ThrowShape ==
  ASSUME TypeInv, NEW s \in Slots, request[s].pc # "idle", Throw(s)
  PROVE  MovesTo(s, Idle) /\ Typed /\ UNCHANGED <<password, active, token, ended, overtaken>>
<1>1. UNCHANGED <<password, active, token, ended, overtaken, served>> /\ End(s)
  BY DEF Throw, End
<1>2. MovesTo(s, Idle)
  BY <1>1, Unchanged, ToIdle
<1>3. request[s].user \in Users
  BY DEF TypeInv, LocalOK
<1>4. Typed
  BY <1>1, <1>3 DEF TypeInv, TypeOK, Throw, Typed
<1> QED BY <1>1, <1>2, <1>4

\* The families ended by a statement are families of rows.
LEMMA EndFamiliesTyped ==
  ASSUME TypeInv, NEW which, which \subseteq 1..Len(token), EndFamilies(which)
  PROVE  ended' \subseteq 1..Len(token) /\ overtaken' \subseteq ended'
BY DEF EndFamilies, TypeInv, TypeOK

LEMMA StepShape ==
  ASSUME TypeInv, NEW s \in Slots, (Step(s) /\ ~Issue(s)) \/ Fail(s)
  PROVE  (\E q : MovesTo(s, q)) /\ Typed
<1>1. /\ Rows = 1..Len(token) /\ Len(token) \in Nat /\ token \in Seq(Row)
      /\ \A t \in 1..Len(token) : token[t] \in Row
  BY RowsAre DEF TypeInv, TypeOK
<1>2. request[s] \in Request /\ LocalOK(request[s])
  BY DEF TypeInv, TypeOK
<1>3. \A u : Families(u) \subseteq 1..Len(token)
  BY <1>1 DEF TypeInv, RowsOK, Families
<1>4. CASE Fail(s)
  BY <1>4, ThrowShape DEF Fail, At
<1>5. CASE Rotate(s)
  <2>1. request[s].pc = "rotate" /\ request[s].row \in 1..Len(token)
    BY <1>1, <1>2, <1>5 DEF Rotate, At, LocalOK
  <2>2. CASE ~Found(request[s].row)
    BY <1>5, <2>1, <2>2, ThrowShape DEF Rotate
  <2>3. CASE Found(request[s].row)
    <3>1. /\ Revoke({request[s].row}) /\ Goto(s, "issue")
          /\ UNCHANGED <<password, active, history>>
      BY <1>5, <2>3 DEF Rotate
    <3>2. Kept /\ token'[request[s].row].revoked
      BY <1>1, <2>1, <3>1, Revoked
    <3>3. Typed
      BY <3>1, TypedSame DEF Goto
    <3> QED BY <2>1, <3>1, <3>2, <3>3, GoesOn DEF InsertLabels
  <2> QED BY <2>2, <2>3
<1>6. CASE Close(s)
  <2>1. /\ Revoke({t \in Rows : token[t].family = request[s].family})
        /\ EndFamilies({request[s].family}) /\ End(s)
        /\ UNCHANGED <<password, active, unsettled>>
    BY <1>6 DEF Close
  <2>2. {request[s].family} \subseteq 1..Len(token)
    BY <1>1, <1>2, <1>6 DEF Close, At, LocalOK
  <2>3. Kept
    BY <1>1, <2>1, Revoked
  <2>4. Typed
    BY <2>1, <2>2, EndFamiliesTyped DEF TypeInv, TypeOK, Typed, End
  <2> QED BY <2>1, <2>3, <2>4, ToIdle
<1>7. CASE WritePassword(s)
  <2>1. /\ request[s].pc = "write" /\ request[s].user \in Users
        /\ request[s].new \in Passwords /\ (request[s].kind = "RESET" => request[s].row # 0)
    BY <1>2, <1>7 DEF WritePassword, At, LocalOK
  <2>2. Kept
    BY <1>7, Unchanged DEF WritePassword
  <2>3. Typed
    BY <1>7, <2>1 DEF WritePassword, TypeInv, TypeOK, Typed, Goto, history
  <2>4. CASE request[s].kind = "RESET"
    BY <1>7, <2>1, <2>2, <2>3, <2>4, GoesOn DEF WritePassword
  <2>5. CASE request[s].kind # "RESET"
    BY <1>7, <2>1, <2>2, <2>3, <2>5, GoesOn DEF WritePassword
  <2> QED BY <2>4, <2>5
<1>8. CASE Spend(s)
  <2>1. request[s].pc = "spend" /\ request[s].row \in 1..Len(token)
    BY <1>1, <1>2, <1>8 DEF Spend, At, LocalOK
  <2>2. CASE ~Found(request[s].row)
    BY <1>8, <2>1, <2>2, ThrowShape DEF Spend
  <2>3. CASE Found(request[s].row)
    <3>1. /\ Revoke({request[s].row})
          /\ IF request[s].kind = "RESET" THEN Goto(s, "revokeAll") ELSE End(s)
          /\ UNCHANGED <<password, active, history>>
      BY <1>8, <2>3 DEF Spend
    <3>2. Kept
      BY <1>1, <3>1, Revoked
    <3>3. Typed
      BY <3>1, TypedSame DEF Goto, End
    <3>4. CASE request[s].kind = "RESET"
      BY <2>1, <3>1, <3>2, <3>3, <3>4, GoesOn
    <3>5. CASE request[s].kind # "RESET"
      BY <3>1, <3>2, <3>3, <3>5, ToIdle
    <3> QED BY <3>4, <3>5
  <2> QED BY <2>2, <2>3
<1>9. CASE RevokeAll(s)
  <2>1. /\ Revoke({t \in Rows : token[t].user = request[s].user})
        /\ EndFamilies(Families(request[s].user)) /\ End(s)
        /\ UNCHANGED <<password, active>>
    BY <1>9 DEF RevokeAll
  <2>2. request[s].user \in Users
    BY <1>2, <1>9 DEF RevokeAll, At, LocalOK
  <2>3. unsettled' \subseteq Users
    BY <1>9, <2>2 DEF RevokeAll, TypeInv, TypeOK
  <2>4. Kept
    BY <1>1, <2>1, Revoked
  <2>5. Typed
    BY <1>3, <2>1, <2>3, EndFamiliesTyped DEF TypeInv, TypeOK, Typed, End
  <2> QED BY <2>1, <2>4, <2>5, ToIdle
<1>10. CASE RevokeVerify(s)
  <2>1. request[s].pc = "revokeVerify" /\ request[s].row = 0
    BY <1>2, <1>10 DEF RevokeVerify, At, LocalOK
  <2>2. /\ Revoke({t \in Rows : token[t].user = request[s].user /\ token[t].kind = "VERIFY"})
        /\ Goto(s, "issue") /\ UNCHANGED <<password, active, history>>
    BY <1>10 DEF RevokeVerify
  <2>3. Kept
    BY <1>1, <2>2, Revoked
  <2>4. Typed
    BY <2>2, TypedSame DEF Goto
  <2> QED BY <2>1, <2>2, <2>3, <2>4, GoesOn DEF InsertLabels
<1>11. CASE Activate(s)
  <2>1. /\ request[s].pc = "activate" /\ request[s].row # 0 /\ request[s].user \in Users
    BY <1>2, <1>11 DEF Activate, At, LocalOK
  <2>2. Kept
    BY <1>11, Unchanged DEF Activate
  <2>3. Typed
    BY <1>11, <2>1 DEF Activate, TypeInv, TypeOK, Typed, Goto, history
  <2> QED BY <1>11, <2>1, <2>2, <2>3, GoesOn DEF Activate
<1> QED BY <1>4, <1>5, <1>6, <1>7, <1>8, <1>9, <1>10, <1>11 DEF Step

\* What the insert adds.
LEMMA IssueShape ==
  ASSUME TypeInv, NEW s \in Slots, Issue(s)
  PROVE  /\ request[s].pc = "issue"
         /\ Len(token) \in Nat /\ Len(token') = Len(token) + 1
         /\ \A t \in 1..Len(token) : token'[t] = token[t]
         /\ token' \in Seq(Row)
         /\ token'[Len(token) + 1].user = request[s].user
         /\ token'[Len(token) + 1].family =
              IF request[s].family = 0 THEN Len(token) + 1 ELSE request[s].family
         /\ token'[Len(token) + 1].parent = request[s].row
         /\ token'[Len(token) + 1].opened = request[s].opened
         /\ request' = [request EXCEPT ![s] = Idle]
         /\ UNCHANGED <<password, active, served, ended, overtaken, unsettled>>
<1>1. Len(token) \in Nat /\ token \in Seq(Row)
  BY RowsAre DEF TypeInv, TypeOK
<1>2. request[s] \in Request /\ LocalOK(request[s]) /\ request[s].pc = "issue"
  BY DEF TypeInv, TypeOK, Issue, At
<1>3. PICK row : row =
        [user |-> request[s].user, kind |-> request[s].kind,
         family |-> IF request[s].family = 0 THEN Len(token) + 1 ELSE request[s].family,
         revoked |-> FALSE, expired |-> FALSE, gone |-> FALSE,
         parent |-> request[s].row, opened |-> request[s].opened]
  OBVIOUS
<1>4. token' = Append(token, row)
  BY <1>3 DEF Issue
<1>5. request[s].user \in Users /\ request[s].opened \in Passwords
  BY <1>2 DEF LocalOK, InsertLabels
<1>6. (IF request[s].family = 0 THEN Len(token) + 1 ELSE request[s].family) \in Nat \ {0}
  BY <1>1, <1>2 DEF Request
<1>7. row \in Row
  BY <1>2, <1>3, <1>5, <1>6 DEF Row, Request
<1>8. /\ token' \in Seq(Row) /\ Len(token') = Len(token) + 1
      /\ \A t \in 1..Len(token) : token'[t] = token[t]
      /\ token'[Len(token) + 1] = row
  BY <1>1, <1>4, <1>7, AppendProperties
<1>9. /\ request' = [request EXCEPT ![s] = Idle]
      /\ UNCHANGED <<password, active, served, ended, overtaken, unsettled>>
  BY DEF Issue, End, history
<1> QED BY <1>1, <1>2, <1>3, <1>8, <1>9

LEMMA IssueTypes ==
  ASSUME TypeInv, NEW s \in Slots, Issue(s)
  PROVE  TypeInv'
<1>1. PICK n : n = Len(token) + 1
  OBVIOUS
<1>2. /\ Len(token) \in Nat /\ Len(token') = n
      /\ \A t \in 1..Len(token) : token'[t] = token[t]
      /\ token' \in Seq(Row)
      /\ token'[n].user = request[s].user
      /\ token'[n].family = IF request[s].family = 0 THEN n ELSE request[s].family
      /\ token'[n].parent = request[s].row
      /\ request' = [request EXCEPT ![s] = Idle]
      /\ UNCHANGED <<password, active, served, ended, overtaken, unsettled>>
  BY <1>1, IssueShape
<1>3. /\ request[s] \in Request /\ request[s].family \in 0..Len(token)
      /\ request[s].row \in 0..Len(token)
      /\ request[s].family # 0 => token[request[s].family].user = request[s].user
  BY DEF TypeInv, TypeOK, LocalOK
<1>4. TypeOK'
  BY <1>2, IdleOK DEF TypeInv, TypeOK
<1>5. ASSUME NEW t \in 1..n
      PROVE  /\ token'[t].family \in 1..n
             /\ token'[t].parent \in 0..n
             /\ token'[token'[t].family].user = token'[t].user
  <2>1. CASE t = n
    BY <1>1, <1>2, <1>3, <2>1
  <2>2. CASE t # n
    <3>1. t \in 1..Len(token) /\ token'[t] = token[t]
      BY <1>1, <1>2, <2>2
    <3>2. /\ token[t].family \in 1..Len(token) /\ token[t].parent \in 0..Len(token)
          /\ token[token[t].family].user = token[t].user
      BY <3>1 DEF TypeInv, RowsOK
    <3> QED BY <1>1, <1>2, <3>1, <3>2
  <2> QED BY <2>1, <2>2
<1>6. RowsOK'
  BY <1>2, <1>5 DEF RowsOK
<1>7. ASSUME NEW t \in Slots PROVE LocalOK(request[t])'
  <2>1. LocalOK(request'[t])
    BY <1>2, IdleOK DEF TypeInv, TypeOK
  <2> QED BY <1>1, <1>2, <2>1 DEF LocalOK
<1>8. ended' \subseteq 1..Len(token')
  BY <1>1, <1>2 DEF TypeInv
<1> QED BY <1>4, <1>6, <1>7, <1>8 DEF TypeInv

\* Every step is an Issue, a step of a request, or a step outside requests.
LEMMA NextShape ==
  ASSUME TypeInv, [Next]_vars
  PROVE  \/ \E s \in Slots : Issue(s)
         \/ \E s \in Slots : Arrive(s)
         \/ \E s \in Slots : (Step(s) /\ ~Issue(s)) \/ Fail(s)
         \/ Kept /\ Typed /\ UNCHANGED <<request, password, ended, overtaken, unsettled>>
<1>1. Rows = 1..Len(token) /\ token \in Seq(Row)
  BY RowsAre DEF TypeInv, TypeOK
<1>2. CASE \E u \in Users : UserStatus(u)
  <2>1. Kept
    BY <1>2, Unchanged DEF UserStatus
  <2>2. Typed
    BY <1>2 DEF UserStatus, TypeInv, TypeOK, Typed, history
  <2> QED BY <1>2, <2>1, <2>2 DEF UserStatus, history
<1>3. CASE Cleanup \/ \E t \in Rows : Expire(t)
  <2>1. Kept
    BY <1>1, <1>3, Aged
  <2>2. UNCHANGED <<password, active, served, history, request>>
    BY <1>3 DEF Cleanup, Expire
  <2>3. Typed
    BY <2>2, TypedSame
  <2> QED BY <2>1, <2>2, <2>3 DEF history
<1>4. CASE UNCHANGED vars
  <2>1. Kept
    BY <1>4, Unchanged DEF vars
  <2>2. Typed
    BY <1>4, TypedSame DEF vars, history
  <2> QED BY <1>4, <2>1, <2>2 DEF vars
<1>5. CASE \E s \in Slots : Arrive(s) \/ Step(s) \/ Fail(s)
  BY <1>5 DEF Step
<1> QED BY <1>2, <1>3, <1>4, <1>5 DEF Next

LEMMA TypeStep ==
  ASSUME TypeInv, [Next]_vars
  PROVE  TypeInv'
<1>1. ASSUME NEW s \in Slots, NEW q, MovesTo(s, q), Typed PROVE TypeInv'
  BY <1>1, Moves DEF MovesTo, Typed
<1>2. CASE \E s \in Slots : Issue(s)
  BY <1>2, IssueTypes
<1>3. CASE \E s \in Slots : Arrive(s)
  <2>1. PICK s \in Slots : Arrive(s)
    BY <1>3
  <2>2. Typed
    BY <2>1, ArriveShape DEF TypeInv, TypeOK, Typed, history
  <2> QED BY <1>1, <2>1, <2>2, ArriveShape
<1>4. CASE \E s \in Slots : (Step(s) /\ ~Issue(s)) \/ Fail(s)
  BY <1>1, <1>4, StepShape
<1>5. CASE Kept /\ Typed /\ UNCHANGED <<request, password, ended, overtaken, unsettled>>
  <2>1. Len(token) \in Nat /\ \A t \in 1..Len(token) : token[t] \in Row
    BY RowsAre DEF TypeInv, TypeOK
  <2>2. TypeOK'
    BY <1>5 DEF TypeInv, TypeOK, Kept, Typed
  <2>3. RowsOK'
    BY <1>5, <2>1 DEF TypeInv, RowsOK, Kept, Same
  <2>4. ASSUME NEW t \in Slots PROVE LocalOK(request[t])'
    BY <1>5, <2>1 DEF TypeInv, Kept, LocalOK, Same
  <2> QED BY <1>5, <2>2, <2>3, <2>4 DEF TypeInv, Kept
<1> QED BY <1>2, <1>3, <1>4, <1>5, NextShape

LEMMA TypeInit == Init => TypeInv
<1> SUFFICES ASSUME Init PROVE TypeInv
  OBVIOUS
<1>1. token = <<>> /\ Len(token) = 0 /\ token \in Seq(Row)
  BY DEF Init
<1>2. \A s \in Slots : request[s] \in Request /\ LocalOK(request[s])
  BY <1>1, IdleOK DEF Init
<1> QED BY <1>1, <1>2 DEF Init, TypeInv, TypeOK, RowsOK

LEMMA TypeAlways == Spec => []TypeInv
BY TypeInit, TypeStep, PTL DEF Spec

\* Rows, requests and history keep their types, whatever requests overlap: in
\* particular every row belongs to a family whose first row has the same user.
THEOREM TypeCorrect == Spec => []TypeOK
<1>1. TypeInv => TypeOK
  BY DEF TypeInv
<1> QED BY <1>1, TypeAlways, PTL

-----------------------------------------------------------------------------
(***************************************************************************)
(* Families that have ended.                                               *)
(***************************************************************************)
\* A request about to insert into an ended family is one that escaped.
EndInv ==
  /\ EndedIsDead
  /\ \A s \in Slots :
       request[s].pc \in InsertLabels /\ request[s].family \in ended =>
         request[s].family \in overtaken

\* Steps that end no family.
LEMMA EndKept ==
  ASSUME TypeInv, EndInv, NEW s \in Slots, NEW q, MovesTo(s, q),
         UNCHANGED <<ended, overtaken>>
  PROVE  EndInv'
<1>1. /\ Rows = 1..Len(token) /\ Len(token) \in Nat
      /\ \A t \in 1..Len(token) : token[t] \in Row
  BY RowsAre DEF TypeInv, TypeOK
<1>2. Rows' = 1..Len(token)
  BY RowsAre DEF MovesTo, Kept, Rows
<1>3. EndedIsDead'
  BY <1>1, <1>2 DEF EndInv, EndedIsDead, MovesTo, Kept, Same
<1>4. q.pc \in InsertLabels /\ q.family \in ended => q.family \in overtaken
  <2> SUFFICES ASSUME q.pc \in InsertLabels, q.family \in ended
               PROVE  q.family \in overtaken
    OBVIOUS
  <2>1. q.family # 0
    BY DEF TypeInv
  <2>2. CASE request[s].pc \in InsertLabels /\ q.family = request[s].family
    BY <2>2 DEF EndInv
  <2>3. CASE /\ q.row \in 1..Len(token) /\ ~token[q.row].revoked
             /\ q.family = token[q.row].family
    BY <1>1, <2>3 DEF EndInv, EndedIsDead
  <2> QED BY <2>1, <2>2, <2>3 DEF MovesTo, Origin
<1>5. \A t \in Slots : request'[t] = IF t = s THEN q ELSE request[t]
  BY DEF TypeInv, TypeOK, MovesTo
<1> QED BY <1>3, <1>4, <1>5 DEF EndInv

\* A statement that ends families revokes all their rows.
LEMMA EndClosing ==
  ASSUME TypeInv, EndInv, NEW s \in Slots, request[s].pc \notin InsertLabels,
         NEW which, NEW gone, Revoke(gone), EndFamilies(which), End(s),
         \A t \in 1..Len(token) : token[t].family \in which => t \in gone
  PROVE  EndInv'
<1>1. /\ Rows = 1..Len(token) /\ Len(token) \in Nat /\ token \in Seq(Row)
  BY RowsAre DEF TypeInv, TypeOK
<1>2. /\ Kept
      /\ \A t \in 1..Len(token) : token'[t].revoked = (token[t].revoked \/ t \in gone)
  BY <1>1, Revoked
<1>3. Rows' = 1..Len(token)
  BY <1>2, RowsAre DEF Kept, Rows
<1>4. \A f : f \in ended' \ overtaken' => f \in which \/ f \in ended \ overtaken
  BY DEF EndFamilies
<1>5. \A t \in 1..Len(token) : token'[t].family = token[t].family
  BY <1>2 DEF Kept, Same
<1>6. EndedIsDead'
  BY <1>1, <1>2, <1>3, <1>4, <1>5 DEF EndInv, EndedIsDead
<1>7. ASSUME NEW t \in Slots, request'[t].pc \in InsertLabels, request'[t].family \in ended'
      PROVE  request'[t].family \in overtaken'
  <2>1. t # s /\ request'[t] = request[t]
    BY <1>7, IdleOK DEF End, TypeInv, TypeOK, Idle, InsertLabels
  <2>2. Inserting(t)
    BY <1>7, <2>1 DEF Inserting, InsertLabels
  <2>3. CASE request[t].family \in which
    BY <2>1, <2>2, <2>3 DEF EndFamilies
  <2>4. CASE request[t].family \notin which
    BY <1>7, <2>1, <2>4 DEF EndFamilies, EndInv
  <2> QED BY <2>3, <2>4
<1> QED BY <1>6, <1>7 DEF EndInv

\* The row inserted belongs to a new family or to one that had escaped.
LEMMA EndIssue ==
  ASSUME TypeInv, EndInv, NEW s \in Slots, Issue(s)
  PROVE  EndInv'
<1>1. PICK n : n = Len(token) + 1
  OBVIOUS
<1>2. /\ request[s].pc = "issue" /\ Len(token) \in Nat /\ Len(token') = n
      /\ \A t \in 1..Len(token) : token'[t] = token[t]
      /\ token' \in Seq(Row)
      /\ token'[n].family = IF request[s].family = 0 THEN n ELSE request[s].family
      /\ request' = [request EXCEPT ![s] = Idle]
      /\ UNCHANGED <<ended, overtaken>>
  BY <1>1, IssueShape
<1>3. Rows = 1..Len(token) /\ Rows' = 1..n
  BY <1>2, RowsAre DEF TypeInv, TypeOK, Rows
<1>4. n \notin ended
  BY <1>1, <1>2 DEF TypeInv
<1>5. ASSUME NEW t \in 1..n, token'[t].family \in ended' \ overtaken'
      PROVE  token'[t].revoked
  <2>1. CASE t = n
    BY <1>2, <1>4, <1>5, <2>1 DEF EndInv, InsertLabels
  <2>2. CASE t \in 1..Len(token)
    BY <1>2, <1>3, <1>5, <2>2 DEF EndInv, EndedIsDead
  <2> QED BY <1>1, <1>2, <2>1, <2>2
<1>6. \A t \in Slots : request'[t] = IF t = s THEN Idle ELSE request[t]
  BY <1>2 DEF TypeInv, TypeOK
<1>7. Idle.pc \notin InsertLabels
  BY DEF Idle, InsertLabels
<1> QED BY <1>2, <1>3, <1>5, <1>6, <1>7 DEF EndInv, EndedIsDead

LEMMA EndStep ==
  ASSUME TypeInv, EndInv, [Next]_vars
  PROVE  EndInv'
<1>1. /\ Rows = 1..Len(token) /\ Len(token) \in Nat /\ token \in Seq(Row)
  BY RowsAre DEF TypeInv, TypeOK
<1>2. CASE \E s \in Slots : Issue(s)
  BY <1>2, EndIssue
<1>3. CASE \E s \in Slots : Arrive(s)
  BY <1>3, ArriveShape, EndKept DEF history
<1>4. ASSUME NEW s \in Slots, (Step(s) /\ ~Issue(s)) \/ Fail(s) PROVE EndInv'
  <2>1. CASE Close(s)
    <3>1. /\ Revoke({t \in Rows : token[t].family = request[s].family})
          /\ EndFamilies({request[s].family}) /\ End(s)
      BY <2>1 DEF Close
    <3>2. request[s].pc \notin InsertLabels
      BY <2>1 DEF Close, At, InsertLabels
    <3> QED BY <1>1, <3>1, <3>2, EndClosing
  <2>2. CASE RevokeAll(s)
    <3>1. /\ Revoke({t \in Rows : token[t].user = request[s].user})
          /\ EndFamilies(Families(request[s].user)) /\ End(s)
      BY <2>2 DEF RevokeAll
    <3>2. request[s].pc \notin InsertLabels
      BY <2>2 DEF RevokeAll, At, InsertLabels
    <3>3. \A t \in 1..Len(token) : token[t].family \in Families(request[s].user) =>
            token[t].user = request[s].user
      BY <1>1 DEF Families, TypeInv, RowsOK
    <3> QED BY <1>1, <3>1, <3>2, <3>3, EndClosing
  <2>3. CASE ~Close(s) /\ ~RevokeAll(s)
    <3>1. UNCHANGED <<ended, overtaken>>
      BY <1>4, <2>3 DEF Step, Fail, Throw, Rotate, WritePassword, Spend, RevokeVerify,
                        Activate, history
    <3> QED BY <1>4, <3>1, StepShape, EndKept
  <2> QED BY <2>1, <2>2, <2>3
<1>5. CASE Kept /\ Typed /\ UNCHANGED <<request, password, ended, overtaken, unsettled>>
  <2>1. Rows' = 1..Len(token)
    BY <1>5, RowsAre DEF Kept, Rows
  <2> QED BY <1>1, <1>5, <2>1 DEF EndInv, EndedIsDead, Kept, Same
<1> QED BY <1>2, <1>3, <1>4, <1>5, NextShape

LEMMA EndAlways == Spec => []EndInv
<1>1. Init => EndInv
  BY DEF Init, EndInv, EndedIsDead
<1> QED BY <1>1, EndStep, TypeAlways, PTL DEF Spec

\* Logout, reuse of a revoked token, and a new password end families for good,
\* but for the refreshes that were under way at that moment.
THEOREM Ended == Spec => []EndedIsDead
<1>1. EndInv => EndedIsDead
  BY DEF EndInv
<1> QED BY <1>1, EndAlways, PTL

\* And without exception when requests do not overlap, even if they die: then
\* what the documentation says of logout and reuse holds.
THEOREM EndedOneAtATime ==
  ASSUME NEW only, Slots = {only}
  PROVE  Spec => []LoggedOutStaysOut
<1>1. Init => overtaken = {}
  BY DEF Init
<1>2. TypeInv /\ overtaken = {} /\ [Next]_vars => (overtaken = {})'
  <2> SUFFICES ASSUME TypeInv, overtaken = {}, [Next]_vars PROVE overtaken' = {}
    OBVIOUS
  <2>1. ASSUME NEW s \in Slots, NEW which, ~Inserting(s), EndFamilies(which)
        PROVE  overtaken' = {}
    BY <2>1 DEF EndFamilies
  <2>2. ASSUME NEW s \in Slots, (Step(s) /\ ~Issue(s)) \/ Fail(s) PROVE overtaken' = {}
    <3>1. CASE Close(s)
      BY <2>1, <3>1 DEF Close, At, Inserting
    <3>2. CASE RevokeAll(s)
      BY <2>1, <3>2 DEF RevokeAll, At, Inserting
    <3>3. CASE ~Close(s) /\ ~RevokeAll(s)
      BY <2>2, <3>3 DEF Step, Fail, Throw, Rotate, WritePassword, Spend, RevokeVerify,
                        Activate, history
    <3> QED BY <3>1, <3>2, <3>3
  <2>3. ASSUME NEW s \in Slots, Issue(s) \/ Arrive(s) PROVE overtaken' = {}
    BY <2>3, IssueShape, ArriveShape DEF history
  <2> QED BY <2>2, <2>3, NextShape
<1>3. EndInv /\ overtaken = {} => LoggedOutStaysOut
  BY DEF EndInv, EndedIsDead, LoggedOutStaysOut
<1> QED BY <1>1, <1>2, <1>3, TypeAlways, EndAlways, PTL DEF Spec

-----------------------------------------------------------------------------
(***************************************************************************)
(* Rotation.  Who is going to insert a successor of a token holds it; as   *)
(* long as it is valid it has no successor, and then it gets no new holder.*)
(***************************************************************************)
Holders(t) == {s \in Slots : request[s].pc \in {"rotate", "issue"} /\ request[s].row = t}

SuccessorInv ==
  /\ \A t \in 1..Len(token) :
       /\ Cardinality(Successors(t)) + Cardinality(Holders(t)) <= Cardinality(Slots)
       /\ ~token[t].revoked => Successors(t) = {}
  /\ \A s \in Slots :
       request[s].pc = "issue" /\ request[s].row # 0 => token[request[s].row].revoked

LEMMA Finite ==
  ASSUME TypeInv, NEW t
  PROVE  /\ IsFiniteSet(Successors(t)) /\ Cardinality(Successors(t)) \in Nat
         /\ IsFiniteSet(Holders(t)) /\ Cardinality(Holders(t)) \in Nat
         /\ Cardinality(Holders(t)) <= Cardinality(Slots)
         /\ Cardinality(Slots) \in Nat
<1>1. Rows = 1..Len(token) /\ Len(token) \in Nat
  BY RowsAre DEF TypeInv, TypeOK
<1>2. IsFiniteSet(1..Len(token))
  BY <1>1, FS_Interval
<1>3. Successors(t) \in SUBSET (1..Len(token)) /\ Holders(t) \in SUBSET Slots
  BY <1>1 DEF Successors, Holders
<1>4. IsFiniteSet(Slots)
  BY SetsAssumption
<1> QED BY <1>2, <1>3, <1>4, FS_Subset, FS_CardinalityType

LEMMA SuccessorKept ==
  ASSUME TypeInv, TypeInv', SuccessorInv, NEW s \in Slots, NEW q, MovesTo(s, q)
  PROVE  SuccessorInv'
<1>1. /\ Rows = 1..Len(token) /\ Len(token) \in Nat
  BY RowsAre DEF TypeInv, TypeOK
<1>2. /\ Len(token') = Len(token) /\ Rows' = 1..Len(token)
      /\ \A t \in 1..Len(token) : Same(token[t], token'[t])
  BY RowsAre DEF MovesTo, Kept, Rows
<1>3. \A r \in Slots : request'[r] = IF r = s THEN q ELSE request[r]
  BY DEF MovesTo, TypeInv, TypeOK
<1>4. ASSUME NEW t \in 1..Len(token)
      PROVE  /\ (Cardinality(Successors(t)) + Cardinality(Holders(t)) <= Cardinality(Slots))'
             /\ ~token'[t].revoked => Successors(t)' = {}
  <2>1. Successors(t)' = Successors(t)
    BY <1>1, <1>2 DEF Successors, Same
  <2>2. token[t].revoked => token'[t].revoked
    BY <1>2 DEF Same
  <2>3. ~token[t].revoked => Successors(t) = {}
    BY DEF SuccessorInv
  <2>4. Cardinality(Successors(t)) + Cardinality(Holders(t)) <= Cardinality(Slots)
    BY DEF SuccessorInv
  <2>a. Holders(t)' \in SUBSET Slots
    BY DEF Holders
  <2>b. /\ Cardinality(Holders(t)') \in Nat
        /\ Cardinality(Holders(t)') <= Cardinality(Slots)
        /\ Cardinality(Slots) \in Nat
    BY <2>a, SetsAssumption, FS_Subset, FS_CardinalityType
  <2>5. CASE Successors(t) = {}
    <3>1. Cardinality(Successors(t)') = 0
      BY <2>1, <2>5, FS_EmptySet
    <3> QED BY <2>1, <2>5, <2>b, <3>1
  <2>6. CASE Successors(t) # {}
    <3>1. token[t].revoked /\ t # 0
      BY <2>3, <2>6
    <3>2. q.pc \in {"rotate", "issue"} /\ q.row = t =>
            request[s].pc \in {"rotate", "issue"} /\ request[s].row = t
      BY <3>1 DEF MovesTo, Origin, InsertLabels, TypeInv, LocalOK
    <3>3. Holders(t)' \in SUBSET Holders(t)
      BY <1>3, <3>2 DEF Holders
    <3>4. Cardinality(Holders(t)') <= Cardinality(Holders(t))
      BY <3>3, Finite, FS_Subset
    <3>5. /\ Cardinality(Successors(t)) \in Nat /\ Cardinality(Holders(t)) \in Nat
          /\ Cardinality(Slots) \in Nat /\ Cardinality(Holders(t)') \in Nat
      BY <2>b, Finite
    <3> QED BY <2>1, <2>2, <2>3, <2>4, <3>4, <3>5
  <2> QED BY <2>1, <2>2, <2>3, <2>5, <2>6
<1>5. ASSUME NEW r \in Slots, request'[r].pc = "issue", request'[r].row # 0
      PROVE  token'[request'[r].row].revoked
  <2>1. CASE r = s
    BY <1>3, <1>5, <2>1 DEF MovesTo
  <2>2. CASE r # s
    <3>1. /\ request'[r] = request[r] /\ request[r].row \in 1..Len(token)
          /\ token[request[r].row].revoked
      BY <1>1, <1>3, <1>5, <2>2 DEF SuccessorInv, TypeInv, LocalOK
    <3> QED BY <1>2, <3>1 DEF Same
  <2> QED BY <2>1, <2>2
<1> QED BY <1>2, <1>4, <1>5 DEF SuccessorInv

\* The insert turns a holder of the token into a successor.
LEMMA SuccessorIssue ==
  ASSUME TypeInv, TypeInv', SuccessorInv, NEW s \in Slots, Issue(s)
  PROVE  SuccessorInv'
<1>1. PICK n : n = Len(token) + 1
  OBVIOUS
<1>2. /\ request[s].pc = "issue" /\ Len(token) \in Nat /\ Len(token') = n
      /\ \A t \in 1..Len(token) : token'[t] = token[t]
      /\ token' \in Seq(Row)
      /\ token'[n].parent = request[s].row
      /\ request' = [request EXCEPT ![s] = Idle]
  BY <1>1, IssueShape
<1>3. Rows = 1..Len(token) /\ Rows' = 1..n
  BY <1>2, RowsAre DEF TypeInv, TypeOK, Rows
<1>4. \A r \in Slots : request'[r] = IF r = s THEN Idle ELSE request[r]
  BY <1>2 DEF TypeInv, TypeOK
<1>5. Idle.pc = "idle"
  BY DEF Idle
<1>6. \A t : Holders(t)' = Holders(t) \ {s}
  BY <1>4, <1>5 DEF Holders
<1>7. ASSUME NEW t \in 1..n
      PROVE  /\ (Cardinality(Successors(t)) + Cardinality(Holders(t)) <= Cardinality(Slots))'
             /\ ~token'[t].revoked => Successors(t)' = {}
  <2>1. CASE t = n
    <3>1. /\ \A c \in 1..Len(token) : token'[c].parent # n
          /\ token'[n].parent # n
      BY <1>1, <1>2 DEF TypeInv, RowsOK, LocalOK
    <3>2. Successors(t)' = {}
      BY <1>1, <1>2, <1>3, <2>1, <3>1 DEF Successors
    <3>3. Cardinality(Successors(t)') = 0
      BY <3>2, FS_EmptySet
    <3>4. (Cardinality(Holders(t)) <= Cardinality(Slots) /\ Cardinality(Holders(t)) \in Nat)'
      BY Finite, PTL
    <3> QED BY <3>2, <3>3, <3>4, Finite
  <2>2. CASE t \in 1..Len(token) /\ request[s].row # t
    <3>1. Successors(t)' = Successors(t)
      BY <1>1, <1>2, <1>3, <2>2 DEF Successors
    <3>2. s \notin Holders(t)
      BY <2>2 DEF Holders
    <3>3. Holders(t)' = Holders(t)
      BY <1>6, <3>2
    <3> QED BY <1>2, <2>2, <3>1, <3>3 DEF SuccessorInv
  <2>3. CASE t \in 1..Len(token) /\ request[s].row = t
    <3>1. Successors(t)' = Successors(t) \cup {n} /\ n \notin Successors(t)
      BY <1>1, <1>2, <1>3, <2>3 DEF Successors
    <3>2. s \in Holders(t)
      BY <1>2, <2>3 DEF Holders
    <3>3. Cardinality(Successors(t)') = Cardinality(Successors(t)) + 1
      BY <3>1, Finite, FS_AddElement
    <3>4. Cardinality(Holders(t)') = Cardinality(Holders(t)) - 1
      BY <1>6, <3>2, Finite, FS_RemoveElement
    <3>5. Cardinality(Successors(t)) + Cardinality(Holders(t)) <= Cardinality(Slots)
      BY <2>3 DEF SuccessorInv
    <3>6. /\ Cardinality(Successors(t)) \in Nat /\ Cardinality(Holders(t)) \in Nat
          /\ Cardinality(Slots) \in Nat
      BY Finite
    <3>7. token'[t].revoked
      BY <1>2, <2>3 DEF SuccessorInv
    <3> QED BY <3>3, <3>4, <3>5, <3>6, <3>7
  <2> QED BY <1>1, <1>2, <2>1, <2>2, <2>3
<1>8. ASSUME NEW r \in Slots, request'[r].pc = "issue", request'[r].row # 0
      PROVE  token'[request'[r].row].revoked
  <2>1. request'[r] = request[r]
    BY <1>4, <1>5, <1>8
  <2>2. request[r].row \in 1..Len(token) /\ token[request[r].row].revoked
    BY <1>2, <1>8, <2>1 DEF SuccessorInv, TypeInv, LocalOK
  <2> QED BY <1>2, <2>1, <2>2
<1> QED BY <1>2, <1>7, <1>8 DEF SuccessorInv

LEMMA SuccessorStep ==
  ASSUME TypeInv, TypeInv', SuccessorInv, [Next]_vars
  PROVE  SuccessorInv'
<1>1. /\ Rows = 1..Len(token) /\ Len(token) \in Nat
  BY RowsAre DEF TypeInv, TypeOK
<1>2. CASE \E s \in Slots : Issue(s)
  BY <1>2, SuccessorIssue
<1>3. CASE \E s \in Slots : Arrive(s)
  BY <1>3, ArriveShape, SuccessorKept
<1>4. CASE \E s \in Slots : (Step(s) /\ ~Issue(s)) \/ Fail(s)
  BY <1>4, StepShape, SuccessorKept
<1>5. CASE Kept /\ Typed /\ UNCHANGED <<request, password, ended, overtaken, unsettled>>
  <2>1. /\ Len(token') = Len(token) /\ Rows' = 1..Len(token)
        /\ \A t \in 1..Len(token) : Same(token[t], token'[t])
    BY <1>5, RowsAre DEF Kept, Rows
  <2>2. \A t : Successors(t)' = Successors(t) /\ Holders(t)' = Holders(t)
    BY <1>1, <1>5, <2>1 DEF Successors, Holders, Same
  <2>3. ASSUME NEW r \in Slots, request[r].pc = "issue", request[r].row # 0
        PROVE  token'[request[r].row].revoked
    <3>1. request[r].row \in 1..Len(token) /\ token[request[r].row].revoked
      BY <1>1, <2>3 DEF SuccessorInv, TypeInv, LocalOK
    <3> QED BY <2>1, <3>1 DEF Same
  <2>4. \A t \in 1..Len(token) : token[t].revoked => token'[t].revoked
    BY <2>1 DEF Same
  <2> QED BY <1>5, <2>1, <2>2, <2>3, <2>4 DEF SuccessorInv
<1> QED BY <1>2, <1>3, <1>4, <1>5, NextShape

\* A token is rotated at most once by each request that can be in flight at
\* the same time, however often it is sent, and whoever dies in between.
THEOREM Rotation == Spec => []FewSuccessors
<1>1. Init => SuccessorInv
  BY DEF Init, SuccessorInv, Idle
<1>2. TypeInv /\ SuccessorInv => FewSuccessors
  <2> SUFFICES ASSUME TypeInv, SuccessorInv, NEW t \in Rows
               PROVE  Cardinality(Successors(t)) <= Cardinality(Slots)
    BY DEF FewSuccessors
  <2>1. t \in 1..Len(token)
    BY RowsAre DEF TypeInv, TypeOK
  <2>2. Cardinality(Successors(t)) + Cardinality(Holders(t)) <= Cardinality(Slots)
    BY <2>1 DEF SuccessorInv
  <2> QED BY <2>2, Finite
<1> QED BY <1>1, <1>2, SuccessorStep, TypeAlways, PTL DEF Spec

-----------------------------------------------------------------------------
(***************************************************************************)
(* Passwords.                                                              *)
(***************************************************************************)
Excused(u) == u \in unsettled \/ \E s \in Slots : Settling(s) /\ request[s].user = u

\* As ValidUnderPassword, also for the rows that requests have yet to insert.
PasswordInv ==
  /\ \A t \in 1..Len(token) :
       ~token[t].revoked /\ token[t].opened # password[token[t].user] =>
         Excused(token[t].user)
  /\ \A s \in Slots :
       /\ request[s].pc \in InsertLabels
       /\ request[s].opened # password[request[s].user]
       => Excused(request[s].user)

\* A step that writes no password and takes no excuse away.
LEMMA PasswordKept ==
  ASSUME TypeInv, PasswordInv, NEW s \in Slots, NEW q, MovesTo(s, q), UNCHANGED password,
         \A u \in Users : Excused(u) => Excused(u)'
  PROVE  PasswordInv'
<1>1. Len(token) \in Nat /\ \A t \in 1..Len(token) : token[t] \in Row
  BY RowsAre DEF TypeInv, TypeOK
<1>2. \A t \in 1..Len(token) : token[t].user \in Users
  BY <1>1 DEF Row
<1>3. ASSUME NEW t \in 1..Len(token), ~token'[t].revoked,
             token'[t].opened # password'[token'[t].user]
      PROVE  Excused(token[t].user)'
  <2>1. ~token[t].revoked /\ token[t].opened # password[token[t].user]
        /\ token'[t].user = token[t].user
    BY <1>3 DEF MovesTo, Kept, Same
  <2>2. Excused(token[t].user)
    BY <2>1 DEF PasswordInv
  <2>3. PICK u \in Users : u = token[t].user
    BY <1>2
  <2>4. Excused(u)'
    BY <2>2, <2>3
  <2> QED BY <2>1, <2>3, <2>4 DEF Excused
<1>4. ASSUME q.pc \in InsertLabels, q.opened # password[q.user]
      PROVE  q.user \in Users /\ Excused(q.user)
  <2>1. q.user \in Users
    BY <1>4 DEF MovesTo, LocalOK, InsertLabels
  <2>2. CASE /\ request[s].pc \in InsertLabels /\ q.user = request[s].user
             /\ q.opened = request[s].opened
    BY <1>4, <2>1, <2>2 DEF PasswordInv
  <2>3. CASE /\ q.row \in 1..Len(token) /\ ~token[q.row].revoked
             /\ q.user = token[q.row].user /\ q.opened = token[q.row].opened
    BY <1>4, <2>1, <2>3 DEF PasswordInv
  <2> QED BY <1>4, <2>1, <2>2, <2>3 DEF MovesTo, Origin
<1>5. ASSUME NEW r \in Slots, request'[r].pc \in InsertLabels,
             request'[r].opened # password'[request'[r].user]
      PROVE  Excused(request[r].user)'
  <2>1. request'[r] = IF r = s THEN q ELSE request[r]
    BY DEF MovesTo, TypeInv, TypeOK
  <2>2. PICK u : u = request'[r].user
    OBVIOUS
  <2>3. u \in Users /\ Excused(u)
    BY <1>4, <1>5, <2>1, <2>2 DEF PasswordInv, TypeInv, LocalOK, InsertLabels
  <2>4. Excused(u)'
    BY <2>3
  <2> QED BY <2>2, <2>4 DEF Excused
<1> QED BY <1>3, <1>5 DEF PasswordInv, MovesTo, Kept

\* Which requests excuse their user: Settling, of the request's record.
Settles(r) == \/ r.pc = "revokeAll"
              \/ r.pc = "spend" /\ r.kind = "RESET"

LEMMA ExcuseKept ==
  ASSUME TypeInv, NEW s \in Slots, NEW q, request' = [request EXCEPT ![s] = q],
         unsettled \subseteq unsettled',
         Settles(request[s]) =>
           \/ request[s].user \in unsettled'
           \/ Settles(q) /\ q.user = request[s].user
  PROVE  \A u \in Users : Excused(u) => Excused(u)'
<1>1. \A r \in Slots : request'[r] = IF r = s THEN q ELSE request[r]
  BY DEF TypeInv, TypeOK
<1> SUFFICES ASSUME NEW u \in Users, Excused(u) PROVE Excused(u)'
  OBVIOUS
<1>2. CASE u \in unsettled
  BY <1>2 DEF Excused
<1>3. ASSUME NEW r \in Slots, Settling(r), request[r].user = u PROVE Excused(u)'
  <2>1. CASE r # s
    BY <1>1, <1>3, <2>1 DEF Excused, Settling, At
  <2>2. CASE r = s
    <3>1. Settles(request[s])
      BY <1>3, <2>2 DEF Settles, Settling, At
    <3>2. CASE request[s].user \in unsettled'
      BY <1>3, <2>2, <3>2 DEF Excused
    <3>3. CASE Settles(q) /\ q.user = request[s].user
      BY <1>1, <1>3, <2>2, <3>3 DEF Excused, Settles, Settling, At
    <3> QED BY <3>1, <3>2, <3>3
  <2> QED BY <2>1, <2>2
<1> QED BY <1>2, <1>3 DEF Excused

\* The new password makes what the user has obsolete, and the request is bound
\* to revoke it.
LEMMA PasswordWrite ==
  ASSUME TypeInv, PasswordInv, NEW s \in Slots, WritePassword(s)
  PROVE  PasswordInv'
<1>1. /\ request[s].pc = "write" /\ UNCHANGED <<token, unsettled>>
      /\ password' = [password EXCEPT ![request[s].user] = request[s].new]
      /\ Goto(s, IF request[s].kind = "RESET" THEN "spend" ELSE "revokeAll")
  BY DEF WritePassword, At, history
<1>2. PICK q : q = [request[s] EXCEPT !.pc =
                      IF request[s].kind = "RESET" THEN "spend" ELSE "revokeAll"]
  OBVIOUS
<1>3. request[s] \in Request
  BY DEF TypeInv, TypeOK
<1>4. /\ request' = [request EXCEPT ![s] = q]
      /\ Settles(q) /\ q.user = request[s].user /\ q.pc \notin InsertLabels
  BY <1>1, <1>2, <1>3 DEF Goto, Request, Settles, InsertLabels
<1>5. \A r \in Slots : request'[r] = IF r = s THEN q ELSE request[r]
  BY <1>4 DEF TypeInv, TypeOK
<1>6. \A u \in Users : Excused(u) => Excused(u)'
  BY <1>1, <1>4, ExcuseKept DEF Settles
<1>7. Excused(q.user)'
  BY <1>4, <1>5 DEF Excused, Settles, Settling, At
<1>8. \A u \in Users : u # q.user => password'[u] = password[u]
  BY <1>1, <1>4 DEF TypeInv, TypeOK
<1>9. Len(token) \in Nat /\ \A t \in 1..Len(token) : token[t].user \in Users
  BY RowsAre DEF TypeInv, TypeOK, Row
<1>10. ASSUME NEW t \in 1..Len(token), ~token[t].revoked,
              token[t].opened # password'[token[t].user]
       PROVE  Excused(token[t].user)'
  <2>1. PICK u \in Users : u = token[t].user
    BY <1>9
  <2>2. u = q.user \/ Excused(u)
    BY <1>8, <1>10, <2>1 DEF PasswordInv
  <2>3. Excused(u)'
    BY <1>6, <1>7, <2>2
  <2> QED BY <1>1, <2>1, <2>3 DEF Excused
<1>11. ASSUME NEW r \in Slots, request'[r].pc \in InsertLabels,
              request'[r].opened # password'[request'[r].user]
       PROVE  Excused(request[r].user)'
  <2>1. request'[r] = request[r]
    BY <1>4, <1>5, <1>11
  <2>2. PICK u \in Users : u = request[r].user
    BY <1>11, <2>1 DEF TypeInv, LocalOK, InsertLabels
  <2>3. u = q.user \/ Excused(u)
    BY <1>8, <1>11, <2>1, <2>2 DEF PasswordInv
  <2>4. Excused(u)'
    BY <1>6, <1>7, <2>3
  <2> QED BY <2>1, <2>2, <2>4 DEF Excused
<1> QED BY <1>1, <1>10, <1>11 DEF PasswordInv

\* All rows are revoked; what is about to be inserted leaves the user unsettled.
LEMMA PasswordRevoke ==
  ASSUME TypeInv, PasswordInv, NEW s \in Slots, RevokeAll(s)
  PROVE  PasswordInv'
<1>1. PICK u : u = request[s].user
  OBVIOUS
<1>2. /\ request[s].pc = "revokeAll" /\ UNCHANGED password /\ End(s)
      /\ Revoke({t \in Rows : token[t].user = u})
      /\ unsettled' = IF \E r \in Slots : Inserting(r) /\ request[r].user = u
                        THEN unsettled \cup {u} ELSE unsettled \ {u}
  BY <1>1 DEF RevokeAll, At
<1>3. /\ Rows = 1..Len(token) /\ Len(token) \in Nat /\ token \in Seq(Row)
      /\ \A t \in 1..Len(token) : token[t] \in Row
  BY RowsAre DEF TypeInv, TypeOK
<1>4. /\ Kept
      /\ \A t \in 1..Len(token) :
           token'[t].revoked = (token[t].revoked \/ t \in {r \in Rows : token[r].user = u})
  BY <1>2, <1>3, Revoked
<1>5. \A r \in Slots : request'[r] = IF r = s THEN Idle ELSE request[r]
  BY <1>2 DEF End, TypeInv, TypeOK
<1>6. Idle.pc = "idle"
  BY DEF Idle
<1>7. ASSUME NEW v \in Users, v # u, Excused(v) PROVE Excused(v)'
  <2>1. CASE v \in unsettled
    BY <1>2, <1>7, <2>1 DEF Excused
  <2>2. ASSUME NEW r \in Slots, Settling(r), request[r].user = v PROVE Excused(v)'
    BY <1>1, <1>5, <1>7, <2>2 DEF Excused, Settling, At
  <2> QED BY <1>7, <2>1, <2>2 DEF Excused
<1>8. ASSUME NEW t \in 1..Len(token), ~token'[t].revoked,
             token'[t].opened # password'[token'[t].user]
      PROVE  Excused(token[t].user)'
  <2>1. PICK v \in Users : v = token[t].user
    BY <1>3 DEF Row
  <2>2. /\ ~token[t].revoked /\ v # u /\ token'[t].user = v
        /\ token[t].opened # password[v]
    BY <1>2, <1>3, <1>4, <1>8, <2>1 DEF Kept, Same
  <2>3. Excused(v)'
    BY <1>7, <2>1, <2>2 DEF PasswordInv
  <2> QED BY <2>2, <2>3 DEF Excused
<1>9. ASSUME NEW r \in Slots, request'[r].pc \in InsertLabels,
             request'[r].opened # password'[request'[r].user]
      PROVE  Excused(request[r].user)'
  <2>1. request'[r] = request[r]
    BY <1>5, <1>6, <1>9 DEF InsertLabels
  <2>2. PICK v \in Users : v = request[r].user
    BY <1>9, <2>1 DEF TypeInv, LocalOK, InsertLabels
  <2>3. CASE v = u
    <3>1. Inserting(r)
      BY <1>9, <2>1 DEF Inserting, InsertLabels
    <3>2. v \in unsettled'
      BY <1>2, <2>2, <2>3, <3>1
    <3> QED BY <2>1, <2>2, <3>2 DEF Excused
  <2>4. CASE v # u
    <3>1. Excused(v)'
      BY <1>2, <1>7, <1>9, <2>1, <2>2, <2>4 DEF PasswordInv
    <3> QED BY <2>1, <2>2, <3>1 DEF Excused
  <2> QED BY <2>3, <2>4
<1> QED BY <1>4, <1>8, <1>9 DEF PasswordInv, Kept

LEMMA PasswordIssue ==
  ASSUME TypeInv, PasswordInv, NEW s \in Slots, Issue(s)
  PROVE  PasswordInv'
<1>1. PICK n : n = Len(token) + 1
  OBVIOUS
<1>2. /\ request[s].pc = "issue" /\ Len(token) \in Nat /\ Len(token') = n
      /\ \A t \in 1..Len(token) : token'[t] = token[t]
      /\ token'[n].user = request[s].user /\ token'[n].opened = request[s].opened
      /\ request' = [request EXCEPT ![s] = Idle]
      /\ UNCHANGED <<password, unsettled>>
  BY <1>1, IssueShape
<1>3. \A r \in Slots : request'[r] = IF r = s THEN Idle ELSE request[r]
  BY <1>2 DEF TypeInv, TypeOK
<1>4. Idle.pc = "idle"
  BY DEF Idle
<1>5. \A u \in Users : Excused(u) => Excused(u)'
  BY <1>2, ExcuseKept DEF Settles
<1>6. \A t \in 1..Len(token) : token[t].user \in Users
  BY <1>2, RowsAre DEF TypeInv, TypeOK, Row
<1>7. request[s].user \in Users
  BY <1>2 DEF TypeInv, LocalOK
<1>8. ASSUME NEW t \in 1..n, ~token'[t].revoked,
             token'[t].opened # password'[token'[t].user]
      PROVE  Excused(token[t].user)'
  <2>1. PICK u : u = token'[t].user
    OBVIOUS
  <2>2. CASE t = n
    BY <1>2, <1>5, <1>7, <1>8, <2>1, <2>2 DEF PasswordInv, InsertLabels, Excused
  <2>3. CASE t \in 1..Len(token)
    <3>1. u \in Users /\ Excused(u)
      BY <1>2, <1>6, <1>8, <2>1, <2>3 DEF PasswordInv
    <3>2. Excused(u)'
      BY <1>5, <3>1
    <3> QED BY <2>1, <3>2 DEF Excused
  <2> QED BY <1>1, <1>2, <2>2, <2>3
<1>9. ASSUME NEW r \in Slots, request'[r].pc \in InsertLabels,
             request'[r].opened # password'[request'[r].user]
      PROVE  Excused(request[r].user)'
  <2>1. request'[r] = request[r]
    BY <1>3, <1>4, <1>9 DEF InsertLabels
  <2>2. PICK u \in Users : u = request[r].user
    BY <1>9, <2>1 DEF TypeInv, LocalOK, InsertLabels
  <2>3. Excused(u)'
    BY <1>2, <1>5, <1>9, <2>1, <2>2 DEF PasswordInv
  <2> QED BY <2>1, <2>2, <2>3 DEF Excused
<1> QED BY <1>2, <1>8, <1>9 DEF PasswordInv

LEMMA PasswordStep ==
  ASSUME TypeInv, PasswordInv, [Next]_vars
  PROVE  PasswordInv'
<1>1. CASE \E s \in Slots : Issue(s)
  BY <1>1, PasswordIssue
<1>2. ASSUME NEW s \in Slots, Arrive(s) PROVE PasswordInv'
  <2>1. PICK q : MovesTo(s, q)
    BY <1>2, ArriveShape
  <2>2. UNCHANGED <<password, unsettled>> /\ ~Settles(request[s])
    BY <1>2, ArriveShape DEF history, Settles, Idle
  <2>3. \A u \in Users : Excused(u) => Excused(u)'
    BY <2>1, <2>2, ExcuseKept DEF MovesTo
  <2> QED BY <2>1, <2>2, <2>3, PasswordKept
<1>3. ASSUME NEW s \in Slots, Throw(s), request[s].pc # "idle" PROVE PasswordInv'
  <2>1. MovesTo(s, Idle) /\ UNCHANGED password
    BY <1>3, ThrowShape
  <2>2. /\ unsettled \subseteq unsettled'
        /\ Settles(request[s]) => request[s].user \in unsettled'
    BY <1>3 DEF Throw, Settles, Settling, At
  <2>3. \A u \in Users : Excused(u) => Excused(u)'
    BY <2>1, <2>2, ExcuseKept DEF MovesTo
  <2> QED BY <2>1, <2>3, PasswordKept
<1>4. ASSUME NEW s \in Slots, Step(s), ~Issue(s) PROVE PasswordInv'
  <2>1. PICK q : MovesTo(s, q)
    BY <1>4, StepShape
  <2>2. CASE WritePassword(s)
    BY <2>2, PasswordWrite
  <2>3. CASE RevokeAll(s)
    BY <2>3, PasswordRevoke
  <2>4. CASE Rotate(s) \/ Close(s) \/ RevokeVerify(s) \/ Activate(s)
    <3>1. /\ ~Settles(request[s]) /\ UNCHANGED password
          /\ unsettled \subseteq unsettled'
      BY <2>4 DEF Rotate, Close, RevokeVerify, Activate, At, Settles, Throw, history
    <3>2. \A u \in Users : Excused(u) => Excused(u)'
      BY <2>1, <3>1, ExcuseKept DEF MovesTo
    <3> QED BY <2>1, <3>1, <3>2, PasswordKept
  <2>5. CASE Spend(s)
    <3>1. CASE ~Found(request[s].row)
      BY <1>3, <2>5, <3>1 DEF Spend, At
    <3>2. CASE Found(request[s].row)
      <4>1. /\ request[s].pc = "spend" /\ UNCHANGED <<password, unsettled>>
            /\ IF request[s].kind = "RESET" THEN Goto(s, "revokeAll") ELSE End(s)
        BY <2>5, <3>2 DEF Spend, At, history
      <4>2. CASE request[s].kind = "RESET"
        <5>1. request' = [request EXCEPT ![s] = [request[s] EXCEPT !.pc = "revokeAll"]]
          BY <4>1, <4>2 DEF Goto
        <5>2. request[s] \in Request
          BY DEF TypeInv, TypeOK
        <5>3. /\ Settles([request[s] EXCEPT !.pc = "revokeAll"])
              /\ [request[s] EXCEPT !.pc = "revokeAll"].user = request[s].user
          BY <5>2 DEF Settles, Request
        <5>4. \A u \in Users : Excused(u) => Excused(u)'
          BY <4>1, <5>1, <5>3, ExcuseKept
        <5> QED BY <2>1, <4>1, <5>4, PasswordKept
      <4>3. CASE request[s].kind # "RESET"
        <5>1. ~Settles(request[s])
          BY <4>1, <4>3 DEF Settles
        <5>2. \A u \in Users : Excused(u) => Excused(u)'
          BY <2>1, <4>1, <5>1, ExcuseKept DEF MovesTo
        <5> QED BY <2>1, <4>1, <5>2, PasswordKept
      <4> QED BY <4>2, <4>3
    <3> QED BY <3>1, <3>2
  <2> QED BY <1>4, <2>2, <2>3, <2>4, <2>5 DEF Step
<1>5. CASE Kept /\ Typed /\ UNCHANGED <<request, password, ended, overtaken, unsettled>>
  <2>1. \A u : Excused(u)' = Excused(u)
    BY <1>5 DEF Excused, Settling, At
  <2>2. \A t \in 1..Len(token) : Same(token[t], token'[t])
    BY <1>5 DEF Kept
  <2>3. ASSUME NEW t \in 1..Len(token), ~token'[t].revoked,
               token'[t].opened # password'[token'[t].user]
        PROVE  Excused(token[t].user)'
    <3>1. /\ token'[t].user = token[t].user /\ token'[t].opened = token[t].opened
          /\ ~token[t].revoked
      BY <2>2, <2>3 DEF Same
    <3>2. Excused(token[t].user)
      BY <1>5, <2>3, <3>1 DEF PasswordInv
    <3> QED BY <1>5, <3>1, <3>2 DEF Excused, Settling, At
  <2>4. \A r \in Slots :
          /\ request[r].pc \in InsertLabels
          /\ request[r].opened # password[request[r].user]
          => Excused(request[r].user)
    BY DEF PasswordInv
  <2>5. (\A r \in Slots :
          /\ request[r].pc \in InsertLabels
          /\ request[r].opened # password[request[r].user]
          => Excused(request[r].user))'
    BY <1>5, <2>4 DEF Excused, Settling, At
  <2> QED BY <1>5, <2>3, <2>5 DEF PasswordInv, Kept
<1> QED BY <1>1, <1>2, <1>3, <1>4, <1>5, NextShape DEF Fail, At

\* After a new password nothing obtained under another one is valid, unless
\* the handler stopped before revoking it or something was being inserted.
THEOREM PasswordsSettle == Spec => []ValidUnderPassword
<1>1. Init => PasswordInv
  BY DEF Init, PasswordInv, Idle, InsertLabels
<1>2. TypeInv /\ PasswordInv => ValidUnderPassword
  BY RowsAre DEF TypeInv, TypeOK, PasswordInv, ValidUnderPassword, Excused
<1> QED BY <1>1, <1>2, PasswordStep, TypeAlways, PTL DEF Spec
=============================================================================
