------------------------- MODULE Gamification_proofs -------------------------
(***************************************************************************)
(* Theorems about Gamification, for every number of users, thresholds and  *)
(* calls in flight.                                                        *)
(***************************************************************************)
EXTENDS Gamification, Sums_proofs, SequenceTheorems, FiniteSetTheorems, WellFoundedInduction, TLAPS

-----------------------------------------------------------------------------
(***************************************************************************)
(* calculateLevel: a set of naturals with a bound has a greatest element,  *)
(* so that Level is defined, and it grows with the total.                  *)
(***************************************************************************)
LEMMA MaxExists ==
  ASSUME NEW S \in SUBSET Nat, S # {}, NEW n \in Nat, \A x \in S : x <= n
  PROVE  Max(S) \in S /\ \A x \in S : x <= Max(S)
<1>1. PICK B : B = {b \in Nat : \A x \in S : x <= b}
  OBVIOUS
<1>2. B \subseteq Nat /\ n \in B
  BY <1>1
<1>3. PICK b \in B : \A y \in B : <<y, b>> \notin OpToRel(<, Nat)
  BY <1>2, NatLessThanWellFounded, WFMin
<1>4. b \in Nat /\ \A x \in S : x <= b
  BY <1>1
<1>5. \A y \in B : ~(y < b)
  BY <1>2, <1>3, <1>4 DEF OpToRel
<1>6. b \in S
  <2> SUFFICES ASSUME b \notin S PROVE FALSE
    OBVIOUS
  <2>1. \A x \in S : x <= b - 1
    BY <1>4
  <2>2. PICK x \in S : x \in Nat
    OBVIOUS
  <2>3. b - 1 \in Nat
    BY <1>4, <2>1, <2>2
  <2>4. b - 1 \in B
    BY <1>1, <2>1, <2>3
  <2> QED BY <1>4, <1>5, <2>4
<1> QED BY <1>4, <1>6 DEF Max

LEMMA Thresholds ==
  /\ LEVEL_THRESHOLDS \in Seq(Nat) /\ LEVEL_THRESHOLDS # <<>> /\ LEVEL_THRESHOLDS[1] = 0
  /\ DAILY_LOGIN \in Nat /\ STREAK_7_DAYS \in Nat /\ STREAK_30_DAYS \in Nat
<1>1. LEVEL_THRESHOLDS \in Seq(Nat) /\ LEVEL_THRESHOLDS # <<>> /\ LEVEL_THRESHOLDS[1] = 0
  BY GameAssumption, Zenon
<1>2. {DAILY_LOGIN, STREAK_7_DAYS, STREAK_30_DAYS} \subseteq Nat \ {0}
  BY GameAssumption, Zenon
<1> QED BY <1>1, <1>2

LEMMA NoneApart ==
  /\ None \notin XpRow /\ None \notin StreakRow /\ None \notin BoardRow
  /\ None \notin Users /\ IsFiniteSet(Users)
  /\ MaxPlay \in Nat /\ DEFAULT_FREEZE_COUNT \in Nat /\ SIGNUP_FREEZES \in Nat
<1>1. None \notin XpRow \cup StreakRow \cup BoardRow /\ IsFiniteSet(Users)
  BY GameAssumption, Zenon
<1>2. MaxPlay \in Nat /\ DEFAULT_FREEZE_COUNT \in Nat /\ SIGNUP_FREEZES \in Nat
  BY GameAssumption, Zenon
<1>3. None \notin Users
  BY CallsAssumption
<1> QED BY <1>1, <1>2, <1>3

LEMMA Rewards == \A b \in Badges : Reward[b] \in Nat
<1>1. Reward \in [{"Digital Native", "Night Owl"} -> Nat]
  BY GameAssumption, Zenon
<1> QED BY <1>1 DEF Badges

Reached(total) == {l \in DOMAIN LEVEL_THRESHOLDS : LEVEL_THRESHOLDS[l] <= total}

LEMMA LevelReached ==
  ASSUME NEW total \in Nat
  PROVE  /\ Level(total) \in Reached(total) /\ Level(total) \in Nat /\ 1 <= Level(total)
         /\ \A l \in Reached(total) : l <= Level(total)
<1>1. PICK n \in Nat : n = Len(LEVEL_THRESHOLDS) /\ DOMAIN LEVEL_THRESHOLDS = 1 .. n
  BY Thresholds
<1>2. n > 0 /\ LEVEL_THRESHOLDS[1] = 0
  BY <1>1, Thresholds, EmptySeq
<1>3. 1 \in Reached(total)
  BY <1>1, <1>2 DEF Reached
<1>4. Reached(total) \in SUBSET Nat /\ \A l \in Reached(total) : l <= n
  BY <1>1 DEF Reached
<1>5. /\ Max(Reached(total)) \in Reached(total)
      /\ \A l \in Reached(total) : l <= Max(Reached(total))
  BY <1>1, <1>3, <1>4, MaxExists
<1>6. Level(total) = Max(Reached(total))
  BY DEF Level, Reached
<1> QED BY <1>3, <1>4, <1>5, <1>6

LEMMA LevelGrows ==
  ASSUME NEW m \in Nat, NEW n \in Nat, m <= n
  PROVE  Level(m) <= Level(n)
<1>1. Level(m) \in Reached(m)
  BY LevelReached
<1>2. \A l \in DOMAIN LEVEL_THRESHOLDS : LEVEL_THRESHOLDS[l] \in Nat
  BY Thresholds, ElementOfSeq
<1>3. Level(m) \in Reached(n)
  BY <1>1, <1>2 DEF Reached
<1> QED BY <1>3, LevelReached

-----------------------------------------------------------------------------
(***************************************************************************)
(* The invariant: whatever a row, a call or the leaderboard has noted of a *)
(* user's XP, the total has reached.                                       *)
(***************************************************************************)
\* The row of `u` has the total `n` behind it, and enough for the level `l`.
Below(u, n, l) == xp[u] # None /\ n <= xp[u].total /\ l <= Level(xp[u].total)

LevelLabels == {"badgeLevel", "level"}
BadgeLabels == {"find", "earn", "badgeXp", "badgeLevel"}
CheckInLabels == {"look", "create", "find", "earn", "badgeXp", "badgeLevel", "streak", "xp", "level"}

\* A call of checkIn, as far as it has to do with XP.
IsCheckIn(c) ==
  /\ {"pc", "user", "badges", "amount", "total"} \subseteq DOMAIN c
  /\ c.pc \in CheckInLabels
  /\ c.user \in Users /\ c.badges \in Seq(Badges) /\ c.amount \in Nat /\ c.total \in Nat
  /\ c.pc \in BadgeLabels => c.badges # <<>>

\* A row of the leaderboard.
Ranks(row, u) == row = None \/ (row.total \in Nat /\ row.level \in Nat /\ Below(u, row.total, row.level))

CallOK(c) ==
  \/ c.pc \in {"idle", "freeze", "nearby"}
  \/ IsCheckIn(c) /\ (c.pc \in LevelLabels => Below(c.user, c.total, 1))
  \/ c.pc = "refresh" /\ \A u \in Users : Ranks(c.rows[u], u)

LevelInv ==
  /\ xp \in [Users -> XpRow \cup {None}]
  /\ \A u \in Users : xp[u] # None => xp[u].level <= Level(xp[u].total)
  /\ \A u \in Users : Ranks(board[u], u)
  /\ play = [s \in Slots |-> play[s]]
  /\ \A s \in Slots : CallOK(play[s])

LEMMA InvGivesLevels == LevelInv => LevelNeverAhead
<1> SUFFICES ASSUME LevelInv, NEW u \in Users
             PROVE  /\ xp[u] # None => xp[u].level <= Level(xp[u].total)
                    /\ board[u] # None => /\ xp[u] # None
                                          /\ board[u].level <= Level(xp[u].total)
                                          /\ board[u].total <= xp[u].total
  BY DEF LevelNeverAhead, Leaderboard, Profile
<1> QED BY DEF LevelInv, Ranks, Below

\* What a refresh reads, the rows have reached.
LEMMA SnapshotBelow ==
  ASSUME xp \in [Users -> XpRow \cup {None}],
         \A u \in Users : xp[u] # None => xp[u].level <= Level(xp[u].total),
         NEW rank, NEW u \in Users
  PROVE  Ranks(Snapshot(rank)[u], u)
<1>1. CASE u \notin Ranked
  BY <1>1 DEF Ranks, Snapshot
<1>2. CASE u \in Ranked
  <2>1. /\ xp[u] # None /\ xp[u].total \in Nat /\ xp[u].level \in Nat
        /\ xp[u].level <= Level(xp[u].total)
    BY <1>2 DEF Ranked, XpRow
  <2>2. PICK row : row = [rank |-> rank[u], total |-> xp[u].total, level |-> xp[u].level]
    OBVIOUS
  <2>3. Snapshot(rank)[u] = row
    BY <1>2, <2>2 DEF Snapshot
  <2>4. row.total = xp[u].total /\ row.level = xp[u].level
    BY <2>2
  <2>5. xp[u].total <= xp[u].total
    BY <2>1
  <2> QED BY <2>1, <2>3, <2>4, <2>5 DEF Ranks, Below
<1> QED BY <1>1, <1>2

LEMMA InitInv == GameInit => LevelInv
<1> SUFFICES ASSUME GameInit PROVE LevelInv
  OBVIOUS
<1>1. PICK arrival \in Arrivals :
        xp = [u \in Users |->
               CASE arrival[u] = "seed" -> None
                 [] arrival[u] = "signup" -> NewXp
                 [] arrival[u] = "veteran" -> [total |-> DAILY_LOGIN, level |-> Level(DAILY_LOGIN)]]
  BY DEF GameInit
<1>2. arrival \in [Users -> {"seed", "signup", "veteran"}]
  BY GameAssumption
<1>3. DAILY_LOGIN \in Nat /\ Level(DAILY_LOGIN) \in Nat /\ 1 <= Level(0)
  BY LevelReached, GameAssumption
<1>4. ASSUME NEW u \in Users
      PROVE  /\ xp[u] \in XpRow \cup {None}
             /\ xp[u] # None => xp[u].level <= Level(xp[u].total)
  <2>1. CASE arrival[u] = "seed"
    BY <1>1, <2>1
  <2>2. CASE arrival[u] = "signup"
    <3>1. xp[u] = [total |-> 0, level |-> 1]
      BY <1>1, <2>2 DEF NewXp
    <3> QED BY <1>3, <3>1 DEF XpRow
  <2>3. CASE arrival[u] = "veteran"
    <3>1. xp[u] = [total |-> DAILY_LOGIN, level |-> Level(DAILY_LOGIN)]
      BY <1>1, <2>3
    <3> QED BY <1>3, <3>1 DEF XpRow
  <2> QED BY <1>2, <2>1, <2>2, <2>3
<1>5. xp \in [Users -> XpRow \cup {None}]
  BY <1>1, <1>4
<1>6. Idle.pc = "idle"
  BY DEF Idle
<1>7. PICK rank \in Rankings : board = Snapshot(rank)
  BY DEF GameInit
<1>8. \A u \in Users : Ranks(board[u], u)
  BY <1>4, <1>5, <1>7, SnapshotBelow
<1> QED BY <1>4, <1>5, <1>6, <1>8 DEF GameInit, LevelInv, CallOK

-----------------------------------------------------------------------------
(* Totals only grow, and what was below them stays so.                     *)

Grows == \A u \in Users : xp[u] # None => xp'[u] # None /\ xp[u].total <= xp'[u].total

LEMMA BelowStays ==
  ASSUME LevelInv, xp' \in [Users -> XpRow \cup {None}], Grows,
         NEW u \in Users, NEW n \in Nat, NEW l \in Nat, Below(u, n, l)
  PROVE  Below(u, n, l)'
<1>1. /\ xp[u] # None /\ xp'[u] # None /\ xp[u].total \in Nat /\ xp'[u].total \in Nat
      /\ xp[u].total <= xp'[u].total
  BY DEF LevelInv, Below, Grows, XpRow
<1>2. /\ Level(xp[u].total) \in Nat /\ Level(xp'[u].total) \in Nat
      /\ Level(xp[u].total) <= Level(xp'[u].total)
  BY <1>1, LevelReached, LevelGrows
<1> QED BY <1>1, <1>2 DEF Below

\* A step that moves one call, when what it has noted is below the totals.
LEMMA CallsStay ==
  ASSUME LevelInv, xp' \in [Users -> XpRow \cup {None}], Grows,
         NEW s \in Slots, NEW q, CallOK(q)', play' = [play EXCEPT ![s] = q]
  PROVE  /\ play' = [t \in Slots |-> play'[t]]
         /\ \A t \in Slots : CallOK(play[t])'
<1>1. \A t \in Slots : play'[t] = IF t = s THEN q ELSE play[t]
  BY DEF LevelInv
<1>2. play' = [t \in Slots |-> play'[t]]
  BY DEF LevelInv
<1>3. ASSUME NEW c, CallOK(c) PROVE CallOK(c)'
  <2>1. CASE c.pc \in {"idle", "freeze", "nearby"}
    BY <2>1 DEF CallOK
  <2>2. CASE IsCheckIn(c) /\ (c.pc \in LevelLabels => Below(c.user, c.total, 1))
    <3>1. c.user \in Users /\ c.total \in Nat
      BY <2>2 DEF IsCheckIn
    <3>2. Below(c.user, c.total, 1) => Below(c.user, c.total, 1)'
      <4>1. PICK u, n : u = c.user /\ n = c.total
        OBVIOUS
      <4>2. Below(u, n, 1) => Below(u, n, 1)'
        BY <3>1, <4>1, BelowStays
      <4> QED BY <4>1, <4>2 DEF Below
    <3> QED BY <2>2, <3>2 DEF CallOK, Below
  <2>3. CASE c.pc = "refresh" /\ \A u \in Users : Ranks(c.rows[u], u)
    <3>1. ASSUME NEW u \in Users PROVE Ranks(c.rows[u], u)'
      <4>1. PICK row : row = c.rows[u] /\ Ranks(row, u)
        BY <2>3
      <4>2. PICK n, l : n = row.total /\ l = row.level
        OBVIOUS
      <4>3. row # None => n \in Nat /\ l \in Nat /\ Below(u, n, l)'
        BY <4>1, <4>2, BelowStays DEF Ranks
      <4> QED BY <4>1, <4>2, <4>3 DEF Ranks, Below
    <3> QED BY <2>3, <3>1 DEF CallOK
  <2> QED BY <1>3, <2>1, <2>2, <2>3 DEF CallOK
<1>4. ASSUME NEW t \in Slots PROVE CallOK(play[t])'
  <2>1. CASE t = s
    BY <1>1, <2>1 DEF CallOK, Ranks, Below
  <2>2. CASE t # s
    <3>1. PICK c : c = play[t] /\ CallOK(c)
      BY DEF LevelInv
    <3>2. CallOK(c)'
      BY <1>3, <3>1
    <3> QED BY <1>1, <2>2, <3>1, <3>2 DEF CallOK, Ranks, Below
  <2> QED BY <2>1, <2>2
<1> QED BY <1>2, <1>4

LEMMA BoardStays ==
  ASSUME LevelInv, xp' \in [Users -> XpRow \cup {None}], Grows, UNCHANGED board
  PROVE  \A u \in Users : Ranks(board[u], u)'
<1> SUFFICES ASSUME NEW u \in Users PROVE Ranks(board[u], u)'
  OBVIOUS
<1>1. PICK row : row = board[u] /\ Ranks(row, u)
  BY DEF LevelInv
<1>2. PICK n, l : n = row.total /\ l = row.level
  OBVIOUS
<1>3. row # None => n \in Nat /\ l \in Nat /\ Below(u, n, l)'
  BY <1>1, <1>2, BelowStays DEF Ranks
<1> QED BY <1>1, <1>2, <1>3 DEF Ranks, Below

LEMMA QuietMove ==
  ASSUME LevelInv, UNCHANGED <<xp, board>>,
         NEW s \in Slots, NEW q, CallOK(q), play' = [play EXCEPT ![s] = q]
  PROVE  LevelInv'
<1>1. xp' \in [Users -> XpRow \cup {None}] /\ Grows
  BY DEF LevelInv, Grows, XpRow
<1>2. CallOK(q)'
  BY DEF CallOK, Ranks, Below
<1> QED BY <1>1, <1>2, CallsStay, BoardStays DEF LevelInv

-----------------------------------------------------------------------------
(* What a check-in makes of its own record.                                *)

LEMMA NextBadgeOK ==
  ASSUME NEW c, IsCheckIn(c)
  PROVE  IsCheckIn(NextBadge(c)) /\ NextBadge(c).pc \notin LevelLabels
<1>1. PICK l : l = IF c.badges = <<>> THEN "streak" ELSE "find"
  OBVIOUS
<1>2. PICK q : q = [c EXCEPT !.pc = l]
  OBVIOUS
<1>3. /\ q.pc = l /\ q.user = c.user /\ q.badges = c.badges /\ q.amount = c.amount
      /\ q.total = c.total /\ DOMAIN q = DOMAIN c
  BY <1>2 DEF IsCheckIn
<1>4. IsCheckIn(q) /\ q.pc \notin LevelLabels
  BY <1>1, <1>3 DEF IsCheckIn, CheckInLabels, BadgeLabels, LevelLabels
<1>5. NextBadge(c) = q
  BY <1>1, <1>2 DEF NextBadge
<1> QED BY <1>4, <1>5

LEMMA SkipBadgeOK ==
  ASSUME NEW c, IsCheckIn(c), c.pc \in BadgeLabels
  PROVE  CallOK(SkipBadge(c))
<1>1. PICK rest : rest = Tail(c.badges)
  OBVIOUS
<1>2. rest \in Seq(Badges)
  BY <1>1, HeadTailProperties DEF IsCheckIn
<1>3. PICK q : q = [c EXCEPT !.badges = rest, !.pc = "look"]
  OBVIOUS
<1>4. IsCheckIn(q)
  BY <1>2, <1>3 DEF IsCheckIn, CheckInLabels, BadgeLabels
<1>5. PICK r : r = NextBadge(q) /\ IsCheckIn(r) /\ r.pc \notin LevelLabels
  BY <1>4, NextBadgeOK
<1>6. SkipBadge(c) = r
  BY <1>1, <1>3, <1>5 DEF SkipBadge, NextBadge, IsCheckIn
<1> QED BY <1>5, <1>6 DEF CallOK

LEMMA PlannedOK ==
  ASSUME NEW c, IsCheckIn(c), NEW row
  PROVE  CallOK(Planned(c, row))
<1>1. PICK new : new = NewStreak(row, c.day)
  OBVIOUS
<1>2. PICK amount : amount = DAILY_LOGIN + (IF new = Week THEN STREAK_7_DAYS ELSE 0)
                                         + (IF new = Month THEN STREAK_30_DAYS ELSE 0)
  OBVIOUS
<1>3. amount \in Nat
  BY <1>2, Thresholds
<1>4. PICK first, second : /\ first = IF new = Week THEN <<"Digital Native">> ELSE <<>>
                           /\ second = IF c.night THEN <<"Night Owl">> ELSE <<>>
  OBVIOUS
<1>5. "Digital Native" \in Badges /\ "Night Owl" \in Badges
  BY GameAssumption, Zenon DEF Badges
<1>6. first \in Seq(Badges) /\ second \in Seq(Badges)
  <2>1. ASSUME NEW b \in Badges PROVE <<b>> \in Seq(Badges) /\ <<>> \in Seq(Badges)
    OBVIOUS
  <2>2. first = <<"Digital Native">> \/ first = <<>>
    BY <1>4
  <2>3. second = <<"Night Owl">> \/ second = <<>>
    BY <1>4
  <2> QED BY <1>5, <2>1, <2>2, <2>3
<1>7. PICK badges : badges = first \o second
  OBVIOUS
<1>8. badges \in Seq(Badges)
  BY <1>6, <1>7, ConcatProperties
<1>9. PICK longest : longest = Max({new, row.longest})
  OBVIOUS
<1>10. PICK q : q = [c EXCEPT !.current = new, !.longest = longest, !.amount = amount,
                              !.badges = badges, !.pc = "look"]
  OBVIOUS
<1>11. /\ q.pc = "look" /\ q.user = c.user /\ q.badges = badges /\ q.amount = amount
       /\ q.total = c.total /\ DOMAIN q = DOMAIN c
  BY <1>10 DEF IsCheckIn
<1>12. IsCheckIn(q)
  BY <1>3, <1>8, <1>11 DEF IsCheckIn, CheckInLabels, BadgeLabels
<1>13. PICK r : r = NextBadge(q) /\ IsCheckIn(r) /\ r.pc \notin LevelLabels
  BY <1>12, NextBadgeOK
<1>14. Planned(c, row) = r
  BY <1>1, <1>2, <1>4, <1>7, <1>9, <1>10, <1>13 DEF Planned, NextBadge, IsCheckIn
<1> QED BY <1>13, <1>14 DEF CallOK

LEMMA IdleOK == CallOK(Idle)
BY DEF CallOK, Idle

-----------------------------------------------------------------------------
(* The steps.                                                              *)

LEMMA LookStep ==
  ASSUME LevelInv, NEW s \in Slots, Look(s) \/ CreateStreak(s) \/ WriteStreak(s)
  PROVE  LevelInv'
<1>1. PICK c : c = play[s] /\ IsCheckIn(c) /\ c.pc \in {"look", "create", "streak"}
  BY DEF LevelInv, CallOK, Look, CreateStreak, WriteStreak
<1>2. ASSUME NEW l \in {"create", "xp"} PROVE CallOK([c EXCEPT !.pc = l])
  <2>1. PICK q : q = [c EXCEPT !.pc = l]
    OBVIOUS
  <2>2. IsCheckIn(q) /\ q.pc = l
    BY <1>1, <2>1 DEF IsCheckIn, CheckInLabels, BadgeLabels
  <2> QED BY <2>1, <2>2 DEF CallOK, LevelLabels
<1>3. UNCHANGED <<xp, board>>
  BY DEF Look, CreateStreak, WriteStreak
<1>4. \E q : CallOK(q) /\ play' = [play EXCEPT ![s] = q]
  <2>1. CASE Look(s)
    BY <1>1, <1>2, <2>1, IdleOK, PlannedOK DEF Look, PlayGoto, Goto
  <2>2. CASE CreateStreak(s)
    BY <1>1, <2>2, IdleOK, PlannedOK DEF CreateStreak, PlayGoto, Goto
  <2>3. CASE WriteStreak(s)
    BY <1>1, <1>2, <2>3 DEF WriteStreak, PlayGoto, Goto
  <2> QED BY <2>1, <2>2, <2>3
<1> QED BY <1>3, <1>4, QuietMove

LEMMA BadgeStep ==
  ASSUME LevelInv, NEW s \in Slots, FindBadge(s) \/ EarnBadge(s)
  PROVE  LevelInv'
<1>1. PICK c : c = play[s] /\ IsCheckIn(c) /\ c.pc \in {"find", "earn"}
  BY DEF LevelInv, CallOK, FindBadge, EarnBadge
<1>2. ASSUME NEW l \in {"earn", "badgeXp"} PROVE CallOK([c EXCEPT !.pc = l])
  <2>1. PICK q : q = [c EXCEPT !.pc = l]
    OBVIOUS
  <2>2. IsCheckIn(q) /\ q.pc = l
    BY <1>1, <2>1 DEF IsCheckIn, CheckInLabels, BadgeLabels
  <2> QED BY <2>1, <2>2 DEF CallOK, LevelLabels
<1>3. UNCHANGED <<xp, board>>
  BY DEF FindBadge, EarnBadge
<1>4. CallOK(SkipBadge(c))
  BY <1>1, SkipBadgeOK DEF BadgeLabels
<1>5. \E q : CallOK(q) /\ play' = [play EXCEPT ![s] = q]
  BY <1>1, <1>2, <1>4, IdleOK DEF FindBadge, EarnBadge, PlayGoto, Goto
<1> QED BY <1>3, <1>5, QuietMove

LEMMA AwardedOK ==
  ASSUME NEW c, IsCheckIn(c), c.pc \in {"badgeXp", "badgeLevel", "xp", "level"}
  PROVE  CallOK(Awarded(c))
BY IdleOK, SkipBadgeOK DEF Awarded, BadgeLabels

LEMMA AddXpStep ==
  ASSUME LevelInv, NEW s \in Slots, AddXp(s)
  PROVE  LevelInv'
<1>1. PICK c : c = play[s] /\ IsCheckIn(c) /\ c.pc \in {"badgeXp", "xp"}
  BY DEF LevelInv, CallOK, AddXp
<1>2. PICK u \in Users : u = c.user
  BY <1>1 DEF IsCheckIn
<1>3. PICK amount : amount = IF c.pc = "badgeXp" THEN Reward[Head(c.badges)] ELSE c.amount
  OBVIOUS
<1>4. amount \in Nat
  <2>1. CASE c.pc = "badgeXp"
    <3>1. Head(c.badges) \in Badges
      BY <1>1, <2>1, HeadTailProperties DEF IsCheckIn, BadgeLabels
    <3> QED BY <1>3, <2>1, <3>1, Rewards
  <2>2. CASE c.pc # "badgeXp"
    BY <1>1, <1>3, <2>2 DEF IsCheckIn
  <2> QED BY <2>1, <2>2
<1>5. PICK row : row = IF xp[u] = None THEN [total |-> amount, level |-> 1]
                       ELSE [xp[u] EXCEPT !.total = @ + amount]
  OBVIOUS
<1>6. /\ row \in XpRow /\ row.level <= Level(row.total)
      /\ xp[u] # None => xp[u].total <= row.total
  <2>1. CASE xp[u] = None
    BY <1>4, <1>5, <2>1, LevelReached DEF XpRow
  <2>2. CASE xp[u] # None
    <3>1. PICK n \in Nat, l \in Nat : n = xp[u].total /\ l = xp[u].level /\ xp[u] \in XpRow
      BY <2>2 DEF LevelInv, XpRow
    <3>2. row \in XpRow /\ row.total = n + amount /\ row.level = l
      BY <1>4, <1>5, <2>2, <3>1 DEF XpRow
    <3>3. l <= Level(n)
      BY <2>2, <3>1 DEF LevelInv
    <3>4. n <= n + amount /\ n + amount \in Nat
      BY <1>4
    <3>5. Level(n) <= Level(n + amount) /\ Level(n) \in Nat /\ Level(n + amount) \in Nat
      BY <3>4, LevelGrows, LevelReached
    <3> QED BY <3>1, <3>2, <3>3, <3>4, <3>5
  <2> QED BY <2>1, <2>2
<1>7. xp' = [xp EXCEPT ![u] = row] /\ UNCHANGED board
  BY <1>1, <1>2, <1>3, <1>5 DEF AddXp
<1>8. /\ xp' \in [Users -> XpRow \cup {None}]
      /\ \A v \in Users : xp'[v] = IF v = u THEN row ELSE xp[v]
  BY <1>6, <1>7 DEF LevelInv
<1>9. row # None
  <2>1. None \notin XpRow
    BY NoneApart
  <2> QED BY <1>6, <2>1
<1>10. Grows
  BY <1>6, <1>8, <1>9 DEF Grows, LevelInv, XpRow
<1>11. PICK l : l = IF c.pc = "xp" THEN "level" ELSE "badgeLevel"
  OBVIOUS
<1>12. PICK q : q = IF Level(row.total) = row.level THEN Awarded(c)
                    ELSE [c EXCEPT !.pc = l, !.total = row.total]
  OBVIOUS
<1>13. CallOK(q)'
  <2>1. CASE Level(row.total) = row.level
    <3>1. CallOK(q) /\ q = Awarded(c)
      BY <1>1, <1>12, <2>1, AwardedOK
    <3>2. q.pc \notin LevelLabels /\ q.pc # "refresh"
      <4>1. CASE c.pc = "xp"
        BY <3>1, <4>1 DEF Awarded, Idle, LevelLabels
      <4>2. CASE c.pc = "badgeXp"
        BY <1>1, <3>1, <4>2 DEF Awarded, SkipBadge, NextBadge, LevelLabels, IsCheckIn
      <4> QED BY <1>1, <4>1, <4>2
    <3> QED BY <3>1, <3>2 DEF CallOK
  <2>2. CASE Level(row.total) # row.level
    <3>1. PICK n \in Nat : n = row.total
      BY <1>6 DEF XpRow
    <3>2. q = [c EXCEPT !.pc = l, !.total = n]
      BY <1>12, <2>2, <3>1
    <3>3. /\ q.pc = l /\ q.user = u /\ q.badges = c.badges /\ q.amount = c.amount
          /\ q.total = n /\ DOMAIN q = DOMAIN c
      BY <1>1, <1>2, <3>2 DEF IsCheckIn
    <3>4. IsCheckIn(q)
      BY <1>1, <1>2, <1>11, <3>3 DEF IsCheckIn, CheckInLabels, BadgeLabels
    <3>5. Below(u, n, 1)'
      <4>1. xp'[u] = row
        BY <1>8
      <4>2. 1 <= Level(n) /\ n <= n
        BY LevelReached
      <4> QED BY <1>9, <3>1, <4>1, <4>2 DEF Below
    <3> QED BY <3>3, <3>4, <3>5 DEF CallOK, Below
  <2> QED BY <2>1, <2>2
<1>14. play' = [play EXCEPT ![s] = q]
  BY <1>1, <1>2, <1>3, <1>5, <1>11, <1>12 DEF AddXp, PlayGoto, Goto
<1>15. \A v \in Users : xp'[v] # None => xp'[v].level <= Level(xp'[v].total)
  BY <1>6, <1>8 DEF LevelInv
<1> QED BY <1>7, <1>8, <1>10, <1>13, <1>14, <1>15, CallsStay, BoardStays DEF LevelInv

LEMMA WriteLevelStep ==
  ASSUME LevelInv, NEW s \in Slots, WriteLevel(s)
  PROVE  LevelInv'
<1>1. PICK c : /\ c = play[s] /\ IsCheckIn(c) /\ c.pc \in {"badgeLevel", "level"}
               /\ Below(c.user, c.total, 1)
  BY DEF LevelInv, CallOK, WriteLevel, LevelLabels, CheckInLabels
<1>2. PICK u \in Users, n \in Nat : u = c.user /\ n = c.total
  BY <1>1 DEF IsCheckIn
<1>3. PICK top : top = Level(n)
  OBVIOUS
<1>4. xp[u] # None /\ xp[u] \in XpRow /\ xp[u].total \in Nat /\ n <= xp[u].total
  BY <1>1, <1>2 DEF Below, LevelInv, XpRow
<1>5. top \in Nat /\ top <= Level(xp[u].total)
  BY <1>3, <1>4, LevelGrows, LevelReached
<1>6. PICK row : row = [xp[u] EXCEPT !.level = top]
  OBVIOUS
<1>7. row \in XpRow /\ row.total = xp[u].total /\ row.level = top
  BY <1>4, <1>5, <1>6 DEF XpRow
<1>8. xp' = [xp EXCEPT ![u] = row] /\ UNCHANGED board
  BY <1>1, <1>2, <1>3, <1>4, <1>6 DEF WriteLevel, LevelInv
<1>9. /\ xp' \in [Users -> XpRow \cup {None}]
      /\ \A v \in Users : xp'[v] = IF v = u THEN row ELSE xp[v]
  BY <1>7, <1>8 DEF LevelInv
<1>10. row # None
  <2>1. None \notin XpRow
    BY NoneApart
  <2> QED BY <1>7, <2>1
<1>11. Grows
  BY <1>4, <1>7, <1>9, <1>10 DEF Grows, LevelInv, XpRow
<1>12. PICK q : q = Awarded(c)
  OBVIOUS
<1>13. CallOK(q)'
  <2>1. CallOK(q)
    BY <1>1, <1>12, AwardedOK
  <2>2. q.pc \notin LevelLabels /\ q.pc # "refresh"
    <3>1. CASE c.pc = "level"
      BY <1>12, <3>1 DEF Awarded, Idle, LevelLabels
    <3>2. CASE c.pc = "badgeLevel"
      BY <1>1, <1>12, <3>2 DEF Awarded, SkipBadge, NextBadge, LevelLabels, IsCheckIn
    <3> QED BY <1>1, <3>1, <3>2
  <2> QED BY <2>1, <2>2 DEF CallOK
<1>14. play' = [play EXCEPT ![s] = q]
  BY <1>1, <1>12 DEF WriteLevel, PlayGoto, Goto
<1>15. \A v \in Users : xp'[v] # None => xp'[v].level <= Level(xp'[v].total)
  BY <1>5, <1>7, <1>9 DEF LevelInv
<1> QED BY <1>8, <1>9, <1>11, <1>13, <1>14, <1>15, CallsStay, BoardStays DEF LevelInv

\* The leaderboard takes over what a refresh has read.
LEMMA WriteBoardStep ==
  ASSUME LevelInv, NEW s \in Slots, WriteBoard(s)
  PROVE  LevelInv'
<1>1. PICK c : c = play[s] /\ \A u \in Users : Ranks(c.rows[u], u)
  BY DEF LevelInv, CallOK, WriteBoard, IsCheckIn, CheckInLabels
<1>2. xp' \in [Users -> XpRow \cup {None}] /\ Grows /\ UNCHANGED xp
  BY DEF LevelInv, Grows, XpRow, WriteBoard
<1>3. ASSUME NEW u \in Users PROVE Ranks(board[u], u)'
  <2>1. board'[u] = IF c.rows[u] = None THEN board[u] ELSE c.rows[u]
    BY <1>1 DEF WriteBoard
  <2>2. Ranks(board'[u], u)
    BY <1>1, <2>1 DEF LevelInv
  <2> QED BY <1>2, <2>2 DEF Ranks, Below
<1>4. play' = [play EXCEPT ![s] = Idle] /\ CallOK(Idle)'
  BY DEF WriteBoard, PlayGoto, Goto, CallOK, Idle
<1> QED BY <1>2, <1>3, <1>4, CallsStay DEF LevelInv

LEMMA RefreshStep ==
  ASSUME LevelInv, NEW s \in Slots, RefreshLeaderboardCache(s)
  PROVE  LevelInv'
<1>1. PICK rank \in Rankings :
        play' = [play EXCEPT ![s] = [pc |-> "refresh", user |-> None, rows |-> Snapshot(rank)]]
  BY DEF RefreshLeaderboardCache, Begin
<1>2. PICK rows : rows = Snapshot(rank)
  OBVIOUS
<1>3. \A u \in Users : Ranks(rows[u], u)
  BY <1>2, SnapshotBelow DEF LevelInv
<1>4. PICK q : q = [pc |-> "refresh", user |-> None, rows |-> rows]
  OBVIOUS
<1>5. CallOK(q)
  BY <1>3, <1>4 DEF CallOK
<1>6. UNCHANGED <<xp, board>>
  BY DEF RefreshLeaderboardCache
<1> QED BY <1>1, <1>2, <1>4, <1>5, <1>6, QuietMove

LEMMA RequestStep ==
  ASSUME LevelInv, NEW s \in Slots, NEW u \in Users,
         CheckIn(s, u) \/ UseStreakFreeze(s, u) \/ GetMyRank(s, u)
  PROVE  LevelInv'
<1>1. CASE CheckIn(s, u)
  <2>1. PICK night \in BOOLEAN :
          /\ play' = [play EXCEPT ![s] =
               [pc |-> "look", user |-> u, day |-> today, night |-> night, current |-> 0,
                longest |-> 0, badges |-> <<>>, amount |-> 0, total |-> 0]]
          /\ UNCHANGED <<xp, board>>
    BY <1>1 DEF CheckIn, BeginFor, Begin
  <2>2. PICK q : q = [pc |-> "look", user |-> u, day |-> today, night |-> night, current |-> 0,
                      longest |-> 0, badges |-> <<>>, amount |-> 0, total |-> 0]
    OBVIOUS
  <2>3. IsCheckIn(q) /\ q.pc = "look"
    BY <2>2 DEF IsCheckIn, CheckInLabels, BadgeLabels
  <2> QED BY <2>1, <2>2, <2>3, QuietMove DEF CallOK, LevelLabels
<1>2. CASE UseStreakFreeze(s, u)
  <2>1. PICK q : q = [pc |-> "freeze", user |-> u, day |-> today, row |-> streak[u]]
    OBVIOUS
  <2>2. CallOK(q)
    BY <2>1 DEF CallOK
  <2> QED BY <1>2, <2>1, <2>2, QuietMove DEF UseStreakFreeze, BeginFor, Begin
<1>3. CASE GetMyRank(s, u)
  <2>1. PICK q : q = [pc |-> "nearby", user |-> u, entry |-> board[u]]
    OBVIOUS
  <2>2. CallOK(q)
    BY <2>1 DEF CallOK
  <2> QED BY <1>3, <2>1, <2>2, QuietMove DEF GetMyRank, BeginFor, Begin
<1> QED BY <1>1, <1>2, <1>3

LEMMA EndStep ==
  ASSUME LevelInv, NEW s \in Slots, WriteFreeze(s) \/ AnswerMyRank(s) \/ GameDie(s)
  PROVE  LevelInv'
<1>1. play' = [play EXCEPT ![s] = Idle] /\ UNCHANGED <<xp, board>>
  BY DEF WriteFreeze, AnswerMyRank, GameDie, Die, PlayGoto, Goto
<1> QED BY <1>1, IdleOK, QuietMove

LEMMA StepInv == LevelInv /\ [GameNext]_gameVars => LevelInv'
<1> SUFFICES ASSUME LevelInv, [GameNext]_gameVars PROVE LevelInv'
  OBVIOUS
<1>1. CASE UNCHANGED <<xp, board, play>>
  BY <1>1 DEF LevelInv, CallOK, Ranks, Below
<1>2. Midnight \/ UNCHANGED gameVars => UNCHANGED <<xp, board, play>>
  BY DEF Midnight, gameVars
<1>3. ASSUME NEW s \in Slots, GameStep(s) PROVE LevelInv'
  BY <1>3, LookStep, BadgeStep, AddXpStep, WriteLevelStep, WriteBoardStep, EndStep DEF GameStep
<1>4. ASSUME NEW s \in Slots, GameRequest(s) PROVE LevelInv'
  BY <1>4, RequestStep, RefreshStep DEF GameRequest
<1> QED BY <1>1, <1>2, <1>3, <1>4, EndStep DEF GameNext

-----------------------------------------------------------------------------
(* The theorem.                                                            *)

\* Neither the level of a row, whichever award writes it last, nor what the
\* leaderboard has copied is ahead of the XP that the profile shows.
THEOREM LevelsFollow == GameSpec => []LevelNeverAhead
<1>1. LevelInv => LevelNeverAhead
  BY InvGivesLevels
<1> QED BY <1>1, InitInv, StepInv, PTL DEF GameSpec

-----------------------------------------------------------------------------
(***************************************************************************)
(* Types, and what each call knows of the row of its player.  A player     *)
(* whose calls do not overlap has one call in flight.                      *)
(***************************************************************************)
GameTables ==
  /\ today \in Nat /\ 1 <= today
  /\ streak \in [Users -> StreakRow \cup {None}]
  /\ xp \in [Users -> XpRow \cup {None}]
  /\ badge \subseteq Users \X Badges
  /\ board \in [Users -> BoardRow \cup {None}]
  /\ playLeft \in Nat
  /\ daily \in [Users -> Seq(Nat \X Nat)]
  /\ granted \in [Users -> Nat]
  /\ froze \in [Users -> Nat]
  /\ muddled \subseteq Users
  /\ mixed \in BOOLEAN
  /\ \A u \in Users : streak[u] # None => streak[u].freezes >= 0

KnowsRow == CheckInLabels \ {"look", "create"}

GameCallOK(c) ==
  /\ c.pc \in BadgeLabels => c.badges # <<>>
  /\ c.pc \in CheckInLabels => 1 <= c.day
  /\ c.pc \in KnowsRow => streak[c.user] # None
  /\ c.pc = "freeze" => 1 <= c.day /\ streak[c.user] # None /\ c.row.freezes > 0

GameCallsOK == play \in [Slots -> GameCall] /\ \A s \in Slots : GameCallOK(play[s])

OneCall(u) == \A s, t \in Slots : play[s].user = u /\ play[t].user = u => s = t

GameBase == GameTables /\ GameCallsOK /\ \A u \in Users \ muddled : OneCall(u)

LEMMA BaseGivesTypes == GameBase => GameTypeOK
BY DEF GameBase, GameTables, GameCallsOK, GameTypeOK

LEMMA GameKinds ==
  ASSUME NEW c \in GameCall
  PROVE  /\ c.pc \in CheckInLabels => c \in CheckInCall
         /\ c.pc = "freeze" => c \in FreezeCall
         /\ c.pc = "refresh" => c \in RefreshCall
         /\ c.pc = "nearby" => c \in RankCall
         /\ c # Idle => c.pc \in CheckInLabels \cup {"freeze", "refresh", "nearby"}
         /\ c.user \in Users \cup {None}
         /\ c.user = None <=> c.pc \in {"idle", "refresh"}
BY NoneApart DEF GameCall, CheckInCall, FreezeCall, RefreshCall, RankCall, Idle, CheckInLabels

LEMMA CallOf ==
  ASSUME GameBase, NEW s \in Slots
  PROVE  \E c \in GameCall : c = play[s] /\ GameCallOK(c)
BY DEF GameBase, GameCallsOK

LEMMA IdlePlay == Idle \in GameCall /\ Idle.pc = "idle" /\ Idle.user = None
BY DEF Idle, GameCall

\* No row of a player goes.
RowsStay == \A u \in Users : streak[u] # None => streak'[u] # None

LEMMA PlayerKnows ==
  ASSUME NEW c \in GameCall, GameCallOK(c), RowsStay
  PROVE  GameCallOK(c)'
<1>1. c.pc \in KnowsRow \/ c.pc = "freeze" => c.user \in Users
  BY GameKinds DEF KnowsRow, CheckInLabels, CheckInCall, FreezeCall
<1> QED BY <1>1 DEF GameCallOK, RowsStay

LEMMA PlayStays ==
  ASSUME GameBase, RowsStay, UNCHANGED play
  PROVE  GameCallsOK'
<1>1. ASSUME NEW s \in Slots PROVE GameCallOK(play[s])'
  <2>1. PICK c \in GameCall : c = play[s] /\ GameCallOK(c)
    BY CallOf
  <2>2. GameCallOK(c)' /\ play'[s] = c
    BY <2>1, PlayerKnows
  <2> QED BY <2>2 DEF GameCallOK
<1> QED BY <1>1 DEF GameBase, GameCallsOK

LEMMA PlayMoves ==
  ASSUME GameBase, RowsStay, NEW s \in Slots, NEW q \in GameCall, GameCallOK(q)',
         play' = [play EXCEPT ![s] = q]
  PROVE  GameCallsOK'
<1>1. ASSUME NEW t \in Slots PROVE GameCallOK(play[t])'
  <2>1. PICK c \in GameCall : c = play[t] /\ GameCallOK(c)
    BY CallOf
  <2>2. GameCallOK(c)' /\ play'[t] = IF t = s THEN q ELSE c
    BY <2>1, PlayerKnows DEF GameBase, GameCallsOK
  <2> QED BY <2>2 DEF GameCallOK
<1>2. play' \in [Slots -> GameCall]
  BY DEF GameBase, GameCallsOK
<1> QED BY <1>1, <1>2 DEF GameCallsOK

\* A call that goes on for its player, or ends.
LEMMA OneStays ==
  ASSUME GameBase, NEW s \in Slots, NEW q, play' = [play EXCEPT ![s] = q],
         q.user = play[s].user \/ q.user = None, muddled \subseteq muddled'
  PROVE  (\A u \in Users \ muddled : OneCall(u))'
<1> SUFFICES ASSUME NEW u \in Users, u \notin muddled', NEW t \in Slots, NEW r \in Slots,
                    play'[t].user = u, play'[r].user = u
             PROVE  t = r
  BY DEF OneCall
<1>1. u # None
  BY NoneApart
<1>2. \A x \in Slots : play'[x] = IF x = s THEN q ELSE play[x]
  BY DEF GameBase, GameCallsOK
<1>3. play[t].user = u /\ play[r].user = u
  BY <1>1, <1>2
<1> QED BY <1>3 DEF GameBase, OneCall

LEMMA OneBegins ==
  ASSUME GameBase, NEW s \in Slots, NEW v, NEW q, play' = [play EXCEPT ![s] = q],
         q.user = v, muddled' = muddled \cup ({v} \cap Busy(play))
  PROVE  (\A u \in Users \ muddled : OneCall(u))'
<1> SUFFICES ASSUME NEW u \in Users, u \notin muddled', NEW t \in Slots, NEW r \in Slots,
                    play'[t].user = u, play'[r].user = u
             PROVE  t = r
  BY DEF OneCall
<1>1. u # None
  BY NoneApart
<1>2. \A x \in Slots : play'[x] = IF x = s THEN q ELSE play[x]
  BY DEF GameBase, GameCallsOK
<1>3. CASE u = v
  <2>1. u \notin Busy(play)
    BY <1>3
  <2>2. \A x \in Slots : play[x].user # u
    BY <1>1, <2>1 DEF Busy
  <2> QED BY <1>2, <2>2
<1>4. CASE u # v
  <2>1. play[t].user = u /\ play[r].user = u
    BY <1>2, <1>4
  <2> QED BY <2>1 DEF GameBase, OneCall
<1> QED BY <1>3, <1>4

-----------------------------------------------------------------------------
(* What a check-in makes of its own record, as a record.                   *)

LEMMA NextBadgeIs ==
  ASSUME NEW c \in CheckInCall, NEW q, q = NextBadge(c)
  PROVE  /\ q \in CheckInCall /\ q.user = c.user /\ q.day = c.day /\ q.current = c.current
         /\ q.badges = c.badges /\ q.amount = c.amount
         /\ q.pc = IF c.badges = <<>> THEN "streak" ELSE "find"
<1>1. PICK l \in {"streak", "find"} : l = IF c.badges = <<>> THEN "streak" ELSE "find"
  OBVIOUS
<1>2. q = [c EXCEPT !.pc = l]
  BY <1>1 DEF NextBadge
<1> QED BY <1>1, <1>2 DEF CheckInCall

LEMMA SkipBadgeIs ==
  ASSUME NEW c \in CheckInCall, c.badges # <<>>, NEW q, q = SkipBadge(c)
  PROVE  /\ q \in CheckInCall /\ q.user = c.user /\ q.day = c.day /\ q.current = c.current
         /\ q.badges = Tail(c.badges) /\ q.amount = c.amount
         /\ q.pc = IF q.badges = <<>> THEN "streak" ELSE "find"
<1>1. PICK rest \in Seq(Badges) : rest = Tail(c.badges)
  BY HeadTailProperties DEF CheckInCall
<1>2. PICK b : b = [c EXCEPT !.badges = rest]
  OBVIOUS
<1>3. /\ b \in CheckInCall /\ b.user = c.user /\ b.day = c.day /\ b.current = c.current
      /\ b.badges = rest /\ b.amount = c.amount
  BY <1>2 DEF CheckInCall
<1>4. q = NextBadge(b)
  BY <1>1, <1>2 DEF SkipBadge
<1> QED BY <1>1, <1>3, <1>4, NextBadgeIs

LEMMA NewStreakType ==
  ASSUME NEW row \in StreakRow, NEW day
  PROVE  NewStreak(row, day) \in Nat /\ NewStreak(row, day) <= row.current + 1
BY DEF NewStreak, StreakRow

LEMMA PlannedIs ==
  ASSUME NEW c \in CheckInCall, NEW row \in StreakRow, NEW q, q = Planned(c, row)
  PROVE  /\ q \in CheckInCall /\ q.user = c.user /\ q.day = c.day
         /\ q.current = NewStreak(row, c.day)
         /\ q.pc = IF q.badges = <<>> THEN "streak" ELSE "find"
<1>1. PICK new \in Nat : new = NewStreak(row, c.day)
  BY NewStreakType
<1>2. PICK amount : amount = DAILY_LOGIN + (IF new = Week THEN STREAK_7_DAYS ELSE 0)
                                         + (IF new = Month THEN STREAK_30_DAYS ELSE 0)
  OBVIOUS
<1>3. amount \in Nat
  BY <1>2, Thresholds
<1>4. PICK first, second : /\ first = IF new = Week THEN <<"Digital Native">> ELSE <<>>
                           /\ second = IF c.night THEN <<"Night Owl">> ELSE <<>>
  OBVIOUS
<1>5. "Digital Native" \in Badges /\ "Night Owl" \in Badges
  BY GameAssumption, Zenon DEF Badges
<1>6. first \in Seq(Badges) /\ second \in Seq(Badges)
  <2>1. ASSUME NEW b \in Badges PROVE <<b>> \in Seq(Badges) /\ <<>> \in Seq(Badges)
    OBVIOUS
  <2>2. first = <<"Digital Native">> \/ first = <<>>
    BY <1>4
  <2>3. second = <<"Night Owl">> \/ second = <<>>
    BY <1>4
  <2> QED BY <1>5, <2>1, <2>2, <2>3
<1>7. PICK badges : badges = first \o second
  OBVIOUS
<1>8. badges \in Seq(Badges)
  BY <1>6, <1>7, ConcatProperties
<1>9. PICK longest : longest = Max({new, row.longest})
  OBVIOUS
<1>10. longest \in Nat
  <2>1. PICK m \in Nat : m = row.longest
    BY DEF StreakRow
  <2>2. \A x \in {new, m} : x <= new + m
    OBVIOUS
  <2>3. {new, m} \in SUBSET Nat /\ {new, m} # {} /\ new + m \in Nat
    OBVIOUS
  <2>4. Max({new, m}) \in {new, m}
    BY <2>2, <2>3, MaxExists
  <2> QED BY <1>9, <2>1, <2>4
<1>11. PICK b : b = [c EXCEPT !.current = new, !.longest = longest, !.amount = amount,
                              !.badges = badges]
  OBVIOUS
<1>12. /\ b \in CheckInCall /\ b.user = c.user /\ b.day = c.day /\ b.current = new
       /\ b.badges = badges
  BY <1>3, <1>8, <1>10, <1>11 DEF CheckInCall
<1>13. q = NextBadge(b)
  BY <1>1, <1>2, <1>4, <1>7, <1>9, <1>11 DEF Planned
<1> QED BY <1>1, <1>12, <1>13, NextBadgeIs

-----------------------------------------------------------------------------
(* What each action does to its call.                                      *)

\* `q` is what the check-in `c` that found `row` goes on as.
PlannedFrom(c, q, row) ==
  /\ q \in CheckInCall /\ q.user = c.user /\ q.day = c.day
  /\ q.current = NewStreak(row, c.day)
  /\ q.pc = IF q.badges = <<>> THEN "streak" ELSE "find"

\* It goes on for the same player and day.
SameCheckIn(c, q) ==
  q \in CheckInCall /\ q.user = c.user /\ q.day = c.day /\ q.current = c.current

LEMMA LookIs ==
  ASSUME GameBase, NEW s \in Slots, Look(s)
  PROVE  \E c \in CheckInCall, q \in GameCall :
           /\ c = play[s] /\ c.pc = "look" /\ GameCallOK(c)
           /\ play' = [play EXCEPT ![s] = q]
           /\ \/ q = Idle
              \/ /\ q \in CheckInCall /\ q.pc = "create" /\ q.user = c.user /\ q.day = c.day
                 /\ streak[c.user] = None
              \/ /\ streak[c.user] # None /\ ~Marked(streak[c.user], c.day)
                 /\ PlannedFrom(c, q, streak[c.user])
<1>1. PICK c \in CheckInCall : c = play[s] /\ c.pc = "look" /\ GameCallOK(c)
  BY CallOf, GameKinds DEF Look, CheckInLabels
<1>2. c.user \in Users
  BY DEF CheckInCall
<1>3. PICK row : row = streak[c.user] /\ row \in StreakRow \cup {None}
  BY <1>2 DEF GameBase, GameTables
<1>4. CASE row = None
  <2>1. PICK q : q = [c EXCEPT !.pc = "create"]
    OBVIOUS
  <2>2. q \in CheckInCall /\ q.pc = "create" /\ q.user = c.user /\ q.day = c.day
    BY <2>1 DEF CheckInCall
  <2>3. play' = [play EXCEPT ![s] = q]
    BY <1>1, <1>3, <1>4, <2>1 DEF Look, PlayGoto, Goto
  <2> QED BY <1>1, <1>3, <1>4, <2>2, <2>3 DEF GameCall
<1>5. CASE row # None /\ Marked(row, c.day)
  <2>1. play' = [play EXCEPT ![s] = Idle]
    BY <1>1, <1>3, <1>5 DEF Look, PlayGoto, Goto
  <2> QED BY <1>1, <2>1, IdlePlay
<1>6. CASE row # None /\ ~Marked(row, c.day)
  <2>1. PICK q : q = Planned(c, row)
    OBVIOUS
  <2>2. PlannedFrom(c, q, row)
    BY <1>3, <1>6, <2>1, PlannedIs DEF PlannedFrom
  <2>3. play' = [play EXCEPT ![s] = q]
    BY <1>1, <1>3, <1>6, <2>1 DEF Look, PlayGoto, Goto
  <2> QED BY <1>1, <1>3, <1>6, <2>2, <2>3 DEF GameCall, PlannedFrom
<1> QED BY <1>4, <1>5, <1>6

\* The row that checkIn creates.
FirstRow == [current |-> 0, longest |-> 0, freezes |-> DEFAULT_FREEZE_COUNT, last |-> Never]

LEMMA FirstRowType ==
  /\ FirstRow \in StreakRow /\ FirstRow # None /\ FirstRow.last = Never
  /\ FirstRow.current = 0 /\ FirstRow.freezes = DEFAULT_FREEZE_COUNT
BY NoneApart DEF FirstRow, StreakRow, Never

LEMMA CreateIs ==
  ASSUME GameBase, NEW s \in Slots, CreateStreak(s)
  PROVE  \E c \in CheckInCall, q \in GameCall :
           /\ c = play[s] /\ c.pc = "create" /\ GameCallOK(c)
           /\ play' = [play EXCEPT ![s] = q]
           /\ \/ q = Idle /\ UNCHANGED streak
              \/ /\ streak[c.user] = None
                 /\ streak' = [streak EXCEPT ![c.user] = FirstRow]
                 /\ PlannedFrom(c, q, FirstRow)
<1>1. PICK c \in CheckInCall : c = play[s] /\ c.pc = "create" /\ GameCallOK(c)
  BY CallOf, GameKinds DEF CreateStreak, CheckInLabels
<1>2. CASE streak[c.user] = None
  <2>1. PICK q : q = Planned(c, FirstRow)
    OBVIOUS
  <2>2. PlannedFrom(c, q, FirstRow)
    BY <2>1, FirstRowType, PlannedIs DEF PlannedFrom
  <2>3. play' = [play EXCEPT ![s] = q] /\ streak' = [streak EXCEPT ![c.user] = FirstRow]
    BY <1>1, <1>2, <2>1 DEF CreateStreak, PlayGoto, Goto, FirstRow
  <2> QED BY <1>1, <1>2, <2>2, <2>3 DEF GameCall, PlannedFrom
<1>3. CASE streak[c.user] # None
  <2>1. play' = [play EXCEPT ![s] = Idle] /\ UNCHANGED streak
    BY <1>1, <1>3 DEF CreateStreak, PlayGoto, Goto
  <2> QED BY <1>1, <2>1, IdlePlay
<1> QED BY <1>2, <1>3

LEMMA WriteStreakIs ==
  ASSUME GameBase, NEW s \in Slots, WriteStreak(s)
  PROVE  \E c \in CheckInCall, q \in CheckInCall, row \in StreakRow :
           /\ c = play[s] /\ c.pc = "streak" /\ GameCallOK(c) /\ streak[c.user] # None
           /\ q.pc = "xp" /\ SameCheckIn(c, q)
           /\ play' = [play EXCEPT ![s] = q]
           /\ streak' = [streak EXCEPT ![c.user] = row]
           /\ row.current = c.current /\ row.last = c.day
           /\ row.freezes = streak[c.user].freezes
<1>1. PICK c \in CheckInCall : c = play[s] /\ c.pc = "streak" /\ GameCallOK(c)
  BY CallOf, GameKinds DEF WriteStreak, CheckInLabels
<1>2. c.user \in Users /\ streak[c.user] # None /\ streak[c.user] \in StreakRow
  BY <1>1 DEF GameCallOK, KnowsRow, CheckInLabels, CheckInCall, GameBase, GameTables
<1>3. PICK old \in StreakRow : old = streak[c.user]
  BY <1>2
<1>4. PICK row : row = [old EXCEPT !.current = c.current, !.longest = c.longest, !.last = c.day]
  OBVIOUS
<1>5. /\ row \in StreakRow /\ row.current = c.current /\ row.last = c.day
      /\ row.freezes = old.freezes
  BY <1>4 DEF StreakRow, CheckInCall
<1>6. PICK q : q = [c EXCEPT !.pc = "xp"]
  OBVIOUS
<1>7. q \in CheckInCall /\ q.pc = "xp" /\ SameCheckIn(c, q)
  BY <1>6 DEF CheckInCall, SameCheckIn
<1>8. play' = [play EXCEPT ![s] = q]
  BY <1>1, <1>6 DEF WriteStreak, PlayGoto, Goto
<1>9. streak' = [streak EXCEPT ![c.user].current = c.current,
                               ![c.user].longest = c.longest,
                               ![c.user].last = c.day]
  BY <1>1 DEF WriteStreak
<1>10. streak' = [streak EXCEPT ![c.user] = row]
  BY <1>2, <1>3, <1>4, <1>9 DEF GameBase, GameTables, StreakRow
<1> QED BY <1>1, <1>2, <1>3, <1>5, <1>7, <1>8, <1>10

LEMMA BadgeIs ==
  ASSUME GameBase, NEW s \in Slots, FindBadge(s) \/ EarnBadge(s)
  PROVE  \E c \in CheckInCall, q \in GameCall :
           /\ c = play[s] /\ c.pc \in {"find", "earn"} /\ GameCallOK(c) /\ c.badges # <<>>
           /\ play' = [play EXCEPT ![s] = q]
           /\ \/ q = Idle
              \/ /\ SameCheckIn(c, q) /\ q.pc \in {"find", "earn", "badgeXp", "streak"}
                 /\ q.pc # "streak" => q.badges # <<>>
<1>1. PICK c \in CheckInCall :
        c = play[s] /\ c.pc \in {"find", "earn"} /\ GameCallOK(c) /\ c.badges # <<>>
  BY CallOf, GameKinds DEF FindBadge, EarnBadge, CheckInLabels, GameCallOK, BadgeLabels
<1>2. ASSUME NEW l \in {"earn", "badgeXp"}, NEW q, q = [c EXCEPT !.pc = l]
      PROVE  SameCheckIn(c, q) /\ q.pc = l /\ q.badges = c.badges
  BY <1>2 DEF CheckInCall, SameCheckIn
<1>3. ASSUME NEW q, q = SkipBadge(c)
      PROVE  /\ SameCheckIn(c, q) /\ q.pc \in {"find", "streak"}
             /\ q.pc # "streak" => q.badges # <<>>
  BY <1>1, <1>3, SkipBadgeIs DEF SameCheckIn
<1>4. PICK q : /\ play' = [play EXCEPT ![s] = q]
               /\ \/ q = Idle
                  \/ q = SkipBadge(c)
                  \/ q = [c EXCEPT !.pc = "earn"]
                  \/ q = [c EXCEPT !.pc = "badgeXp"]
  BY <1>1 DEF FindBadge, EarnBadge, PlayGoto, Goto
<1>5. \/ q = Idle
      \/ /\ SameCheckIn(c, q) /\ q.pc \in {"find", "earn", "badgeXp", "streak"}
         /\ q.pc # "streak" => q.badges # <<>>
  BY <1>1, <1>2, <1>3, <1>4
<1>6. q \in GameCall
  BY <1>5, IdlePlay DEF GameCall, SameCheckIn
<1> QED BY <1>1, <1>4, <1>5, <1>6

\* What an award is followed by.
LEMMA AwardedIs ==
  ASSUME NEW c \in CheckInCall, GameCallOK(c),
         c.pc \in {"badgeXp", "badgeLevel", "xp", "level"}, NEW q, q = Awarded(c)
  PROVE  /\ c.pc \in {"xp", "level"} => q = Idle
         /\ c.pc \in {"badgeXp", "badgeLevel"} =>
              /\ SameCheckIn(c, q) /\ q.pc \in {"find", "streak"}
              /\ q.pc # "streak" => q.badges # <<>>
<1>1. CASE c.pc \in {"xp", "level"}
  BY <1>1 DEF Awarded
<1>2. CASE c.pc \in {"badgeXp", "badgeLevel"}
  <2>1. c.badges # <<>> /\ q = SkipBadge(c)
    BY <1>2 DEF Awarded, GameCallOK, BadgeLabels
  <2> QED BY <1>2, <2>1, SkipBadgeIs DEF SameCheckIn
<1> QED BY <1>1, <1>2

LEMMA AddXpIs ==
  ASSUME GameBase, NEW s \in Slots, AddXp(s)
  PROVE  \E c \in CheckInCall, q \in GameCall, row \in XpRow, amount \in Nat :
           /\ c = play[s] /\ c.pc \in {"badgeXp", "xp"} /\ GameCallOK(c)
           /\ play' = [play EXCEPT ![s] = q]
           /\ xp' = [xp EXCEPT ![c.user] = row]
           /\ amount = IF c.pc = "badgeXp" THEN Reward[Head(c.badges)] ELSE c.amount
           /\ row.total = IF xp[c.user] = None THEN amount ELSE xp[c.user].total + amount
           /\ daily' = IF c.pc = "xp" THEN [daily EXCEPT ![c.user] = Append(@, <<c.day, amount>>)]
                       ELSE daily
           /\ c.pc = "xp" =>
                \/ q = Idle
                \/ SameCheckIn(c, q) /\ q.pc = "level"
           /\ c.pc = "badgeXp" =>
                /\ SameCheckIn(c, q) /\ q.pc \in {"find", "badgeLevel", "streak"}
                /\ q.pc # "streak" => q.badges # <<>>
                /\ q.pc = "badgeLevel" => q.badges = c.badges
                /\ q.pc # "badgeLevel" => q.badges = Tail(c.badges)
<1>1. PICK c \in CheckInCall : c = play[s] /\ c.pc \in {"badgeXp", "xp"} /\ GameCallOK(c)
  BY CallOf, GameKinds DEF AddXp, CheckInLabels
<1>2. PICK u \in Users : u = c.user
  BY DEF CheckInCall
<1>b. c.pc = "badgeXp" => c.badges # <<>> /\ c.badges \in Seq(Badges)
  BY <1>1 DEF GameCallOK, BadgeLabels, CheckInCall
<1>3. PICK amount : amount = IF c.pc = "badgeXp" THEN Reward[Head(c.badges)] ELSE c.amount
  OBVIOUS
<1>4. amount \in Nat
  <2>1. CASE c.pc = "badgeXp"
    <3>1. Head(c.badges) \in Badges
      BY <1>b, <2>1, HeadTailProperties
    <3> QED BY <1>3, <2>1, <3>1, Rewards
  <2>2. CASE c.pc # "badgeXp"
    BY <1>3, <2>2 DEF CheckInCall
  <2> QED BY <2>1, <2>2
<1>5. PICK row : row = IF xp[u] = None THEN [total |-> amount, level |-> 1]
                       ELSE [xp[u] EXCEPT !.total = @ + amount]
  OBVIOUS
<1>6. row \in XpRow /\ row.total = IF xp[u] = None THEN amount ELSE xp[u].total + amount
  <2>1. CASE xp[u] = None
    BY <1>4, <1>5, <2>1 DEF XpRow
  <2>2. CASE xp[u] # None
    <3>1. PICK n \in Nat, l \in Nat : n = xp[u].total /\ l = xp[u].level /\ xp[u] \in XpRow
      BY <2>2 DEF GameBase, GameTables, XpRow
    <3> QED BY <1>4, <1>5, <2>2, <3>1 DEF XpRow
  <2> QED BY <2>1, <2>2
<1>7. xp' = [xp EXCEPT ![u] = row]
  BY <1>1, <1>2, <1>3, <1>5 DEF AddXp
<1>8. daily' = IF c.pc = "xp" THEN [daily EXCEPT ![c.user] = Append(@, <<c.day, amount>>)]
               ELSE daily
  BY <1>1, <1>3 DEF AddXp
<1>9. PICK l \in {"level", "badgeLevel"} : l = IF c.pc = "xp" THEN "level" ELSE "badgeLevel"
  OBVIOUS
<1>10. PICK n \in Nat : n = row.total
  BY <1>6 DEF XpRow
<1>11. PICK q : q = IF Level(row.total) = row.level THEN Awarded(c)
                    ELSE [c EXCEPT !.pc = l, !.total = n]
  OBVIOUS
<1>12. play' = [play EXCEPT ![s] = q]
  BY <1>1, <1>2, <1>3, <1>5, <1>9, <1>10, <1>11 DEF AddXp, PlayGoto, Goto
<1>13. /\ c.pc = "xp" =>
            \/ q = Idle
            \/ SameCheckIn(c, q) /\ q.pc = "level"
       /\ c.pc = "badgeXp" =>
            /\ SameCheckIn(c, q) /\ q.pc \in {"find", "badgeLevel", "streak"}
            /\ q.pc # "streak" => q.badges # <<>>
            /\ q.pc = "badgeLevel" => q.badges = c.badges
            /\ q.pc # "badgeLevel" => q.badges = Tail(c.badges)
  <2>1. CASE Level(row.total) = row.level
    <3>1. q = Awarded(c)
      BY <1>11, <2>1
    <3>2. c.pc = "badgeXp" => q = SkipBadge(c)
      BY <3>1 DEF Awarded
    <3>3. c.pc = "badgeXp" => q.badges = Tail(c.badges)
      BY <1>b, <3>2, SkipBadgeIs
    <3>4. /\ c.pc = "xp" => q = Idle
          /\ c.pc = "badgeXp" =>
               /\ SameCheckIn(c, q) /\ q.pc \in {"find", "streak"}
               /\ q.pc # "streak" => q.badges # <<>>
      BY <1>1, <3>1, AwardedIs
    <3> QED BY <3>3, <3>4
  <2>2. CASE Level(row.total) # row.level
    <3>1. q = [c EXCEPT !.pc = l, !.total = n]
      BY <1>11, <2>2
    <3>2. SameCheckIn(c, q) /\ q.pc = l /\ q.badges = c.badges
      BY <1>9, <3>1 DEF CheckInCall, SameCheckIn
    <3> QED BY <1>1, <1>9, <1>b, <3>2
  <2> QED BY <2>1, <2>2
<1>14. q \in GameCall
  BY <1>1, <1>13, IdlePlay DEF GameCall, SameCheckIn
<1> QED BY <1>1, <1>2, <1>3, <1>4, <1>6, <1>7, <1>8, <1>12, <1>13, <1>14

LEMMA WriteLevelIs ==
  ASSUME GameBase, LevelInv, NEW s \in Slots, WriteLevel(s)
  PROVE  \E c \in CheckInCall, q \in GameCall, row \in XpRow :
           /\ c = play[s] /\ c.pc \in {"badgeLevel", "level"} /\ GameCallOK(c)
           /\ play' = [play EXCEPT ![s] = q]
           /\ xp[c.user] # None /\ xp' = [xp EXCEPT ![c.user] = row]
           /\ row.total = xp[c.user].total
           /\ c.pc = "level" => q = Idle
           /\ c.pc = "badgeLevel" =>
                /\ SameCheckIn(c, q) /\ q.pc \in {"find", "streak"}
                /\ q.pc # "streak" => q.badges # <<>>
<1>1. PICK c \in CheckInCall : c = play[s] /\ c.pc \in {"badgeLevel", "level"} /\ GameCallOK(c)
  BY CallOf, GameKinds DEF WriteLevel, CheckInLabels
<1>2. PICK u \in Users, n \in Nat : u = c.user /\ n = c.total
  BY DEF CheckInCall
<1>3. xp[u] # None /\ xp[u] \in XpRow
  <2>1. Below(c.user, c.total, 1)
    BY <1>1 DEF LevelInv, CallOK, LevelLabels
  <2> QED BY <1>2, <2>1 DEF Below, LevelInv
<1>4. PICK top \in Nat : top = Level(n)
  BY LevelReached
<1>5. PICK row : row = [xp[u] EXCEPT !.level = top]
  OBVIOUS
<1>6. row \in XpRow /\ row.total = xp[u].total
  BY <1>3, <1>5 DEF XpRow
<1>7. xp' = [xp EXCEPT ![u] = row]
  BY <1>1, <1>2, <1>3, <1>4, <1>5 DEF WriteLevel, LevelInv
<1>8. PICK q : q = Awarded(c)
  OBVIOUS
<1>9. /\ c.pc = "level" => q = Idle
      /\ c.pc = "badgeLevel" =>
           /\ SameCheckIn(c, q) /\ q.pc \in {"find", "streak"}
           /\ q.pc # "streak" => q.badges # <<>>
  BY <1>1, <1>8, AwardedIs
<1>10. q \in GameCall
  BY <1>1, <1>9, IdlePlay DEF GameCall, SameCheckIn
<1>11. play' = [play EXCEPT ![s] = q]
  BY <1>1, <1>8 DEF WriteLevel, PlayGoto, Goto
<1> QED BY <1>1, <1>2, <1>3, <1>6, <1>7, <1>9, <1>10, <1>11

LEMMA WriteFreezeIs ==
  ASSUME GameBase, NEW s \in Slots, WriteFreeze(s)
  PROVE  \E c \in FreezeCall :
           /\ c = play[s] /\ GameCallOK(c) /\ streak[c.user] # None /\ c.pc = "freeze"
           /\ play' = [play EXCEPT ![s] = Idle]
           /\ \/ UNCHANGED <<streak, froze>>
              \/ \E day \in Nat, row \in StreakRow :
                   /\ 1 <= day /\ ~Marked(c.row, day)
                   /\ streak' = [streak EXCEPT ![c.user] = row]
                   /\ row.current = streak[c.user].current /\ row.last = day
                   /\ row.freezes = c.row.freezes - 1
                   /\ froze' = [froze EXCEPT ![c.user] = @ + 1]
<1>1. PICK c \in FreezeCall : c = play[s] /\ c.pc = "freeze" /\ GameCallOK(c)
  BY CallOf, GameKinds DEF WriteFreeze
<1>2. /\ c.user \in Users /\ streak[c.user] # None /\ streak[c.user] \in StreakRow
      /\ c.day \in Nat /\ 1 <= c.day /\ c.row \in StreakRow
  BY <1>1 DEF GameCallOK, FreezeCall, GameBase, GameTables
<1>3. play' = [play EXCEPT ![s] = Idle]
  BY <1>1 DEF WriteFreeze, PlayGoto, Goto
<1>4. PICK day \in c.day .. today :
        \/ UNCHANGED <<streak, froze>>
        \/ /\ ~Marked(c.row, day)
           /\ streak' = [streak EXCEPT ![c.user].last = day,
                                       ![c.user].freezes = c.row.freezes - 1]
           /\ froze' = [froze EXCEPT ![c.user] = @ + 1]
  BY <1>1 DEF WriteFreeze
<1>5. day \in Nat /\ 1 <= day
  BY <1>2, <1>4 DEF GameBase, GameTables
<1>6. CASE UNCHANGED <<streak, froze>>
  BY <1>1, <1>2, <1>3, <1>6
<1>7. CASE /\ ~Marked(c.row, day)
           /\ streak' = [streak EXCEPT ![c.user].last = day,
                                       ![c.user].freezes = c.row.freezes - 1]
           /\ froze' = [froze EXCEPT ![c.user] = @ + 1]
  <2>1. PICK left \in Int : left = c.row.freezes - 1
    BY <1>2 DEF StreakRow
  <2>2. PICK row : row = [streak[c.user] EXCEPT !.last = day, !.freezes = left]
    OBVIOUS
  <2>3. /\ row \in StreakRow /\ row.current = streak[c.user].current /\ row.last = day
        /\ row.freezes = left
    BY <1>2, <1>5, <2>2 DEF StreakRow
  <2>4. streak' = [streak EXCEPT ![c.user] = row]
    BY <1>2, <1>7, <2>1, <2>2 DEF GameBase, GameTables, StreakRow
  <2> QED BY <1>1, <1>2, <1>3, <1>5, <1>7, <2>1, <2>3, <2>4
<1> QED BY <1>4, <1>6, <1>7

-----------------------------------------------------------------------------
(* The steps.                                                              *)

\* The tables other than the rows that a check-in writes.
OthersStay == UNCHANGED <<today, board, playLeft, granted, muddled, mixed>>

\* A request of `u` begins as the call `q`.
Starts(s, u, q) ==
  /\ play' = [play EXCEPT ![s] = q] /\ play[s] = Idle
  /\ playLeft' \in Nat /\ muddled' = muddled \cup ({u} \cap Busy(play))
  /\ UNCHANGED <<today, streak, xp, badge, board, daily, granted, froze, mixed>>

LEMMA RequestIs ==
  ASSUME GameBase, NEW s \in Slots, NEW u \in Users,
         CheckIn(s, u) \/ UseStreakFreeze(s, u) \/ GetMyRank(s, u)
  PROVE  \E q \in GameCall :
           /\ play' = [play EXCEPT ![s] = q] /\ play[s] = Idle /\ q.user = u /\ GameCallOK(q)
           /\ \/ q \in CheckInCall /\ q.pc = "look"
              \/ q \in FreezeCall /\ q.pc = "freeze" /\ q.row = streak[u]
              \/ q \in RankCall /\ q.pc = "nearby" /\ board[u] # None /\ q.entry = board[u]
           /\ playLeft' \in Nat /\ muddled' = muddled \cup ({u} \cap Busy(play))
           /\ UNCHANGED <<today, streak, xp, badge, board, daily, granted, froze, mixed>>
<1>0. today \in Nat /\ 1 <= today
  BY DEF GameBase, GameTables
<1>2. CASE CheckIn(s, u)
  <2>1. PICK night \in BOOLEAN :
          BeginFor(s, u, [pc |-> "look", user |-> u, day |-> today, night |-> night, current |-> 0,
                          longest |-> 0, badges |-> <<>>, amount |-> 0, total |-> 0])
    BY <1>2 DEF CheckIn
  <2>2. PICK q : q = [pc |-> "look", user |-> u, day |-> today, night |-> night, current |-> 0,
                      longest |-> 0, badges |-> <<>>, amount |-> 0, total |-> 0]
    OBVIOUS
  <2>3. <<>> \in Seq(Badges)
    OBVIOUS
  <2>4. q \in CheckInCall /\ q.pc = "look" /\ q.user = u /\ q.day = today
    BY <1>0, <2>2, <2>3 DEF CheckInCall
  <2>5. GameCallOK(q)
    BY <1>0, <2>4 DEF GameCallOK, KnowsRow, CheckInLabels, BadgeLabels
  <2>6. q \in GameCall
    BY <2>4 DEF GameCall
  <2>7. Starts(s, u, q)
    BY <2>1, <2>2 DEF BeginFor, Begin, Free, Starts, GameBase, GameTables
  <2> QED BY <2>4, <2>5, <2>6, <2>7 DEF Starts
<1>3. CASE UseStreakFreeze(s, u)
  <2>1. streak[u] # None /\ streak[u].freezes > 0 /\ streak[u] \in StreakRow
    BY <1>3 DEF UseStreakFreeze, GameBase, GameTables
  <2>2. PICK q : q = [pc |-> "freeze", user |-> u, day |-> today, row |-> streak[u]]
    OBVIOUS
  <2>3. q \in FreezeCall /\ q.pc = "freeze" /\ q.user = u /\ q.row = streak[u] /\ q.day = today
    BY <1>0, <2>1, <2>2 DEF FreezeCall
  <2>4. GameCallOK(q)
    BY <1>0, <2>1, <2>3 DEF GameCallOK, KnowsRow, CheckInLabels, BadgeLabels
  <2>5. Starts(s, u, q)
    BY <1>3, <2>2 DEF UseStreakFreeze, BeginFor, Begin, Free, Starts, GameBase, GameTables
  <2>6. q \in GameCall
    BY <2>3 DEF GameCall
  <2> QED BY <2>3, <2>4, <2>5, <2>6 DEF Starts
<1>4. CASE GetMyRank(s, u)
  <2>1. board[u] # None /\ board[u] \in BoardRow
    BY <1>4 DEF GetMyRank, GameBase, GameTables
  <2>2. PICK q : q = [pc |-> "nearby", user |-> u, entry |-> board[u]]
    OBVIOUS
  <2>3. q \in RankCall /\ q.pc = "nearby" /\ q.user = u /\ q.entry = board[u]
    BY <2>1, <2>2 DEF RankCall
  <2>4. GameCallOK(q)
    BY <2>3 DEF GameCallOK, KnowsRow, CheckInLabels, BadgeLabels
  <2>5. Starts(s, u, q)
    BY <1>4, <2>2 DEF GetMyRank, BeginFor, Begin, Free, Starts, GameBase, GameTables
  <2>6. q \in GameCall
    BY <2>3 DEF GameCall
  <2> QED BY <2>1, <2>3, <2>4, <2>5, <2>6 DEF Starts
<1> QED BY <1>2, <1>3, <1>4

LEMMA RequestBase ==
  ASSUME GameBase, NEW s \in Slots, NEW u \in Users,
         CheckIn(s, u) \/ UseStreakFreeze(s, u) \/ GetMyRank(s, u)
  PROVE  GameBase'
<1>1. PICK q \in GameCall :
        /\ play' = [play EXCEPT ![s] = q] /\ q.user = u /\ GameCallOK(q)
        /\ playLeft' \in Nat /\ muddled' = muddled \cup ({u} \cap Busy(play))
        /\ UNCHANGED <<today, streak, xp, badge, board, daily, granted, froze, mixed>>
  BY RequestIs
<1>2. RowsStay
  BY <1>1 DEF RowsStay
<1>3. GameCallOK(q)'
  BY <1>1, <1>2, PlayerKnows
<1>4. GameTables'
  BY <1>1 DEF GameBase, GameTables
<1> QED BY <1>1, <1>2, <1>3, <1>4, PlayMoves, OneBegins DEF GameBase

LEMMA RankedFinite == IsFiniteSet(Ranked) /\ Cardinality(Ranked) \in Nat
<1>1. Ranked \subseteq Users
  BY DEF Ranked
<1> QED BY <1>1, NoneApart, FS_Subset, FS_CardinalityType

LEMMA SnapshotType ==
  ASSUME xp \in [Users -> XpRow \cup {None}], NEW rank \in Rankings
  PROVE  Snapshot(rank) \in [Users -> BoardRow \cup {None}]
<1>1. PICK n \in Nat : n = Cardinality(Ranked)
  BY RankedFinite
<1>2. rank \in [Ranked -> 1 .. n]
  BY <1>1 DEF Rankings
<1>3. ASSUME NEW u \in Users, u \in Ranked
      PROVE [rank |-> rank[u], total |-> xp[u].total, level |-> xp[u].level] \in BoardRow
  <2>1. rank[u] \in Nat
    BY <1>2, <1>3
  <2>2. xp[u] \in XpRow
    BY <1>3 DEF Ranked
  <2> QED BY <2>1, <2>2 DEF XpRow, BoardRow
<1> QED BY <1>3 DEF Snapshot

LEMMA RefreshIs ==
  ASSUME GameBase, NEW s \in Slots, RefreshLeaderboardCache(s)
  PROVE  \E rank \in Rankings, q \in RefreshCall :
           /\ play' = [play EXCEPT ![s] = q] /\ play[s] = Idle
           /\ q.pc = "refresh" /\ q.user = None /\ q.rows = Snapshot(rank)
           /\ playLeft' \in Nat
           /\ mixed' = (mixed \/ \E t \in Slots : play[t].pc = "refresh")
           /\ UNCHANGED <<today, streak, xp, badge, board, daily, granted, froze, muddled>>
<1>1. PICK rank \in Rankings :
        Begin(play, playLeft, s, [pc |-> "refresh", user |-> None, rows |-> Snapshot(rank)])
  BY DEF RefreshLeaderboardCache
<1>2. PICK q : q = [pc |-> "refresh", user |-> None, rows |-> Snapshot(rank)]
  OBVIOUS
<1>3. Snapshot(rank) \in [Users -> BoardRow \cup {None}]
  BY SnapshotType DEF GameBase, GameTables
<1>4. q \in RefreshCall /\ q.pc = "refresh" /\ q.user = None /\ q.rows = Snapshot(rank)
  BY <1>2, <1>3 DEF RefreshCall
<1>5. /\ mixed' = (mixed \/ \E t \in Slots : play[t].pc = "refresh")
      /\ UNCHANGED <<today, streak, xp, badge, board, daily, granted, froze, muddled>>
  BY DEF RefreshLeaderboardCache
<1>6. playLeft' \in Nat /\ play' = [play EXCEPT ![s] = q] /\ play[s] = Idle
  BY <1>1, <1>2 DEF Begin, Free, GameBase, GameTables
<1> QED BY <1>4, <1>5, <1>6

LEMMA RefreshBase ==
  ASSUME GameBase, NEW s \in Slots, RefreshLeaderboardCache(s)
  PROVE  GameBase'
<1>1. PICK q \in RefreshCall :
        /\ play' = [play EXCEPT ![s] = q] /\ q.pc = "refresh" /\ q.user = None
        /\ playLeft' \in Nat /\ mixed' \in BOOLEAN
        /\ UNCHANGED <<today, streak, xp, badge, board, daily, granted, froze, muddled>>
  BY RefreshIs
<1>2. RowsStay
  BY <1>1 DEF RowsStay
<1>3. q \in GameCall /\ GameCallOK(q)'
  BY <1>1 DEF GameCall, GameCallOK, KnowsRow, CheckInLabels, BadgeLabels
<1>4. GameTables'
  BY <1>1 DEF GameBase, GameTables
<1>5. (\A u \in Users \ muddled : OneCall(u))'
  <2>1. PICK r : r = q
    OBVIOUS
  <2>2. r.user = None /\ muddled \subseteq muddled' /\ play' = [play EXCEPT ![s] = r]
    BY <1>1, <2>1
  <2> QED BY <2>2, OneStays
<1> QED BY <1>1, <1>2, <1>3, <1>4, <1>5, PlayMoves DEF GameBase

\* A step of one call that only writes tables.
LEMMA BaseMoves ==
  ASSUME GameBase, NEW s \in Slots, NEW q \in GameCall, play' = [play EXCEPT ![s] = q],
         GameCallOK(q)', q.user = play[s].user \/ q.user = None, muddled \subseteq muddled',
         RowsStay, GameTables'
  PROVE  GameBase'
BY PlayMoves, OneStays DEF GameBase

LEMMA IdleKnows == \A q : q = Idle => GameCallOK(q)'
BY IdlePlay DEF GameCallOK, KnowsRow, CheckInLabels, BadgeLabels

\* A check-in that goes on knows its row.
LEMMA CheckInKnows ==
  ASSUME NEW q \in CheckInCall, 1 <= q.day, q.pc \in BadgeLabels => q.badges # <<>>,
         q.pc \in KnowsRow => streak'[q.user] # None
  PROVE  GameCallOK(q)'
BY DEF GameCallOK, CheckInCall, CheckInLabels

LEMMA LookBase ==
  ASSUME GameBase, NEW s \in Slots, Look(s)
  PROVE  GameBase'
<1>1. PICK c \in CheckInCall, q \in GameCall :
        /\ c = play[s] /\ c.pc = "look" /\ GameCallOK(c)
        /\ play' = [play EXCEPT ![s] = q]
        /\ \/ q = Idle
           \/ q \in CheckInCall /\ q.pc = "create" /\ q.user = c.user /\ q.day = c.day
           \/ streak[c.user] # None /\ PlannedFrom(c, q, streak[c.user])
  BY LookIs
<1>2. UNCHANGED <<today, streak, xp, badge, board, playLeft, daily, granted, froze, muddled, mixed>>
  BY DEF Look, PlayGoto, Goto, gameHistory
<1>3. RowsStay /\ GameTables'
  BY <1>2 DEF RowsStay, GameBase, GameTables
<1>4. 1 <= c.day
  BY <1>1 DEF GameCallOK, CheckInLabels
<1>5. GameCallOK(q)' /\ (q.user = c.user \/ q.user = None)
  <2>1. CASE q = Idle
    BY <2>1, IdleKnows, IdlePlay
  <2>2. CASE q \in CheckInCall /\ q.pc = "create" /\ q.user = c.user /\ q.day = c.day
    BY <1>4, <2>2, CheckInKnows DEF KnowsRow, BadgeLabels
  <2>3. CASE streak[c.user] # None /\ PlannedFrom(c, q, streak[c.user])
    BY <1>2, <1>4, <2>3, CheckInKnows DEF PlannedFrom, KnowsRow, BadgeLabels
  <2> QED BY <1>1, <2>1, <2>2, <2>3
<1> QED BY <1>1, <1>2, <1>3, <1>5, BaseMoves

LEMMA CreateBase ==
  ASSUME GameBase, NEW s \in Slots, CreateStreak(s)
  PROVE  GameBase'
<1>1. PICK c \in CheckInCall, q \in GameCall :
        /\ c = play[s] /\ c.pc = "create" /\ GameCallOK(c)
        /\ play' = [play EXCEPT ![s] = q]
        /\ \/ q = Idle /\ UNCHANGED streak
           \/ /\ streak' = [streak EXCEPT ![c.user] = FirstRow]
              /\ PlannedFrom(c, q, FirstRow)
  BY CreateIs
<1>2. UNCHANGED <<today, xp, badge, board, playLeft, daily, granted, froze, muddled, mixed>>
  BY DEF CreateStreak, PlayGoto, Goto, gameHistory
<1>3. 1 <= c.day /\ c.user \in Users
  BY <1>1 DEF GameCallOK, CheckInLabels, CheckInCall
<1>4. CASE q = Idle /\ UNCHANGED streak
  <2>1. RowsStay /\ GameTables'
    BY <1>2, <1>4 DEF RowsStay, GameBase, GameTables
  <2> QED BY <1>1, <1>2, <1>4, <2>1, IdleKnows, IdlePlay, BaseMoves
<1>5. CASE streak' = [streak EXCEPT ![c.user] = FirstRow] /\ PlannedFrom(c, q, FirstRow)
  <2>1. \A u \in Users : streak'[u] = IF u = c.user THEN FirstRow ELSE streak[u]
    BY <1>5 DEF GameBase, GameTables
  <2>2. RowsStay
    BY <2>1, FirstRowType DEF RowsStay
  <2>3. FirstRow.freezes >= 0
    BY FirstRowType, NoneApart
  <2>6. streak' \in [Users -> StreakRow \cup {None}]
    BY <1>5, FirstRowType DEF GameBase, GameTables
  <2>4. GameTables'
    BY <1>2, <2>1, <2>3, <2>6 DEF GameBase, GameTables
  <2>5. GameCallOK(q)'
    BY <1>3, <1>5, <2>1, FirstRowType, CheckInKnows DEF PlannedFrom, KnowsRow, BadgeLabels
  <2> QED BY <1>1, <1>2, <1>5, <2>2, <2>4, <2>5, BaseMoves DEF PlannedFrom
<1> QED BY <1>1, <1>4, <1>5

LEMMA WriteStreakBase ==
  ASSUME GameBase, NEW s \in Slots, WriteStreak(s)
  PROVE  GameBase'
<1>1. PICK c \in CheckInCall, q \in CheckInCall, row \in StreakRow :
        /\ c = play[s] /\ c.pc = "streak" /\ GameCallOK(c) /\ streak[c.user] # None
        /\ q.pc = "xp" /\ SameCheckIn(c, q)
        /\ play' = [play EXCEPT ![s] = q]
        /\ streak' = [streak EXCEPT ![c.user] = row]
        /\ row.freezes = streak[c.user].freezes
  BY WriteStreakIs
<1>2. UNCHANGED <<today, xp, badge, board, playLeft, daily, granted, froze, muddled, mixed>>
  BY DEF WriteStreak, PlayGoto, Goto, gameHistory
<1>3. 1 <= c.day /\ c.user \in Users
  BY <1>1 DEF GameCallOK, CheckInLabels, CheckInCall
<1>4. \A u \in Users : streak'[u] = IF u = c.user THEN row ELSE streak[u]
  BY <1>1 DEF GameBase, GameTables
<1>5. row # None /\ row.freezes >= 0
  BY <1>1, <1>3, NoneApart DEF GameBase, GameTables
<1>6. RowsStay
  BY <1>4, <1>5 DEF RowsStay
<1>7. streak' \in [Users -> StreakRow \cup {None}]
  BY <1>1 DEF GameBase, GameTables
<1>8. GameTables'
  BY <1>2, <1>4, <1>5, <1>7 DEF GameBase, GameTables
<1>9. GameCallOK(q)'
  BY <1>1, <1>3, <1>4, <1>5, CheckInKnows DEF SameCheckIn, BadgeLabels
<1> QED BY <1>1, <1>2, <1>6, <1>8, <1>9, BaseMoves DEF SameCheckIn, GameCall

LEMMA BadgeBase ==
  ASSUME GameBase, NEW s \in Slots, FindBadge(s) \/ EarnBadge(s)
  PROVE  GameBase'
<1>1. PICK c \in CheckInCall, q \in GameCall :
        /\ c = play[s] /\ c.pc \in {"find", "earn"} /\ GameCallOK(c) /\ c.badges # <<>>
        /\ play' = [play EXCEPT ![s] = q]
        /\ \/ q = Idle
           \/ /\ SameCheckIn(c, q) /\ q.pc \in {"find", "earn", "badgeXp", "streak"}
              /\ q.pc # "streak" => q.badges # <<>>
  BY BadgeIs
<1>2. UNCHANGED <<today, streak, xp, board, playLeft, daily, granted, froze, muddled, mixed>>
  BY DEF FindBadge, EarnBadge, PlayGoto, Goto, gameHistory
<1>3. 1 <= c.day /\ c.user \in Users /\ streak[c.user] # None
  BY <1>1 DEF GameCallOK, CheckInLabels, CheckInCall, KnowsRow
<1>4. badge' \subseteq Users \X Badges
  <2>1. CASE FindBadge(s)
    BY <2>1 DEF FindBadge, GameBase, GameTables
  <2>2. CASE EarnBadge(s)
    <3>1. Head(c.badges) \in Badges
      BY <1>1, HeadTailProperties DEF CheckInCall
    <3> QED BY <1>1, <1>3, <2>2, <3>1 DEF EarnBadge, GameBase, GameTables
  <2> QED BY <2>1, <2>2
<1>5. RowsStay /\ GameTables'
  BY <1>2, <1>4 DEF RowsStay, GameBase, GameTables
<1>6. GameCallOK(q)' /\ (q.user = c.user \/ q.user = None)
  <2>1. CASE q = Idle
    BY <2>1, IdleKnows, IdlePlay
  <2>2. CASE /\ SameCheckIn(c, q) /\ q.pc \in {"find", "earn", "badgeXp", "streak"}
             /\ q.pc # "streak" => q.badges # <<>>
    BY <1>2, <1>3, <2>2, CheckInKnows DEF SameCheckIn, BadgeLabels
  <2> QED BY <1>1, <2>1, <2>2
<1> QED BY <1>1, <1>2, <1>5, <1>6, BaseMoves

LEMMA AddXpBase ==
  ASSUME GameBase, NEW s \in Slots, AddXp(s)
  PROVE  GameBase'
<1>1. PICK c \in CheckInCall, q \in GameCall, row \in XpRow, amount \in Nat :
        /\ c = play[s] /\ c.pc \in {"badgeXp", "xp"} /\ GameCallOK(c)
        /\ play' = [play EXCEPT ![s] = q]
        /\ xp' = [xp EXCEPT ![c.user] = row]
        /\ amount = IF c.pc = "badgeXp" THEN Reward[Head(c.badges)] ELSE c.amount
        /\ row.total = IF xp[c.user] = None THEN amount ELSE xp[c.user].total + amount
        /\ daily' = IF c.pc = "xp" THEN [daily EXCEPT ![c.user] = Append(@, <<c.day, amount>>)]
                    ELSE daily
        /\ c.pc = "xp" =>
             \/ q = Idle
             \/ SameCheckIn(c, q) /\ q.pc = "level"
        /\ c.pc = "badgeXp" =>
             /\ SameCheckIn(c, q) /\ q.pc \in {"find", "badgeLevel", "streak"}
             /\ q.pc # "streak" => q.badges # <<>>
             /\ q.pc = "badgeLevel" => q.badges = c.badges
             /\ q.pc # "badgeLevel" => q.badges = Tail(c.badges)
  BY AddXpIs
<1>2. UNCHANGED <<today, streak, badge, board, playLeft, granted, froze, muddled, mixed>>
  BY DEF AddXp, PlayGoto, Goto
<1>3. 1 <= c.day /\ c.user \in Users /\ c.day \in Nat /\ streak[c.user] # None
  BY <1>1 DEF GameCallOK, CheckInLabels, CheckInCall, KnowsRow
<1>4. xp' \in [Users -> XpRow \cup {None}]
  BY <1>1 DEF GameBase, GameTables
<1>5. daily' \in [Users -> Seq(Nat \X Nat)]
  <2>1. PICK new : new = Append(daily[c.user], <<c.day, amount>>)
    OBVIOUS
  <2>2. new \in Seq(Nat \X Nat)
    BY <1>3, <2>1, AppendProperties DEF GameBase, GameTables
  <2>3. daily' = daily \/ daily' = [daily EXCEPT ![c.user] = new]
    BY <1>1, <2>1
  <2> QED BY <2>2, <2>3 DEF GameBase, GameTables
<1>6. RowsStay /\ GameTables'
  BY <1>2, <1>4, <1>5 DEF RowsStay, GameBase, GameTables
<1>7. GameCallOK(q)' /\ (q.user = c.user \/ q.user = None)
  <2>1. CASE q = Idle
    BY <2>1, IdleKnows, IdlePlay
  <2>2. CASE SameCheckIn(c, q) /\ (q.pc \in BadgeLabels => q.badges # <<>>)
    BY <1>2, <1>3, <2>2, CheckInKnows DEF SameCheckIn
  <2> QED BY <1>1, <2>1, <2>2 DEF BadgeLabels
<1> QED BY <1>1, <1>2, <1>6, <1>7, BaseMoves

LEMMA WriteLevelBase ==
  ASSUME GameBase, LevelInv, NEW s \in Slots, WriteLevel(s)
  PROVE  GameBase'
<1>1. PICK c \in CheckInCall, q \in GameCall, row \in XpRow :
        /\ c = play[s] /\ c.pc \in {"badgeLevel", "level"} /\ GameCallOK(c)
        /\ play' = [play EXCEPT ![s] = q]
        /\ xp' = [xp EXCEPT ![c.user] = row]
        /\ c.pc = "level" => q = Idle
        /\ c.pc = "badgeLevel" =>
             /\ SameCheckIn(c, q) /\ q.pc \in {"find", "streak"}
             /\ q.pc # "streak" => q.badges # <<>>
  BY WriteLevelIs
<1>2. UNCHANGED <<today, streak, badge, board, playLeft, daily, granted, froze, muddled, mixed>>
  BY DEF WriteLevel, PlayGoto, Goto, gameHistory
<1>3. 1 <= c.day /\ c.user \in Users /\ streak[c.user] # None
  BY <1>1 DEF GameCallOK, CheckInLabels, CheckInCall, KnowsRow
<1>4. xp' \in [Users -> XpRow \cup {None}]
  BY <1>1 DEF GameBase, GameTables
<1>5. RowsStay /\ GameTables'
  BY <1>2, <1>4 DEF RowsStay, GameBase, GameTables
<1>6. GameCallOK(q)' /\ (q.user = c.user \/ q.user = None)
  <2>1. CASE q = Idle
    BY <2>1, IdleKnows, IdlePlay
  <2>2. CASE SameCheckIn(c, q) /\ (q.pc \in BadgeLabels => q.badges # <<>>)
    BY <1>2, <1>3, <2>2, CheckInKnows DEF SameCheckIn
  <2> QED BY <1>1, <2>1, <2>2 DEF BadgeLabels
<1> QED BY <1>1, <1>2, <1>5, <1>6, BaseMoves

LEMMA WriteFreezeBase ==
  ASSUME GameBase, NEW s \in Slots, WriteFreeze(s)
  PROVE  GameBase'
<1>1. PICK c \in FreezeCall :
        /\ c = play[s] /\ GameCallOK(c) /\ streak[c.user] # None /\ c.pc = "freeze"
        /\ play' = [play EXCEPT ![s] = Idle]
        /\ \/ UNCHANGED <<streak, froze>>
           \/ \E row \in StreakRow :
                /\ streak' = [streak EXCEPT ![c.user] = row]
                /\ row.freezes = c.row.freezes - 1
                /\ froze' = [froze EXCEPT ![c.user] = @ + 1]
  BY WriteFreezeIs
<1>2. UNCHANGED <<today, xp, badge, board, playLeft, daily, granted, muddled, mixed>>
  BY DEF WriteFreeze, PlayGoto, Goto
<1>3. c.user \in Users /\ c.row.freezes \in Int /\ c.row.freezes > 0
  BY <1>1 DEF FreezeCall, StreakRow, GameCallOK
<1>4. RowsStay /\ GameTables'
  <2>1. CASE UNCHANGED <<streak, froze>>
    BY <1>2, <2>1 DEF RowsStay, GameBase, GameTables
  <2>2. ASSUME NEW row \in StreakRow, streak' = [streak EXCEPT ![c.user] = row],
               row.freezes = c.row.freezes - 1, froze' = [froze EXCEPT ![c.user] = @ + 1]
        PROVE  RowsStay /\ GameTables'
    <3>1. \A u \in Users : streak'[u] = IF u = c.user THEN row ELSE streak[u]
      BY <2>2 DEF GameBase, GameTables
    <3>2. row # None /\ row.freezes >= 0
      BY <1>3, <2>2, NoneApart
    <3>3. streak' \in [Users -> StreakRow \cup {None}]
      BY <2>2 DEF GameBase, GameTables
    <3>6. froze \in [Users -> Nat]
      BY DEF GameBase, GameTables
    <3>7. PICK n \in Nat : n = froze[c.user]
      BY <1>3, <3>6
    <3>8. froze' = [froze EXCEPT ![c.user] = n + 1] /\ n + 1 \in Nat
      BY <2>2, <3>7
    <3>4. froze' \in [Users -> Nat]
      BY <3>6, <3>8
    <3>5. RowsStay
      BY <3>1, <3>2 DEF RowsStay
    <3> QED BY <1>2, <3>1, <3>2, <3>3, <3>4, <3>5 DEF GameBase, GameTables
  <2> QED BY <1>1, <2>1, <2>2
<1> QED BY <1>1, <1>2, <1>4, IdleKnows, IdlePlay, BaseMoves

LEMMA WriteBoardBase ==
  ASSUME GameBase, NEW s \in Slots, WriteBoard(s)
  PROVE  GameBase'
<1>1. PICK c \in RefreshCall : c = play[s]
  BY CallOf, GameKinds DEF WriteBoard
<1>2. /\ play' = [play EXCEPT ![s] = Idle]
      /\ board' = [u \in Users |-> IF c.rows[u] = None THEN board[u] ELSE c.rows[u]]
      /\ UNCHANGED <<today, streak, xp, badge, playLeft, daily, granted, froze, muddled, mixed>>
  BY <1>1 DEF WriteBoard, PlayGoto, Goto, gameHistory
<1>3. c.rows \in [Users -> BoardRow \cup {None}]
  BY DEF RefreshCall
<1>4. board' \in [Users -> BoardRow \cup {None}]
  BY <1>2, <1>3 DEF GameBase, GameTables
<1>5. RowsStay /\ GameTables'
  BY <1>2, <1>4 DEF RowsStay, GameBase, GameTables
<1> QED BY <1>2, <1>5, IdleKnows, IdlePlay, BaseMoves

LEMMA EndBase ==
  ASSUME GameBase, NEW s \in Slots, AnswerMyRank(s) \/ GameDie(s)
  PROVE  GameBase'
<1>1. /\ play' = [play EXCEPT ![s] = Idle]
      /\ UNCHANGED <<today, streak, xp, badge, board, playLeft, daily, granted, froze, mixed>>
  BY DEF AnswerMyRank, GameDie, Die, PlayGoto, Goto, gameHistory
<1>2. PICK c \in GameCall : c = play[s]
  BY CallOf
<1>3. muddled \subseteq muddled' /\ muddled' \subseteq Users
  BY <1>2, GameKinds DEF AnswerMyRank, GameDie, gameHistory, GameBase, GameTables
<1>4. RowsStay /\ GameTables'
  BY <1>1, <1>3 DEF RowsStay, GameBase, GameTables
<1> QED BY <1>1, <1>3, <1>4, IdleKnows, IdlePlay, BaseMoves

LEMMA BaseStep == GameBase /\ LevelInv /\ [GameNext]_gameVars => GameBase'
<1> SUFFICES ASSUME GameBase, LevelInv, [GameNext]_gameVars PROVE GameBase'
  OBVIOUS
<1>1. CASE UNCHANGED gameVars \/ Midnight
  <2>1. /\ UNCHANGED <<streak, xp, badge, board, play, playLeft, daily, granted, froze, muddled, mixed>>
        /\ today' = today \/ today' = today + 1
    BY <1>1 DEF gameVars, Midnight, gameHistory
  <2>2. RowsStay
    BY <2>1 DEF RowsStay
  <2>3. GameTables'
    BY <2>1 DEF GameBase, GameTables
  <2>4. (\A u \in Users \ muddled : OneCall(u))'
    BY <2>1 DEF GameBase, OneCall
  <2> QED BY <2>1, <2>2, <2>3, <2>4, PlayStays DEF GameBase
<1>2. ASSUME NEW s \in Slots, GameRequest(s) PROVE GameBase'
  BY <1>2, RequestBase, RefreshBase DEF GameRequest
<1>3. ASSUME NEW s \in Slots, GameStep(s) PROVE GameBase'
  BY <1>3, LookBase, CreateBase, BadgeBase, AddXpBase, WriteLevelBase, WriteStreakBase,
     WriteFreezeBase, WriteBoardBase, EndBase DEF GameStep
<1>4. ASSUME NEW s \in Slots, GameDie(s) PROVE GameBase'
  BY <1>4, EndBase
<1> QED BY <1>1, <1>2, <1>3, <1>4 DEF GameNext

\* The rows of the three kinds of arrival.
LEMMA InitRows ==
  ASSUME GameInit, NEW u \in Users
  PROVE  \/ /\ streak[u] = None /\ xp[u] = None /\ daily[u] = <<>>
            /\ granted[u] = DEFAULT_FREEZE_COUNT
         \/ /\ streak[u] = NewStreakRow /\ xp[u] = NewXp /\ daily[u] = <<>>
            /\ granted[u] = SIGNUP_FREEZES
         \/ /\ streak[u] = [NewStreakRow EXCEPT !.current = 1, !.longest = 1, !.last = 1]
            /\ xp[u] = [total |-> DAILY_LOGIN, level |-> Level(DAILY_LOGIN)]
            /\ daily[u] = << <<1, DAILY_LOGIN>> >> /\ granted[u] = SIGNUP_FREEZES
<1>1. PICK arrival \in Arrivals :
       /\ streak = [v \in Users |->
            CASE arrival[v] = "seed" -> None
              [] arrival[v] = "signup" -> NewStreakRow
              [] arrival[v] = "veteran" ->
                   [NewStreakRow EXCEPT !.current = 1, !.longest = 1, !.last = 1]]
       /\ xp = [v \in Users |->
            CASE arrival[v] = "seed" -> None
              [] arrival[v] = "signup" -> NewXp
              [] arrival[v] = "veteran" -> [total |-> DAILY_LOGIN, level |-> Level(DAILY_LOGIN)]]
       /\ daily = [v \in Users |-> IF arrival[v] = "veteran" THEN << <<1, DAILY_LOGIN>> >>
                                   ELSE <<>>]
       /\ granted = [v \in Users |-> IF arrival[v] = "seed" THEN DEFAULT_FREEZE_COUNT
                                     ELSE SIGNUP_FREEZES]
  BY DEF GameInit
<1>2. arrival[u] \in {"seed", "signup", "veteran"}
  <2>1. Arrivals \subseteq [Users -> {"seed", "signup", "veteran"}]
    BY GameAssumption, Zenon
  <2> QED BY <2>1
<1>3. CASE arrival[u] = "seed"
  BY <1>1, <1>3
<1>4. CASE arrival[u] = "signup"
  BY <1>1, <1>4
<1>5. CASE arrival[u] = "veteran"
  BY <1>1, <1>5
<1> QED BY <1>2, <1>3, <1>4, <1>5

LEMMA NewRowType ==
  /\ NewStreakRow \in StreakRow /\ NewStreakRow.freezes = SIGNUP_FREEZES
  /\ NewStreakRow.last = 0 /\ NewStreakRow.current = 0
BY NoneApart DEF NewStreakRow, StreakRow, Never

LEMMA VeteranRow ==
  ASSUME NEW row, row = [NewStreakRow EXCEPT !.current = 1, !.longest = 1, !.last = 1]
  PROVE  /\ row \in StreakRow /\ row.freezes = SIGNUP_FREEZES /\ row.last = 1 /\ row.current = 1
BY NewRowType DEF StreakRow

LEMMA BaseInit == GameInit => GameBase
<1> SUFFICES ASSUME GameInit PROVE GameBase
  OBVIOUS
<1>1. /\ today = 2 /\ badge = {} /\ playLeft = MaxPlay /\ muddled = {} /\ mixed = FALSE
      /\ play = [s \in Slots |-> Idle] /\ froze = [u \in Users |-> 0]
  BY DEF GameInit
<1>2. ASSUME NEW u \in Users
      PROVE  /\ streak[u] \in StreakRow \cup {None} /\ xp[u] \in XpRow \cup {None}
             /\ daily[u] \in Seq(Nat \X Nat) /\ granted[u] \in Nat
             /\ streak[u] # None => streak[u].freezes >= 0
  <2>1. << <<1, DAILY_LOGIN>> >> \in Seq(Nat \X Nat) /\ <<>> \in Seq(Nat \X Nat)
    BY Thresholds
  <2>2. NewXp \in XpRow /\ [total |-> DAILY_LOGIN, level |-> Level(DAILY_LOGIN)] \in XpRow
    BY Thresholds, LevelReached DEF NewXp, XpRow
  <2>3. CASE streak[u] = None /\ xp[u] = None /\ daily[u] = <<>> /\ granted[u] = DEFAULT_FREEZE_COUNT
    BY <2>1, <2>3, NoneApart
  <2>4. CASE /\ streak[u] = NewStreakRow /\ xp[u] = NewXp /\ daily[u] = <<>>
             /\ granted[u] = SIGNUP_FREEZES
    BY <2>1, <2>2, <2>4, NewRowType, NoneApart
  <2>5. CASE /\ streak[u] = [NewStreakRow EXCEPT !.current = 1, !.longest = 1, !.last = 1]
             /\ xp[u] = [total |-> DAILY_LOGIN, level |-> Level(DAILY_LOGIN)]
             /\ daily[u] = << <<1, DAILY_LOGIN>> >> /\ granted[u] = SIGNUP_FREEZES
    <3>1. streak[u] \in StreakRow /\ streak[u].freezes = SIGNUP_FREEZES
      BY <2>5, VeteranRow
    <3> QED BY <2>1, <2>2, <2>5, <3>1, NoneApart
  <2> QED BY <2>3, <2>4, <2>5, InitRows
<1>3. /\ streak = [u \in Users |-> streak[u]] /\ xp = [u \in Users |-> xp[u]]
      /\ daily = [u \in Users |-> daily[u]] /\ granted = [u \in Users |-> granted[u]]
  BY DEF GameInit
<1>a. ASSUME NEW S, NEW f, f = [u \in Users |-> f[u]], \A u \in Users : f[u] \in S
      PROVE  f \in [Users -> S]
  BY <1>a
<1>b. /\ streak \in [Users -> StreakRow \cup {None}] /\ xp \in [Users -> XpRow \cup {None}]
      /\ daily \in [Users -> Seq(Nat \X Nat)] /\ granted \in [Users -> Nat]
  BY <1>2, <1>3, <1>a, Zenon
<1>4. GameTables
  <2>1. board \in [Users -> BoardRow \cup {None}] /\ froze \in [Users -> Nat]
    <3>1. PICK rank \in Rankings : board = Snapshot(rank)
      BY DEF GameInit
    <3>2. board \in [Users -> BoardRow \cup {None}]
      BY <1>b, <3>1, SnapshotType
    <3>3. froze = [u \in Users |-> 0]
      BY DEF GameInit
    <3> QED BY <3>2, <3>3
  <2>2. today \in Nat /\ 1 <= today
    BY <1>1
  <2>3. playLeft \in Nat
    BY <1>1, NoneApart
  <2>4. badge \subseteq Users \X Badges /\ muddled \subseteq Users /\ mixed \in BOOLEAN
    BY <1>1
  <2> QED BY <1>2, <1>b, <2>1, <2>2, <2>3, <2>4 DEF GameTables
<1>5. GameCallsOK
  BY <1>1, IdlePlay DEF GameCallsOK, GameCallOK, KnowsRow, CheckInLabels, BadgeLabels
<1>6. \A u \in Users : OneCall(u)
  BY <1>1, IdlePlay, NoneApart DEF OneCall
<1> QED BY <1>4, <1>5, <1>6 DEF GameBase

\* Every variable of the service has its type in every reachable state, also the
\* records of the calls in flight and the snapshot a refresh carries.
THEOREM GameTypes == GameSpec => []GameTypeOK
BY InitInv, StepInv, BaseInit, BaseStep, BaseGivesTypes, PTL DEF GameSpec

-----------------------------------------------------------------------------
(***************************************************************************)
(* A player whose calls do not overlap: what the row, the days paid and    *)
(* the freezes used have to do with the one call in flight.  `row` is the  *)
(* row of the player, `paid` what the check-ins paid, `used` and `given`   *)
(* the freezes, and `c` the call, or Idle when there is none.              *)
(***************************************************************************)
Bound == {"find", "earn", "badgeXp", "badgeLevel", "streak"}

Adds(row, paid, used, given, c) ==
  /\ row = None => used = 0 /\ given = DEFAULT_FREEZE_COUNT /\ paid = <<>>
  /\ row # None => /\ row.freezes + used = given
                   /\ \A i \in DOMAIN paid : paid[i][1] <= row.last
                   /\ row.current <= Len(paid) + (IF c.pc = "xp" THEN 1 ELSE 0)
  /\ \A i, j \in DOMAIN paid : i < j => paid[i][1] < paid[j][1]
  /\ c.pc = "freeze" => c.row = row
  /\ c.pc \in Bound => row.last < c.day /\ c.current <= Len(paid) + 1
  /\ c.pc = "xp" => row.last = c.day /\ \A i \in DOMAIN paid : paid[i][1] < c.day

Fits(u, c) == Adds(streak[u], daily[u], froze[u], granted[u], c)

PlayerOK(u) ==
  /\ \A s \in Slots : play[s].user = u => Fits(u, play[s])
  /\ (\A s \in Slots : play[s].user # u) => Fits(u, Idle)

PlayersInv == \A u \in Users \ muddled : PlayerOK(u)

\* Nothing of a player's is written.
LeavesAlone(u) == UNCHANGED <<streak[u], daily[u], froze[u], granted[u]>>

LEMMA PlayerStays ==
  ASSUME GameBase, NEW u \in Users, PlayerOK(u), LeavesAlone(u), NEW s \in Slots, NEW q,
         play' = [play EXCEPT ![s] = q], play[s].user # u, q.user # u
  PROVE  PlayerOK(u)'
<1>1. \A t \in Slots : play'[t] = IF t = s THEN q ELSE play[t]
  BY DEF GameBase, GameCallsOK
<1>2. \A c : Fits(u, c) => Adds(streak'[u], daily'[u], froze'[u], granted'[u], c)
  BY DEF Fits, LeavesAlone
<1>3. ASSUME NEW t \in Slots, play'[t].user = u
      PROVE  Adds(streak'[u], daily'[u], froze'[u], granted'[u], play'[t])
  <2>1. play'[t] = play[t] /\ play[t].user = u
    BY <1>1, <1>3
  <2> QED BY <1>2, <2>1 DEF PlayerOK
<1>4. (\A t \in Slots : play'[t].user # u) => Adds(streak'[u], daily'[u], froze'[u], granted'[u], Idle)
  <2>1. (\A t \in Slots : play'[t].user # u) => (\A t \in Slots : play[t].user # u)
    BY <1>1
  <2> QED BY <1>2, <2>1 DEF PlayerOK
<1> QED BY <1>3, <1>4 DEF PlayerOK, Fits

\* The one call of a player goes on as `q`, or ends.
LEMMA PlayerGoes ==
  ASSUME GameBase, NEW u \in Users, OneCall(u), NEW s \in Slots, NEW q,
         play' = [play EXCEPT ![s] = q], play[s].user = u, q.user = u \/ q = Idle,
         Adds(streak'[u], daily'[u], froze'[u], granted'[u], q)
  PROVE  PlayerOK(u)'
<1>1. \A t \in Slots : play'[t] = IF t = s THEN q ELSE play[t]
  BY DEF GameBase, GameCallsOK
<1>2. \A t \in Slots : t # s => play[t].user # u
  BY DEF OneCall
<1>3. ASSUME NEW t \in Slots, play'[t].user = u
      PROVE  Adds(streak'[u], daily'[u], froze'[u], granted'[u], play'[t])
  BY <1>1, <1>2, <1>3
<1>4. ASSUME \A t \in Slots : play'[t].user # u
      PROVE  Adds(streak'[u], daily'[u], froze'[u], granted'[u], Idle)
  <2>1. q.user # u
    BY <1>1, <1>4
  <2> QED BY <2>1
<1> QED BY <1>3, <1>4 DEF PlayerOK, Fits

\* The first call of a player begins.
LEMMA PlayerBegins ==
  ASSUME GameBase, NEW u \in Users, PlayerOK(u), u \notin Busy(play), NEW s \in Slots, NEW q,
         play' = [play EXCEPT ![s] = q], q.user = u, LeavesAlone(u),
         Fits(u, Idle) => Fits(u, q)
  PROVE  PlayerOK(u)'
<1>1. \A t \in Slots : play'[t] = IF t = s THEN q ELSE play[t]
  BY DEF GameBase, GameCallsOK
<1>2. \A t \in Slots : play[t].user # u
  BY NoneApart DEF Busy
<1>3. Fits(u, q)
  BY <1>2 DEF PlayerOK
<1>4. Adds(streak'[u], daily'[u], froze'[u], granted'[u], q)
  BY <1>3 DEF Fits, LeavesAlone
<1>5. ASSUME NEW t \in Slots, play'[t].user = u
      PROVE  Adds(streak'[u], daily'[u], froze'[u], granted'[u], play'[t])
  <2>1. t = s
    BY <1>1, <1>2, <1>5
  <2> QED BY <1>1, <1>4, <2>1
<1>6. ~ \A t \in Slots : play'[t].user # u
  BY <1>1
<1> QED BY <1>5, <1>6 DEF PlayerOK, Fits

-----------------------------------------------------------------------------
(* What a step of the player's own call makes of the sums.                 *)

\* A call that has not yet found a row, or no longer needs it.
LEMMA AddsFree ==
  ASSUME NEW row, NEW paid, NEW used, NEW given, NEW c, NEW q,
         Adds(row, paid, used, given, c), c.pc # "xp",
         q.pc \notin Bound \cup {"freeze", "xp"}
  PROVE  Adds(row, paid, used, given, q)
BY DEF Adds

\* A check-in plans what it will write.
LEMMA AddsPlan ==
  ASSUME NEW row \in StreakRow, NEW paid \in Seq(Nat \X Nat), NEW used, NEW given, NEW c, NEW q,
         Adds(row, paid, used, given, c), c.pc # "xp", ~Marked(row, q.day),
         q.day \in Nat, 1 <= q.day, q.current = NewStreak(row, q.day), q.pc \in Bound
  PROVE  Adds(row, paid, used, given, q)
<1>1. PICK n \in Nat, last \in Nat, m \in Nat : n = Len(paid) /\ last = row.last /\ m = row.current
  BY LenProperties DEF StreakRow
<1>2. row # None
  BY NoneApart
<1>3. m <= n
  BY <1>1, <1>2 DEF Adds
<1>4. last < q.day
  BY <1>1 DEF Marked, Never
<1>5. q.current <= n + 1
  BY <1>1, <1>3 DEF NewStreak
<1>6. q.pc # "xp" /\ q.pc # "freeze"
  BY DEF Bound
<1> QED BY <1>1, <1>2, <1>4, <1>5, <1>6 DEF Adds

\* It goes on with the same day and streak.
LEMMA AddsKeep ==
  ASSUME NEW row, NEW paid, NEW used, NEW given, NEW c, NEW q,
         Adds(row, paid, used, given, c), c.pc \in Bound, q.pc \in Bound,
         q.day = c.day, q.current = c.current
  PROVE  Adds(row, paid, used, given, q)
BY DEF Adds, Bound

\* It writes the streak; the day is paid next.
LEMMA AddsStreak ==
  ASSUME NEW row \in StreakRow, NEW new \in StreakRow, NEW paid \in Seq(Nat \X Nat), NEW used, NEW given,
         NEW c, NEW q, Adds(row, paid, used, given, c), c.pc = "streak", q.pc = "xp",
         c.day \in Nat, q.day = c.day,
         new.current = c.current, new.last = c.day, new.freezes = row.freezes
  PROVE  Adds(new, paid, used, given, q)
<1>1. row # None /\ new # None /\ row.last \in Nat
  BY NoneApart DEF StreakRow
<1>2. row.last < c.day /\ c.current <= Len(paid) + 1
  BY DEF Adds, Bound
<1>3. \A i \in DOMAIN paid : paid[i][1] <= row.last /\ paid[i][1] \in Nat
  BY <1>1 DEF Adds
<1>4. \A i \in DOMAIN paid : paid[i][1] < c.day /\ paid[i][1] <= c.day
  BY <1>1, <1>2, <1>3
<1> QED BY <1>1, <1>2, <1>4 DEF Adds, Bound

\* It pays the day.
LEMMA AddsDay ==
  ASSUME NEW row \in StreakRow, NEW paid \in Seq(Nat \X Nat), NEW amount \in Nat, NEW used, NEW given,
         NEW c, NEW q, Adds(row, paid, used, given, c), c.pc = "xp", c.day \in Nat,
         q.pc \notin Bound \cup {"freeze", "xp"}
  PROVE  Adds(row, Append(paid, <<c.day, amount>>), used, given, q)
<1>1. PICK n \in Nat, m \in Nat : n = Len(paid) /\ m = row.current
  BY LenProperties DEF StreakRow
<1>2. PICK more : more = Append(paid, <<c.day, amount>>)
  OBVIOUS
<1>3. /\ Len(more) = n + 1 /\ DOMAIN more = 1 .. n + 1 /\ DOMAIN paid = 1 .. n
      /\ \A i \in 1 .. n : more[i] = paid[i]
      /\ more[n + 1] = <<c.day, amount>>
  BY <1>1, <1>2, AppendProperties, LenProperties
<1>4. row # None /\ m <= n + 1 /\ row.last = c.day /\ (\A i \in 1 .. n : paid[i][1] < c.day)
  BY <1>1, <1>3, NoneApart DEF Adds
<1>5. \A i \in 1 .. n : more[i][1] < c.day /\ more[i][1] <= c.day
  <2>1. \A i \in 1 .. n : paid[i][1] \in Nat
    BY <1>3
  <2> QED BY <1>3, <1>4, <2>1
<1>6. more[n + 1][1] = c.day
  BY <1>3
<1>7. \A i \in DOMAIN more : more[i][1] <= row.last
  <2>1. ASSUME NEW i \in 1 .. n + 1 PROVE more[i][1] <= row.last
    <3>1. i \in 1 .. n \/ i = n + 1
      BY <2>1
    <3> QED BY <1>4, <1>5, <1>6, <3>1
  <2> QED BY <1>3, <2>1
<1>8. \A i, j \in DOMAIN more : i < j => more[i][1] < more[j][1]
  <2>1. ASSUME NEW i \in 1 .. n + 1, NEW j \in 1 .. n + 1, i < j
        PROVE  more[i][1] < more[j][1]
    <3>1. i \in 1 .. n
      BY <2>1
    <3>2. CASE j = n + 1
      BY <1>5, <1>6, <3>1, <3>2
    <3>3. CASE j \in 1 .. n
      <4>1. paid[i][1] < paid[j][1]
        BY <1>3, <2>1, <3>1, <3>3 DEF Adds
      <4> QED BY <1>3, <3>1, <3>3, <4>1
    <3> QED BY <2>1, <3>2, <3>3
  <2> QED BY <1>3, <2>1
<1>9. row.freezes + used = given
  BY <1>4 DEF Adds
<1>10. row.current <= Len(more) + 0
  BY <1>1, <1>3, <1>4
<1>11. more # <<>>
  BY <1>3
<1> QED BY <1>2, <1>3, <1>4, <1>7, <1>8, <1>9, <1>10 DEF Adds, Bound

\* A freeze is used.
LEMMA AddsFreeze ==
  ASSUME NEW row \in StreakRow, NEW new \in StreakRow, NEW paid \in Seq(Nat \X Nat),
         NEW used \in Nat, NEW given \in Nat, NEW c, NEW day \in Nat,
         Adds(row, paid, used, given, c), c.pc = "freeze", 1 <= day, ~Marked(c.row, day),
         new.current = row.current, new.last = day, new.freezes = c.row.freezes - 1
  PROVE  Adds(new, paid, used + 1, given, Idle)
<1>1. row # None /\ new # None /\ row.last \in Nat /\ row.freezes \in Int /\ c.row = row
  BY NoneApart DEF StreakRow, Adds
<1>2. row.last < day
  BY <1>1 DEF Marked, Never
<1>3. \A i \in DOMAIN paid : paid[i][1] <= row.last /\ paid[i][1] \in Nat
  BY <1>1 DEF Adds
<1>4. \A i \in DOMAIN paid : paid[i][1] <= day
  BY <1>1, <1>2, <1>3
<1>7. row.freezes + used = given
  BY <1>1 DEF Adds
<1>8. new.freezes = row.freezes - 1
  BY <1>1
<1>5. new.freezes + (used + 1) = given
  BY <1>1, <1>7, <1>8
<1>6. Idle.pc \notin Bound \cup {"xp", "freeze"}
  BY IdlePlay DEF Bound
<1> QED BY <1>1, <1>4, <1>5, <1>6 DEF Adds

-----------------------------------------------------------------------------
(* The steps preserve PlayersInv.                                          *)

\* The call `c` of a player, as what PlayersInv says of it.
LEMMA OwnCall ==
  ASSUME GameBase, PlayersInv, NEW s \in Slots, NEW c \in GameCall, c = play[s],
         c.user \in Users, c.user \notin muddled
  PROVE  /\ Adds(streak[c.user], daily[c.user], froze[c.user], granted[c.user], c)
         /\ OneCall(c.user)
BY DEF PlayersInv, PlayerOK, Fits, GameBase

\* A step of a call: it is enough to see to its own player.
LEMMA PlayersMove ==
  ASSUME GameBase, PlayersInv, NEW s \in Slots, NEW c \in GameCall, c = play[s], NEW q \in GameCall,
         play' = [play EXCEPT ![s] = q], q.user = c.user \/ q = Idle, UNCHANGED muddled,
         \A u \in Users : u # c.user => LeavesAlone(u),
         c.user \in Users \ muddled => Adds(streak'[c.user], daily'[c.user], froze'[c.user], granted'[c.user], q)
  PROVE  PlayersInv'
<1>1. ASSUME NEW u \in Users, u \notin muddled PROVE PlayerOK(u)'
  <2>1. PlayerOK(u) /\ OneCall(u)
    BY <1>1 DEF PlayersInv, GameBase
  <2>2. CASE u = c.user
    BY <1>1, <2>1, <2>2, PlayerGoes
  <2>3. CASE u # c.user
    <3>1. q.user # u
      BY <2>3, IdlePlay, NoneApart
    <3> QED BY <2>1, <2>3, <3>1, PlayerStays
  <2> QED BY <2>2, <2>3
<1> QED BY <1>1 DEF PlayersInv

LEMMA LookPlayers ==
  ASSUME GameBase, PlayersInv, NEW s \in Slots, Look(s)
  PROVE  PlayersInv'
<1>1. PICK c \in CheckInCall, q \in GameCall :
        /\ c = play[s] /\ c.pc = "look" /\ GameCallOK(c)
        /\ play' = [play EXCEPT ![s] = q]
        /\ \/ q = Idle
           \/ /\ q \in CheckInCall /\ q.pc = "create" /\ q.user = c.user /\ q.day = c.day
              /\ streak[c.user] = None
           \/ /\ streak[c.user] # None /\ ~Marked(streak[c.user], c.day)
              /\ PlannedFrom(c, q, streak[c.user])
  BY LookIs
<1>2. UNCHANGED <<streak, daily, froze, granted, muddled>>
  BY DEF Look, gameHistory
<1>3. c \in GameCall /\ c.user \in Users /\ c.day \in Nat /\ 1 <= c.day
  BY <1>1 DEF GameCall, CheckInCall, GameCallOK, CheckInLabels
<1>4. PICK u \in Users : u = c.user
  BY <1>3
<1>5. ASSUME u \notin muddled PROVE Adds(streak[u], daily[u], froze[u], granted[u], q)
  <2>1. Adds(streak[u], daily[u], froze[u], granted[u], c)
    BY <1>1, <1>3, <1>4, <1>5, OwnCall
  <2>2. CASE q = Idle \/ q.pc = "create"
    <3>1. q.pc \notin Bound \cup {"freeze", "xp"}
      BY <2>2, IdlePlay DEF Bound
    <3> QED BY <1>1, <2>1, <3>1, AddsFree
  <2>3. CASE /\ streak[c.user] # None /\ ~Marked(streak[c.user], c.day)
             /\ PlannedFrom(c, q, streak[c.user])
    <3>1. PICK row \in StreakRow : row = streak[u]
      BY <1>4, <2>3 DEF GameBase, GameTables
    <3>2. PICK paid \in Seq(Nat \X Nat) : paid = daily[u]
      BY DEF GameBase, GameTables
    <3>3. q.pc \in Bound /\ q.day \in Nat /\ 1 <= q.day /\ ~Marked(row, q.day)
          /\ q.current = NewStreak(row, q.day)
      BY <1>3, <1>4, <2>3, <3>1 DEF PlannedFrom, Bound
    <3>4. Adds(row, paid, froze[u], granted[u], c)
      BY <2>1, <3>1, <3>2
    <3>5. Adds(row, paid, froze[u], granted[u], q)
      BY <1>1, <3>3, <3>4, AddsPlan
    <3> QED BY <3>1, <3>2, <3>5
  <2> QED BY <1>1, <2>2, <2>3
<1>6. q.user = c.user \/ q = Idle
  BY <1>1 DEF PlannedFrom
<1>7. \A v \in Users : LeavesAlone(v)
  BY <1>2 DEF LeavesAlone
<1> QED BY <1>1, <1>2, <1>3, <1>4, <1>5, <1>6, <1>7, PlayersMove

LEMMA CreatePlayers ==
  ASSUME GameBase, PlayersInv, NEW s \in Slots, CreateStreak(s)
  PROVE  PlayersInv'
<1>1. PICK c \in CheckInCall, q \in GameCall :
        /\ c = play[s] /\ c.pc = "create" /\ GameCallOK(c)
        /\ play' = [play EXCEPT ![s] = q]
        /\ \/ q = Idle /\ UNCHANGED streak
           \/ /\ streak[c.user] = None
              /\ streak' = [streak EXCEPT ![c.user] = FirstRow]
              /\ PlannedFrom(c, q, FirstRow)
  BY CreateIs
<1>2. UNCHANGED <<daily, froze, granted, muddled>>
  BY DEF CreateStreak, gameHistory
<1>3. c \in GameCall /\ c.user \in Users /\ c.day \in Nat /\ 1 <= c.day
  BY <1>1 DEF GameCall, CheckInCall, GameCallOK, CheckInLabels
<1>4. PICK u \in Users : u = c.user
  BY <1>3
<1>a. \A v \in Users : v # u => LeavesAlone(v)
  BY <1>1, <1>2, <1>4 DEF LeavesAlone, GameBase, GameTables
<1>b. q.user = c.user \/ q = Idle
  BY <1>1 DEF PlannedFrom
<1>5. ASSUME u \notin muddled PROVE Adds(streak'[u], daily[u], froze[u], granted[u], q)
  <2>1. Adds(streak[u], daily[u], froze[u], granted[u], c)
    BY <1>1, <1>3, <1>4, <1>5, OwnCall
  <2>2. CASE q = Idle /\ UNCHANGED streak
    <3>1. q.pc \notin Bound \cup {"freeze", "xp"}
      BY <2>2, IdlePlay DEF Bound
    <3> QED BY <1>1, <2>1, <2>2, <3>1, AddsFree
  <2>3. CASE /\ streak[c.user] = None /\ PlannedFrom(c, q, FirstRow)
             /\ streak' = [streak EXCEPT ![c.user] = FirstRow]
    <3>1. streak'[u] = FirstRow
      BY <1>4, <2>3 DEF GameBase, GameTables
    <3>2. PICK paid \in Seq(Nat \X Nat) : paid = daily[u]
      BY DEF GameBase, GameTables
    <3>3. paid = <<>> /\ froze[u] = 0 /\ granted[u] = DEFAULT_FREEZE_COUNT
      BY <1>4, <2>1, <2>3, <3>2 DEF Adds
    <3>4. Adds(FirstRow, paid, froze[u], granted[u], Idle)
      <4>1. DOMAIN paid = {} /\ Len(paid) = 0
        BY <3>3
      <4> QED BY <3>3, <4>1, FirstRowType, NoneApart, IdlePlay DEF Adds, Bound
    <3>5. q.pc \in Bound /\ q.day \in Nat /\ 1 <= q.day /\ q.current = NewStreak(FirstRow, q.day)
      BY <1>3, <1>4, <2>3 DEF PlannedFrom, Bound
    <3>6. ~Marked(FirstRow, q.day)
      BY FirstRowType DEF Marked
    <3>7. Adds(FirstRow, paid, froze[u], granted[u], q)
      BY <3>4, <3>5, <3>6, FirstRowType, IdlePlay, AddsPlan
    <3> QED BY <3>1, <3>2, <3>7
  <2> QED BY <1>1, <2>2, <2>3
<1> QED BY <1>1, <1>2, <1>3, <1>4, <1>5, <1>a, <1>b, PlayersMove

LEMMA WriteStreakPlayers ==
  ASSUME GameBase, PlayersInv, NEW s \in Slots, WriteStreak(s)
  PROVE  PlayersInv'
<1>1. PICK c \in CheckInCall, q \in CheckInCall, row \in StreakRow :
        /\ c = play[s] /\ c.pc = "streak" /\ streak[c.user] # None
        /\ q.pc = "xp" /\ SameCheckIn(c, q)
        /\ play' = [play EXCEPT ![s] = q]
        /\ streak' = [streak EXCEPT ![c.user] = row]
        /\ row.current = c.current /\ row.last = c.day
        /\ row.freezes = streak[c.user].freezes
  BY WriteStreakIs
<1>2. UNCHANGED <<daily, froze, granted, muddled>>
  BY DEF WriteStreak, gameHistory
<1>3. c \in GameCall /\ q \in GameCall /\ c.user \in Users /\ c.day \in Nat
  BY DEF GameCall, CheckInCall
<1>4. PICK u \in Users : u = c.user
  BY <1>3
<1>a. \A v \in Users : v # u => LeavesAlone(v)
  BY <1>1, <1>2, <1>4 DEF LeavesAlone, GameBase, GameTables
<1>5. ASSUME u \notin muddled PROVE Adds(streak'[u], daily[u], froze[u], granted[u], q)
  <2>1. Adds(streak[u], daily[u], froze[u], granted[u], c)
    BY <1>1, <1>3, <1>4, <1>5, OwnCall
  <2>2. streak'[u] = row
    BY <1>1, <1>4 DEF GameBase, GameTables
  <2>3. PICK old \in StreakRow : old = streak[u]
    BY <1>1, <1>4 DEF GameBase, GameTables
  <2>4. PICK paid \in Seq(Nat \X Nat) : paid = daily[u]
    BY DEF GameBase, GameTables
  <2>5. Adds(old, paid, froze[u], granted[u], c)
    BY <2>1, <2>3, <2>4
  <2>6. Adds(row, paid, froze[u], granted[u], q)
    BY <1>1, <1>3, <1>4, <2>3, <2>5, AddsStreak DEF SameCheckIn
  <2> QED BY <2>2, <2>4, <2>6
<1>6. q.user = c.user
  BY <1>1 DEF SameCheckIn
<1> QED BY <1>1, <1>2, <1>3, <1>4, <1>5, <1>6, <1>a, PlayersMove

LEMMA BadgePlayers ==
  ASSUME GameBase, PlayersInv, NEW s \in Slots, FindBadge(s) \/ EarnBadge(s)
  PROVE  PlayersInv'
<1>1. PICK c \in CheckInCall, q \in GameCall :
        /\ c = play[s] /\ c.pc \in {"find", "earn"}
        /\ play' = [play EXCEPT ![s] = q]
        /\ \/ q = Idle
           \/ SameCheckIn(c, q) /\ q.pc \in {"find", "earn", "badgeXp", "streak"}
  BY BadgeIs
<1>2. UNCHANGED <<streak, daily, froze, granted, muddled>>
  BY DEF FindBadge, EarnBadge, gameHistory
<1>3. c \in GameCall /\ c.user \in Users
  BY DEF GameCall, CheckInCall
<1>4. PICK u \in Users : u = c.user
  BY <1>3
<1>5. ASSUME u \notin muddled PROVE Adds(streak[u], daily[u], froze[u], granted[u], q)
  <2>1. Adds(streak[u], daily[u], froze[u], granted[u], c)
    BY <1>1, <1>3, <1>4, <1>5, OwnCall
  <2>2. CASE q = Idle
    <3>1. q.pc \notin Bound \cup {"freeze", "xp"}
      BY <2>2, IdlePlay DEF Bound
    <3> QED BY <1>1, <2>1, <3>1, AddsFree
  <2>3. CASE SameCheckIn(c, q) /\ q.pc \in {"find", "earn", "badgeXp", "streak"}
    <3>1. c.pc \in Bound /\ q.pc \in Bound /\ q.day = c.day /\ q.current = c.current
      BY <1>1, <2>3 DEF Bound, SameCheckIn
    <3> QED BY <2>1, <3>1, AddsKeep
  <2> QED BY <1>1, <2>2, <2>3
<1>6. q.user = c.user \/ q = Idle
  BY <1>1 DEF SameCheckIn
<1>7. \A v \in Users : LeavesAlone(v)
  BY <1>2 DEF LeavesAlone
<1> QED BY <1>1, <1>2, <1>3, <1>4, <1>5, <1>6, <1>7, PlayersMove

LEMMA AddXpPlayers ==
  ASSUME GameBase, PlayersInv, NEW s \in Slots, AddXp(s)
  PROVE  PlayersInv'
<1>1. PICK c \in CheckInCall, q \in GameCall, row \in XpRow, amount \in Nat :
        /\ c = play[s] /\ c.pc \in {"badgeXp", "xp"} /\ GameCallOK(c)
        /\ play' = [play EXCEPT ![s] = q]
        /\ xp' = [xp EXCEPT ![c.user] = row]
        /\ amount = IF c.pc = "badgeXp" THEN Reward[Head(c.badges)] ELSE c.amount
        /\ row.total = IF xp[c.user] = None THEN amount ELSE xp[c.user].total + amount
        /\ daily' = IF c.pc = "xp" THEN [daily EXCEPT ![c.user] = Append(@, <<c.day, amount>>)]
                    ELSE daily
        /\ c.pc = "xp" =>
             \/ q = Idle
             \/ SameCheckIn(c, q) /\ q.pc = "level"
        /\ c.pc = "badgeXp" =>
             /\ SameCheckIn(c, q) /\ q.pc \in {"find", "badgeLevel", "streak"}
             /\ q.pc # "streak" => q.badges # <<>>
             /\ q.pc = "badgeLevel" => q.badges = c.badges
             /\ q.pc # "badgeLevel" => q.badges = Tail(c.badges)
  BY AddXpIs
<1>2. UNCHANGED <<streak, froze, granted, muddled>>
  BY DEF AddXp
<1>3. c \in GameCall /\ c.user \in Users /\ c.day \in Nat
  BY DEF GameCall, CheckInCall
<1>4. PICK u \in Users : u = c.user
  BY <1>3
<1>6. q.user = c.user \/ q = Idle
  BY <1>1 DEF SameCheckIn
<1>7. CASE c.pc = "badgeXp"
  <2>1. daily' = daily
    BY <1>1, <1>7
  <2>2. ASSUME u \notin muddled PROVE Adds(streak'[u], daily'[u], froze'[u], granted'[u], q)
    <3>1. Adds(streak[u], daily[u], froze[u], granted[u], c)
      BY <1>1, <1>3, <1>4, <2>2, OwnCall
    <3>2. c.pc \in Bound /\ q.pc \in Bound /\ q.day = c.day /\ q.current = c.current
      BY <1>1, <1>7 DEF Bound, SameCheckIn
    <3>3. Adds(streak[u], daily[u], froze[u], granted[u], q)
      BY <3>1, <3>2, AddsKeep
    <3> QED BY <1>2, <2>1, <3>3
  <2>3. \A v \in Users : LeavesAlone(v)
    BY <1>2, <2>1 DEF LeavesAlone
  <2> QED BY <1>1, <1>2, <1>3, <1>4, <1>6, <2>2, <2>3, PlayersMove
<1>8. CASE c.pc = "xp"
  <2>1. PICK more : more = Append(daily[u], <<c.day, amount>>)
    OBVIOUS
  <2>2. daily' = [daily EXCEPT ![u] = more]
    BY <1>1, <1>4, <1>8, <2>1
  <2>3. \A v \in Users : daily'[v] = IF v = u THEN more ELSE daily[v]
    BY <2>2 DEF GameBase, GameTables
  <2>4. ASSUME u \notin muddled PROVE Adds(streak'[u], daily'[u], froze'[u], granted'[u], q)
    <3>1. Adds(streak[u], daily[u], froze[u], granted[u], c)
      BY <1>1, <1>3, <1>4, <2>4, OwnCall
    <3>2. PICK row1 \in StreakRow : row1 = streak[u]
      BY <1>1, <1>4, <1>8 DEF GameBase, GameTables, GameCallOK, KnowsRow, CheckInLabels
    <3>3. PICK paid \in Seq(Nat \X Nat) : paid = daily[u]
      BY DEF GameBase, GameTables
    <3>4. Adds(row1, paid, froze[u], granted[u], c)
      BY <3>1, <3>2, <3>3
    <3>5. q.pc \notin Bound \cup {"freeze", "xp"}
      BY <1>1, <1>8, IdlePlay DEF Bound
    <3>6. Adds(row1, Append(paid, <<c.day, amount>>), froze[u], granted[u], q)
      BY <1>3, <1>8, <3>4, <3>5, AddsDay
    <3>7. daily'[u] = Append(paid, <<c.day, amount>>)
      BY <2>1, <2>3, <3>3
    <3> QED BY <1>2, <3>2, <3>6, <3>7
  <2>5. \A v \in Users : v # u => LeavesAlone(v)
    BY <1>2, <2>3 DEF LeavesAlone
  <2> QED BY <1>1, <1>2, <1>3, <1>4, <1>6, <2>4, <2>5, PlayersMove
<1> QED BY <1>1, <1>7, <1>8

LEMMA WriteLevelPlayers ==
  ASSUME GameBase, LevelInv, PlayersInv, NEW s \in Slots, WriteLevel(s)
  PROVE  PlayersInv'
<1>1. PICK c \in CheckInCall, q \in GameCall :
        /\ c = play[s] /\ c.pc \in {"badgeLevel", "level"}
        /\ play' = [play EXCEPT ![s] = q]
        /\ c.pc = "level" => q = Idle
        /\ c.pc = "badgeLevel" => SameCheckIn(c, q) /\ q.pc \in {"find", "streak"}
  BY WriteLevelIs
<1>2. UNCHANGED <<streak, daily, froze, granted, muddled>>
  BY DEF WriteLevel, gameHistory
<1>3. c \in GameCall /\ c.user \in Users
  BY DEF GameCall, CheckInCall
<1>4. PICK u \in Users : u = c.user
  BY <1>3
<1>5. ASSUME u \notin muddled PROVE Adds(streak[u], daily[u], froze[u], granted[u], q)
  <2>1. Adds(streak[u], daily[u], froze[u], granted[u], c)
    BY <1>1, <1>3, <1>4, <1>5, OwnCall
  <2>2. CASE c.pc = "level"
    <3>1. q.pc \notin Bound \cup {"freeze", "xp"}
      BY <1>1, <2>2, IdlePlay DEF Bound
    <3> QED BY <2>1, <2>2, <3>1, AddsFree
  <2>3. CASE c.pc = "badgeLevel"
    <3>1. c.pc \in Bound /\ q.pc \in Bound /\ q.day = c.day /\ q.current = c.current
      BY <1>1, <2>3 DEF Bound, SameCheckIn
    <3> QED BY <2>1, <3>1, AddsKeep
  <2> QED BY <1>1, <2>2, <2>3
<1>6. q.user = c.user \/ q = Idle
  BY <1>1 DEF SameCheckIn
<1>7. \A v \in Users : LeavesAlone(v)
  BY <1>2 DEF LeavesAlone
<1> QED BY <1>1, <1>2, <1>3, <1>4, <1>5, <1>6, <1>7, PlayersMove

LEMMA WriteFreezePlayers ==
  ASSUME GameBase, PlayersInv, NEW s \in Slots, WriteFreeze(s)
  PROVE  PlayersInv'
<1>1. PICK c \in FreezeCall :
        /\ c = play[s] /\ streak[c.user] # None /\ c.pc = "freeze"
        /\ play' = [play EXCEPT ![s] = Idle]
        /\ \/ UNCHANGED <<streak, froze>>
           \/ \E day \in Nat, row \in StreakRow :
                /\ 1 <= day /\ ~Marked(c.row, day)
                /\ streak' = [streak EXCEPT ![c.user] = row]
                /\ row.current = streak[c.user].current /\ row.last = day
                /\ row.freezes = c.row.freezes - 1
                /\ froze' = [froze EXCEPT ![c.user] = @ + 1]
  BY WriteFreezeIs
<1>2. UNCHANGED <<daily, granted, muddled>>
  BY DEF WriteFreeze
<1>3. c \in GameCall /\ c.user \in Users
  BY DEF GameCall, FreezeCall
<1>4. PICK u \in Users : u = c.user
  BY <1>3
<1>5. CASE UNCHANGED <<streak, froze>>
  <2>1. ASSUME u \notin muddled PROVE Adds(streak[u], daily[u], froze[u], granted[u], Idle)
    <3>1. Adds(streak[u], daily[u], froze[u], granted[u], c)
      BY <1>1, <1>3, <1>4, <2>1, OwnCall
    <3>2. Idle.pc \notin Bound \cup {"freeze", "xp"} /\ c.pc # "xp"
      BY <1>1, IdlePlay DEF Bound
    <3> QED BY <3>1, <3>2, AddsFree
  <2>2. \A v \in Users : LeavesAlone(v)
    BY <1>2, <1>5 DEF LeavesAlone
  <2> QED BY <1>1, <1>2, <1>3, <1>4, <1>5, <2>1, <2>2, IdlePlay, PlayersMove
<1>6. ASSUME NEW day \in Nat, NEW row \in StreakRow, 1 <= day, ~Marked(c.row, day),
             streak' = [streak EXCEPT ![c.user] = row],
             row.current = streak[c.user].current, row.last = day,
             row.freezes = c.row.freezes - 1,
             froze' = [froze EXCEPT ![c.user] = @ + 1]
      PROVE  PlayersInv'
  <2>1. PICK used \in Nat : used = froze[u]
    BY DEF GameBase, GameTables
  <2>2. \A v \in Users : /\ streak'[v] = IF v = u THEN row ELSE streak[v]
                         /\ froze'[v] = IF v = u THEN used + 1 ELSE froze[v]
    BY <1>4, <1>6, <2>1 DEF GameBase, GameTables
  <2>3. ASSUME u \notin muddled PROVE Adds(streak'[u], daily'[u], froze'[u], granted'[u], Idle)
    <3>1. Adds(streak[u], daily[u], froze[u], granted[u], c)
      BY <1>1, <1>3, <1>4, <2>3, OwnCall
    <3>2. PICK old \in StreakRow : old = streak[u]
      BY <1>1, <1>4 DEF GameBase, GameTables
    <3>3. PICK paid \in Seq(Nat \X Nat), given \in Nat : paid = daily[u] /\ given = granted[u]
      BY DEF GameBase, GameTables
    <3>4. Adds(old, paid, used, given, c)
      BY <2>1, <3>1, <3>2, <3>3
    <3>5. Adds(row, paid, used + 1, given, Idle)
      BY <1>1, <1>4, <1>6, <3>2, <3>4, AddsFreeze
    <3> QED BY <1>2, <2>2, <3>3, <3>5
  <2>4. \A v \in Users : v # u => LeavesAlone(v)
    BY <1>2, <2>2 DEF LeavesAlone
  <2> QED BY <1>1, <1>2, <1>3, <1>4, <2>3, <2>4, IdlePlay, PlayersMove
<1> QED BY <1>1, <1>5, <1>6

\* Calls that are of no player, or of one who is not followed any more.
LEMMA OtherPlayers ==
  ASSUME GameBase, PlayersInv, NEW s \in Slots, NEW q, play' = [play EXCEPT ![s] = q],
         UNCHANGED <<streak, daily, froze, granted>>, muddled \subseteq muddled',
         q.user = None, play[s].user \notin Users \ muddled'
  PROVE  PlayersInv'
<1>1. ASSUME NEW u \in Users, u \notin muddled' PROVE PlayerOK(u)'
  <2>1. PlayerOK(u) /\ LeavesAlone(u)
    BY <1>1 DEF PlayersInv, LeavesAlone
  <2>2. play[s].user # u /\ q.user # u
    BY <1>1, NoneApart
  <2> QED BY <2>1, <2>2, PlayerStays
<1> QED BY <1>1 DEF PlayersInv

LEMMA RequestPlayers ==
  ASSUME GameBase, PlayersInv, NEW s \in Slots, NEW u \in Users,
         CheckIn(s, u) \/ UseStreakFreeze(s, u) \/ GetMyRank(s, u)
  PROVE  PlayersInv'
<1>1. PICK q \in GameCall :
        /\ play' = [play EXCEPT ![s] = q] /\ play[s] = Idle /\ q.user = u
        /\ \/ q.pc = "look"
           \/ q.pc = "freeze" /\ q.row = streak[u]
           \/ q.pc = "nearby"
        /\ muddled' = muddled \cup ({u} \cap Busy(play))
        /\ UNCHANGED <<streak, daily, froze, granted>>
  BY RequestIs
<1>2. \A v \in Users : LeavesAlone(v)
  BY <1>1 DEF LeavesAlone
<1>3. ASSUME NEW v \in Users, v \notin muddled' PROVE PlayerOK(v)'
  <2>1. PlayerOK(v) /\ v \notin muddled
    BY <1>1, <1>3 DEF PlayersInv
  <2>2. CASE v = u
    <3>1. u \notin Busy(play)
      BY <1>1, <1>3, <2>2
    <3>2. Fits(u, Idle) => Fits(u, q)
      BY <1>1, IdlePlay DEF Fits, Adds, Bound
    <3> QED BY <1>1, <1>2, <2>1, <2>2, <3>1, <3>2, PlayerBegins
  <2>3. CASE v # u
    <3>1. play[s].user # v /\ q.user # v
      BY <1>1, <1>3, <2>3, IdlePlay, NoneApart
    <3> QED BY <1>1, <1>2, <2>1, <3>1, PlayerStays
  <2> QED BY <2>2, <2>3
<1> QED BY <1>3 DEF PlayersInv

LEMMA BoardPlayers ==
  ASSUME GameBase, PlayersInv, NEW s \in Slots, RefreshLeaderboardCache(s) \/ WriteBoard(s)
  PROVE  PlayersInv'
<1>1. CASE RefreshLeaderboardCache(s)
  <2>1. PICK q \in RefreshCall :
          /\ play' = [play EXCEPT ![s] = q] /\ play[s] = Idle /\ q.user = None
          /\ UNCHANGED <<streak, daily, froze, granted, muddled>>
    BY <1>1, RefreshIs
  <2>2. PICK r : r = q
    OBVIOUS
  <2>3. play[s].user \notin Users
    BY <2>1, IdlePlay, NoneApart
  <2> QED BY <2>1, <2>2, <2>3, OtherPlayers
<1>2. CASE WriteBoard(s)
  <2>1. play' = [play EXCEPT ![s] = Idle] /\ UNCHANGED <<streak, daily, froze, granted, muddled>>
    BY <1>2 DEF WriteBoard, PlayGoto, Goto, gameHistory
  <2>2. PICK c \in GameCall : c = play[s] /\ c.pc = "refresh"
    BY <1>2, CallOf DEF WriteBoard
  <2>3. play[s].user \notin Users
    BY <2>2, GameKinds, NoneApart
  <2> QED BY <2>1, <2>3, IdlePlay, OtherPlayers
<1> QED BY <1>1, <1>2

LEMMA EndPlayers ==
  ASSUME GameBase, PlayersInv, NEW s \in Slots, AnswerMyRank(s) \/ GameDie(s)
  PROVE  PlayersInv'
<1>1. /\ play' = [play EXCEPT ![s] = Idle]
      /\ UNCHANGED <<streak, daily, froze, granted>>
  BY DEF AnswerMyRank, GameDie, Die, PlayGoto, Goto, gameHistory
<1>2. PICK c \in GameCall : c = play[s]
  BY CallOf
<1>3. CASE AnswerMyRank(s)
  <2>1. c.pc = "nearby" /\ c.user \in Users /\ UNCHANGED muddled
    BY <1>2, <1>3, GameKinds DEF AnswerMyRank, gameHistory
  <2>2. \A v \in Users : LeavesAlone(v)
    BY <1>1 DEF LeavesAlone
  <2>3. ASSUME c.user \notin muddled
        PROVE  Adds(streak'[c.user], daily'[c.user], froze'[c.user], granted'[c.user], Idle)
    <3>1. Adds(streak[c.user], daily[c.user], froze[c.user], granted[c.user], c)
      BY <1>2, <2>1, <2>3, OwnCall
    <3>2. Idle.pc \notin Bound \cup {"freeze", "xp"} /\ c.pc # "xp"
      BY <2>1, IdlePlay DEF Bound
    <3>3. Adds(streak[c.user], daily[c.user], froze[c.user], granted[c.user], Idle)
      BY <3>1, <3>2, AddsFree
    <3> QED BY <1>1, <3>3
  <2> QED BY <1>1, <1>2, <2>1, <2>2, <2>3, IdlePlay, PlayersMove
<1>4. CASE GameDie(s)
  <2>1. muddled' = muddled \cup ({c.user} \ {None})
    BY <1>2, <1>4 DEF GameDie
  <2>2. play[s].user \notin Users \ muddled'
    BY <1>2, <2>1, GameKinds, NoneApart
  <2> QED BY <1>1, <2>1, <2>2, IdlePlay, OtherPlayers
<1> QED BY <1>3, <1>4

LEMMA PlayersStep == GameBase /\ LevelInv /\ PlayersInv /\ [GameNext]_gameVars => PlayersInv'
<1> SUFFICES ASSUME GameBase, LevelInv, PlayersInv, [GameNext]_gameVars PROVE PlayersInv'
  OBVIOUS
<1>1. CASE UNCHANGED gameVars \/ Midnight
  BY <1>1 DEF gameVars, Midnight, gameHistory, PlayersInv, PlayerOK, Fits
<1>2. ASSUME NEW s \in Slots, GameRequest(s) PROVE PlayersInv'
  BY <1>2, RequestPlayers, BoardPlayers DEF GameRequest
<1>3. ASSUME NEW s \in Slots, GameStep(s) PROVE PlayersInv'
  BY <1>3, LookPlayers, CreatePlayers, BadgePlayers, AddXpPlayers, WriteLevelPlayers,
     WriteStreakPlayers, WriteFreezePlayers, BoardPlayers, EndPlayers DEF GameStep
<1>4. ASSUME NEW s \in Slots, GameDie(s) PROVE PlayersInv'
  BY <1>4, EndPlayers
<1> QED BY <1>1, <1>2, <1>3, <1>4 DEF GameNext

LEMMA PlayersInit == GameInit => PlayersInv
<1> SUFFICES ASSUME GameInit PROVE PlayersInv
  OBVIOUS
<1>1. play = [s \in Slots |-> Idle] /\ froze = [u \in Users |-> 0]
  BY DEF GameInit
<1>2. ASSUME NEW u \in Users PROVE PlayerOK(u)
  <2>1. Idle.pc \notin Bound \cup {"freeze", "xp"} /\ froze[u] = 0
    BY <1>1, IdlePlay DEF Bound
  <2>2. CASE streak[u] = None /\ daily[u] = <<>> /\ granted[u] = DEFAULT_FREEZE_COUNT
    <3>1. DOMAIN daily[u] = {}
      BY <2>2
    <3>2. Adds(streak[u], daily[u], froze[u], granted[u], Idle)
      BY <2>1, <2>2, <3>1 DEF Adds
    <3> QED BY <1>1, <3>2, IdlePlay, NoneApart DEF PlayerOK, Fits
  <2>3. CASE streak[u] = NewStreakRow /\ daily[u] = <<>> /\ granted[u] = SIGNUP_FREEZES
    <3>1. DOMAIN daily[u] = {} /\ Len(daily[u]) = 0
      BY <2>3
    <3>2. streak[u] # None /\ streak[u].freezes = granted[u] /\ streak[u].current = 0
      BY <2>3, NewRowType, NoneApart
    <3>3. granted[u] + 0 = granted[u]
      BY <2>3, NoneApart
    <3>4. Adds(streak[u], daily[u], froze[u], granted[u], Idle)
      BY <2>1, <3>1, <3>2, <3>3 DEF Adds
    <3> QED BY <1>1, <3>4, IdlePlay, NoneApart DEF PlayerOK, Fits
  <2>4. CASE /\ streak[u] = [NewStreakRow EXCEPT !.current = 1, !.longest = 1, !.last = 1]
             /\ daily[u] = << <<1, DAILY_LOGIN>> >> /\ granted[u] = SIGNUP_FREEZES
    <3>1. DOMAIN daily[u] = 1 .. 1 /\ Len(daily[u]) = 1 /\ daily[u][1][1] = 1
      BY <2>4
    <3>2. /\ streak[u] # None /\ streak[u].freezes = granted[u] /\ streak[u].current = 1
          /\ streak[u].last = 1
      BY <2>4, VeteranRow, NoneApart
    <3>3. granted[u] + 0 = granted[u]
      BY <2>4, NoneApart
    <3>5. \A i \in DOMAIN daily[u] : i = 1
      BY <3>1
    <3>4. Adds(streak[u], daily[u], froze[u], granted[u], Idle)
      BY <2>1, <3>1, <3>2, <3>3, <3>5, IdlePlay DEF Adds
    <3> QED BY <1>1, <3>4, IdlePlay, NoneApart DEF PlayerOK, Fits
  <2> QED BY <2>2, <2>3, <2>4, InitRows
<1> QED BY <1>2 DEF PlayersInv

-----------------------------------------------------------------------------
\* The days paid are as many as the payments.
LEMMA DaysCounted ==
  ASSUME NEW paid \in Seq(Nat \X Nat),
         \A i, j \in DOMAIN paid : i < j => paid[i][1] < paid[j][1]
  PROVE  Cardinality({paid[i][1] : i \in DOMAIN paid}) = Len(paid)
<1>1. PICK n \in Nat : n = Len(paid) /\ DOMAIN paid = 1 .. n
  BY LenProperties
<1>2. PICK D : D = {paid[i][1] : i \in 1 .. n}
  OBVIOUS
<1>3. PICK f : f = [i \in 1 .. n |-> paid[i][1]]
  OBVIOUS
<1>4. \A i \in 1 .. n : paid[i][1] \in Nat
  BY <1>1
<1>5. ASSUME NEW i \in 1 .. n, NEW j \in 1 .. n, f[i] = f[j] PROVE i = j
  <2>1. f[i] = paid[i][1] /\ f[j] = paid[j][1] /\ f[i] \in Nat /\ f[j] \in Nat
    BY <1>3, <1>4
  <2>2. PICK a \in Nat, b \in Nat : a = paid[i][1] /\ b = paid[j][1]
    BY <1>4
  <2>3. a = b
    BY <1>5, <2>1, <2>2
  <2>4. (i < j => a < b) /\ (j < i => b < a)
    BY <1>1, <2>2
  <2> QED BY <2>3, <2>4
<1>6. f \in Bijection(1 .. n, D)
  BY <1>2, <1>3, <1>5 DEF Bijection, Injection, Surjection, IsInjective
<1>7. ExistsBijection(1 .. n, D)
  BY <1>6 DEF ExistsBijection
<1>8. IsFiniteSet(1 .. n) /\ Cardinality(1 .. n) = n
  BY FS_Interval
<1>9. Cardinality(D) = n
  BY <1>7, <1>8, FS_Bijection
<1> QED BY <1>1, <1>2, <1>9

LEMMA PlayersGiveFreezes == GameBase /\ PlayersInv => FreezesPaidFor
<1> SUFFICES ASSUME GameBase, PlayersInv, NEW u \in Users
             PROVE  /\ streak[u] # None => streak[u].freezes >= 0
                    /\ u \notin muddled => Profile(u).freezesRemaining + froze[u] = granted[u]
  BY DEF FreezesPaidFor
<1>1. streak[u] # None => streak[u].freezes >= 0
  BY DEF GameBase, GameTables
<1>2. ASSUME u \notin muddled PROVE Profile(u).freezesRemaining + froze[u] = granted[u]
  <2>1. \E c : Fits(u, c)
    BY <1>2 DEF PlayersInv, PlayerOK
  <2>2. Profile(u).freezesRemaining = IF streak[u] = None THEN DEFAULT_FREEZE_COUNT ELSE streak[u].freezes
    BY DEF Profile
  <2>3. CASE streak[u] = None
    <3>1. froze[u] = 0 /\ granted[u] = DEFAULT_FREEZE_COUNT
      BY <2>1, <2>3 DEF Fits, Adds
    <3> QED BY <2>2, <2>3, <3>1, NoneApart
  <2>4. CASE streak[u] # None
    <3>1. streak[u].freezes + froze[u] = granted[u]
      BY <2>1, <2>4 DEF Fits, Adds
    <3> QED BY <2>2, <2>4, <3>1
  <2> QED BY <2>3, <2>4
<1> QED BY <1>1, <1>2

LEMMA PlayersGiveDays == GameBase /\ PlayersInv => PaidOnceADay
<1> SUFFICES ASSUME GameBase, PlayersInv, NEW u \in Users, u \notin muddled
             PROVE  LET days == {daily[u][i][1] : i \in DOMAIN daily[u]} IN
                    /\ Cardinality(days) = Len(daily[u])
                    /\ streak[u] # None /\ u \notin Busy(play) => streak[u].current <= Cardinality(days)
  BY DEF PaidOnceADay
<1>1. PICK paid \in Seq(Nat \X Nat) : paid = daily[u]
  BY DEF GameBase, GameTables
<1>2. \E c : Fits(u, c)
  BY DEF PlayersInv, PlayerOK
<1>3. Cardinality({paid[i][1] : i \in DOMAIN paid}) = Len(paid)
  <2>1. \A i, j \in DOMAIN paid : i < j => paid[i][1] < paid[j][1]
    BY <1>1, <1>2 DEF Fits, Adds
  <2> QED BY <2>1, DaysCounted
<1>4. ASSUME streak[u] # None, u \notin Busy(play) PROVE streak[u].current <= Len(paid)
  <2>1. \A s \in Slots : play[s].user # u
    BY <1>4, NoneApart DEF Busy
  <2>2. Fits(u, Idle)
    BY <2>1 DEF PlayersInv, PlayerOK
  <2>3. streak[u].current <= Len(paid) + 0
    BY <1>1, <1>4, <2>2, IdlePlay DEF Fits, Adds
  <2>4. Len(paid) \in Nat
    BY LenProperties
  <2> QED BY <2>3, <2>4
<1> QED BY <1>1, <1>3, <1>4

\* No player ever has fewer than zero freezes left, and one whose calls do not
\* overlap has left exactly what was granted less what was used, although
\* useStreakFreeze writes back a number it has read before.
THEOREM FreezesLeft == GameSpec => []FreezesPaidFor
BY InitInv, StepInv, BaseInit, BaseStep, PlayersInit, PlayersStep, PlayersGiveFreezes, PTL DEF GameSpec

\* A player whose calls neither overlap nor die is paid once for a day, and
\* between calls the streak is not longer than the days paid.
THEOREM DaysPaid == GameSpec => []PaidOnceADay
BY InitInv, StepInv, BaseInit, BaseStep, PlayersInit, PlayersStep, PlayersGiveDays, PTL DEF GameSpec

-----------------------------------------------------------------------------
(***************************************************************************)
(* The leaderboard.  In a ranking the ranks are distinct and follow the    *)
(* totals.  An entry is backed when as many users as its rank says have at *)
(* least its total: that stays when totals grow, so that what getMyRank    *)
(* read stays backed by every later board.                                 *)
(***************************************************************************)
Ordered(R) == \A u, v \in Users : R[u] # None /\ R[v] # None =>
  /\ 1 <= R[u].rank
  /\ u # v => R[u].rank # R[v].rank
  /\ R[u].total > R[v].total => R[u].rank < R[v].rank

Backs(R, rank, total) == \E f \in Injection(1 .. rank, Users) :
  \A i \in 1 .. rank : R[f[i]] # None /\ R[f[i]].total >= total

Backed(R) == \A u \in Users : R[u] # None => Backs(R, R[u].rank, R[u].total)

Covers(R, S) == \A u \in Users : R[u] # None => S[u] # None /\ R[u].total <= S[u].total

RanksOK(c) ==
  /\ c.pc = "refresh" => Ordered(c.rows) /\ Backed(c.rows) /\ Covers(board, c.rows)
  /\ c.pc = "nearby" => Backs(board, c.entry.rank, c.entry.total)

OneRefresh == \A s, t \in Slots : play[s].pc = "refresh" /\ play[t].pc = "refresh" => s = t

RankInv == ~mixed =>
  /\ Ordered(board) /\ Backed(board) /\ OneRefresh
  /\ \A s \in Slots : RanksOK(play[s])

Boards == [Users -> BoardRow \cup {None}]

LEMMA BacksStays ==
  ASSUME NEW R \in Boards, NEW S \in Boards, Covers(R, S), NEW rank, NEW total \in Nat,
         Backs(R, rank, total)
  PROVE  Backs(S, rank, total)
<1>1. PICK f \in Injection(1 .. rank, Users) :
        \A i \in 1 .. rank : R[f[i]] # None /\ R[f[i]].total >= total
  BY DEF Backs
<1>2. ASSUME NEW i \in 1 .. rank PROVE S[f[i]] # None /\ S[f[i]].total >= total
  <2>1. PICK u \in Users : u = f[i]
    BY DEF Injection
  <2>2. R[u] # None /\ R[u].total >= total
    BY <1>1, <2>1
  <2>3. S[u] # None /\ R[u].total <= S[u].total
    BY <2>2 DEF Covers
  <2>4. R[u].total \in Nat /\ S[u].total \in Nat
    BY <2>2, <2>3 DEF Boards, BoardRow
  <2> QED BY <2>1, <2>2, <2>3, <2>4
<1> QED BY <1>2 DEF Backs

\* Of two rankings the later tells the truth about an entry of the earlier:
\* the next above it has at least its total.
LEMMA NextAbove ==
  ASSUME NEW R \in Boards, Ordered(R), NEW rank \in Nat, NEW total \in Nat, Backs(R, rank, total),
         NEW u \in Users, R[u] # None, R[u].rank < rank
  PROVE  R[u].total >= total
<1> SUFFICES ASSUME ~(R[u].total >= total) PROVE FALSE
  OBVIOUS
<1>1. PICK f \in Injection(1 .. rank, Users) :
        \A i \in 1 .. rank : R[f[i]] # None /\ R[f[i]].total >= total
  BY DEF Backs
<1>2. PICK m \in Nat, t \in Nat : m = R[u].rank /\ t = R[u].total /\ m < rank /\ t < total
  BY DEF Boards, BoardRow
<1>3. \A v \in Users : R[v] # None => R[v].rank \in Nat /\ R[v].total \in Nat
  BY DEF Boards, BoardRow
<1>4. ASSUME NEW i \in 1 .. rank
      PROVE f[i] \in Users /\ R[f[i]] # None /\ R[f[i]].rank \in 1 .. m
  <2>1. PICK v \in Users : v = f[i]
    BY DEF Injection
  <2>2. R[v] # None /\ R[v].total >= total
    BY <1>1, <2>1
  <2>3. R[v].rank \in Nat /\ R[v].total \in Nat
    BY <1>3, <2>2
  <2>4. R[v].total > t
    BY <1>2, <2>2, <2>3
  <2>5. 1 <= R[v].rank /\ R[v].rank < m
    BY <1>2, <2>2, <2>4 DEF Ordered
  <2> QED BY <2>1, <2>2, <2>3, <2>5
<1>5. PICK g : g = [i \in 1 .. rank |-> R[f[i]].rank]
  OBVIOUS
<1>6. g \in [1 .. rank -> 1 .. m]
  BY <1>4, <1>5
<1>7. /\ IsFiniteSet(1 .. rank) /\ Cardinality(1 .. rank) = rank
      /\ IsFiniteSet(1 .. m) /\ Cardinality(1 .. m) = m
  BY FS_Interval
<1>8. PICK i \in 1 .. rank, j \in 1 .. rank : i # j /\ g[i] = g[j]
  <2>1. PICK A, T : A = 1 .. rank /\ T = 1 .. m
    OBVIOUS
  <2>2. IsFiniteSet(A) /\ IsFiniteSet(T) /\ g \in [A -> T]
    BY <1>6, <1>7, <2>1
  <2>3. Cardinality(T) < Cardinality(A)
    BY <1>2, <1>7, <2>1
  <2>4. \E i, j \in A : i # j /\ g[i] = g[j]
    BY <2>2, <2>3, FS_PigeonHole
  <2> QED BY <2>1, <2>4
<1>9. f[i] # f[j]
  BY <1>8 DEF Injection, IsInjective
<1>10. R[f[i]].rank = R[f[j]].rank
  BY <1>5, <1>8
<1> QED BY <1>4, <1>9, <1>10 DEF Ordered

\* What the scheduled job reads is a ranking, and it is backed.
LEMMA SnapshotRanks ==
  ASSUME xp \in [Users -> XpRow \cup {None}], NEW rank \in Rankings
  PROVE  Ordered(Snapshot(rank)) /\ Backed(Snapshot(rank))
<1>1. PICK n \in Nat : n = Cardinality(Ranked) /\ IsFiniteSet(Ranked)
  BY RankedFinite
<1>2. /\ rank \in [Ranked -> 1 .. n]
      /\ \A u, v \in Ranked : /\ u # v => rank[u] # rank[v]
                              /\ xp[u].total > xp[v].total => rank[u] < rank[v]
  BY <1>1 DEF Rankings
<1>3. PICK R : R = Snapshot(rank)
  OBVIOUS
<1>4. \A u \in Users : /\ R[u] # None <=> u \in Ranked
                       /\ u \in Ranked => R[u].rank = rank[u] /\ R[u].total = xp[u].total
  <2> SUFFICES ASSUME NEW u \in Users
               PROVE  /\ R[u] # None <=> u \in Ranked
                      /\ u \in Ranked => R[u].rank = rank[u] /\ R[u].total = xp[u].total
    OBVIOUS
  <2>1. CASE u \in Ranked
    <3>1. R[u] = [rank |-> rank[u], total |-> xp[u].total, level |-> xp[u].level]
      BY <1>3, <2>1 DEF Snapshot
    <3>2. R[u].rank = rank[u] /\ R[u].total = xp[u].total /\ R[u].level = xp[u].level
      BY <3>1
    <3>3. PICK k \in Nat, n1 \in Nat, l \in Nat : k = rank[u] /\ n1 = xp[u].total /\ l = xp[u].level
      BY <1>2, <2>1 DEF Ranked, XpRow
    <3>4. R[u] = [rank |-> k, total |-> n1, level |-> l]
      BY <3>1, <3>3
    <3>5. R[u] \in BoardRow
      BY <3>4 DEF BoardRow
    <3> QED BY <2>1, <3>2, <3>5, NoneApart
  <2>2. CASE u \notin Ranked
    BY <1>3, <2>2 DEF Snapshot
  <2> QED BY <2>1, <2>2
<1>5. Ordered(R)
  <2> SUFFICES ASSUME NEW u \in Users, NEW v \in Users, R[u] # None, R[v] # None
               PROVE  /\ 1 <= R[u].rank
                      /\ u # v => R[u].rank # R[v].rank
                      /\ R[u].total > R[v].total => R[u].rank < R[v].rank
    BY DEF Ordered
  <2>1. u \in Ranked /\ v \in Ranked
    BY <1>4
  <2>2. rank[u] \in 1 .. n
    BY <1>2, <2>1
  <2> QED BY <1>2, <1>4, <2>1, <2>2
<1>6. ASSUME NEW u \in Ranked PROVE Backs(R, rank[u], xp[u].total)
  <2>1. rank \in Injection(Ranked, 1 .. n)
    BY <1>2 DEF Injection, IsInjective
  <2>2. IsFiniteSet(1 .. n) /\ Cardinality(1 .. n) = n
    BY FS_Interval
  <2>3. rank \in Surjection(Ranked, 1 .. n)
    BY <1>1, <2>1, <2>2, FS_Injection
  <2>4. \A i \in 1 .. n : \E v \in Ranked : rank[v] = i
    BY <2>3 DEF Surjection
  <2>5. PICK m \in 1 .. n : m = rank[u]
    BY <1>2
  <2>6. PICK f : f = [i \in 1 .. m |-> CHOOSE v \in Ranked : rank[v] = i]
    OBVIOUS
  <2>7. \A i \in 1 .. m : f[i] \in Ranked /\ rank[f[i]] = i
    BY <2>4, <2>5, <2>6
  <2>8. Ranked \subseteq Users
    BY DEF Ranked
  <2>9. f \in Injection(1 .. m, Users)
    BY <2>6, <2>7, <2>8 DEF Injection, IsInjective
  <2>10. ASSUME NEW i \in 1 .. m PROVE R[f[i]] # None /\ R[f[i]].total >= xp[u].total
    <3>1. f[i] \in Ranked /\ f[i] \in Users /\ rank[f[i]] = i
      BY <2>7, <2>8
    <3>2. xp[f[i]].total \in Nat /\ xp[u].total \in Nat
      BY <3>1 DEF Ranked, XpRow
    <3>3. ~(rank[u] < rank[f[i]])
      BY <2>5, <3>1
    <3>4. ~(xp[u].total > xp[f[i]].total)
      BY <1>2, <3>1, <3>3
    <3> QED BY <1>4, <3>1, <3>2, <3>4
  <2> QED BY <2>5, <2>9, <2>10 DEF Backs
<1>7. Backed(R)
  <2>1. \A u \in Users : R[u] # None => Backs(R, R[u].rank, R[u].total)
    BY <1>4, <1>6
  <2> QED BY <2>1 DEF Backed
<1> QED BY <1>3, <1>5, <1>7

LEMMA CoversItself == \A R \in Boards : Covers(R, R)
<1> SUFFICES ASSUME NEW R \in Boards, NEW u \in Users, R[u] # None
             PROVE  R[u].total <= R[u].total
  BY DEF Covers
<1>1. R[u].total \in Nat
  BY DEF Boards, BoardRow
<1> QED BY <1>1

\* A step of a call that has nothing to do with the board.
LEMMA RankQuiet ==
  ASSUME GameBase, RankInv, NEW s \in Slots, NEW q, play' = [play EXCEPT ![s] = q],
         q.pc \notin {"refresh", "nearby"}, UNCHANGED <<board, mixed>>
  PROVE  RankInv'
<1> SUFFICES ASSUME ~mixed' PROVE (Ordered(board) /\ Backed(board) /\ OneRefresh
                                   /\ \A t \in Slots : RanksOK(play[t]))'
  BY DEF RankInv
<1>1. Ordered(board) /\ Backed(board) /\ OneRefresh /\ \A t \in Slots : RanksOK(play[t])
  BY DEF RankInv
<1>2. \A t \in Slots : play'[t] = IF t = s THEN q ELSE play[t]
  BY DEF GameBase, GameCallsOK
<1>3. (Ordered(board) /\ Backed(board))'
  BY <1>1 DEF Ordered, Backed, Backs
<1>4. OneRefresh'
  BY <1>1, <1>2 DEF OneRefresh
<1>5. ASSUME NEW t \in Slots PROVE RanksOK(play[t])'
  <2>1. CASE t = s
    BY <1>2, <2>1 DEF RanksOK
  <2>2. CASE t # s
    BY <1>1, <1>2, <2>2 DEF RanksOK, Covers, Backs, Backed, Ordered
  <2> QED BY <2>1, <2>2
<1> QED BY <1>3, <1>4, <1>5

LEMMA RankRequest ==
  ASSUME GameBase, RankInv, NEW s \in Slots, NEW u \in Users,
         CheckIn(s, u) \/ UseStreakFreeze(s, u) \/ GetMyRank(s, u)
  PROVE  RankInv'
<1>1. PICK q \in GameCall :
        /\ play' = [play EXCEPT ![s] = q] /\ play[s] = Idle /\ q.user = u /\ GameCallOK(q)
        /\ \/ q \in CheckInCall /\ q.pc = "look"
           \/ q \in FreezeCall /\ q.pc = "freeze" /\ q.row = streak[u]
           \/ q \in RankCall /\ q.pc = "nearby" /\ board[u] # None /\ q.entry = board[u]
        /\ playLeft' \in Nat /\ muddled' = muddled \cup ({u} \cap Busy(play))
        /\ UNCHANGED <<today, streak, xp, badge, board, daily, granted, froze, mixed>>
  BY RequestIs
<1>2. CASE q.pc # "nearby"
  BY <1>1, <1>2, RankQuiet
<1>3. CASE q.pc = "nearby"
  <2> SUFFICES ASSUME ~mixed' PROVE (Ordered(board) /\ Backed(board) /\ OneRefresh
                                     /\ \A t \in Slots : RanksOK(play[t]))'
    BY DEF RankInv
  <2>1. Ordered(board) /\ Backed(board) /\ OneRefresh /\ \A t \in Slots : RanksOK(play[t])
    BY <1>1 DEF RankInv
  <2>2. \A t \in Slots : play'[t] = IF t = s THEN q ELSE play[t]
    BY <1>1 DEF GameBase, GameCallsOK
  <2>3. (Ordered(board) /\ Backed(board))'
    BY <1>1, <2>1 DEF Ordered, Backed, Backs
  <2>4. OneRefresh'
    BY <1>3, <2>1, <2>2 DEF OneRefresh
  <2>5. Backs(board, q.entry.rank, q.entry.total)
    BY <1>1, <1>3, <2>1 DEF Backed
  <2>6. ASSUME NEW t \in Slots PROVE RanksOK(play[t])'
    <3>1. CASE t = s
      BY <1>1, <1>3, <2>2, <2>5, <3>1 DEF RanksOK, Backs
    <3>2. CASE t # s
      BY <1>1, <2>1, <2>2, <3>2 DEF RanksOK, Covers, Backs, Backed, Ordered
    <3> QED BY <3>1, <3>2
  <2> QED BY <2>3, <2>4, <2>6
<1> QED BY <1>2, <1>3

LEMMA RankRefresh ==
  ASSUME GameBase, LevelInv, RankInv, NEW s \in Slots, RefreshLeaderboardCache(s)
  PROVE  RankInv'
<1>1. PICK rank \in Rankings, q \in RefreshCall :
        /\ play' = [play EXCEPT ![s] = q] /\ play[s] = Idle
        /\ q.pc = "refresh" /\ q.user = None /\ q.rows = Snapshot(rank)
        /\ playLeft' \in Nat
        /\ mixed' = (mixed \/ \E t \in Slots : play[t].pc = "refresh")
        /\ UNCHANGED <<today, streak, xp, badge, board, daily, granted, froze, muddled>>
  BY RefreshIs
<1> SUFFICES ASSUME ~mixed' PROVE (Ordered(board) /\ Backed(board) /\ OneRefresh
                                   /\ \A t \in Slots : RanksOK(play[t]))'
  BY DEF RankInv
<1>2. ~mixed /\ \A t \in Slots : play[t].pc # "refresh"
  BY <1>1
<1>3. Ordered(board) /\ Backed(board) /\ \A t \in Slots : RanksOK(play[t])
  BY <1>2 DEF RankInv
<1>4. \A t \in Slots : play'[t] = IF t = s THEN q ELSE play[t]
  BY <1>1 DEF GameBase, GameCallsOK
<1>5. (Ordered(board) /\ Backed(board))'
  BY <1>1, <1>3 DEF Ordered, Backed, Backs
<1>6. OneRefresh'
  BY <1>2, <1>4 DEF OneRefresh
<1>7. Covers(board, Snapshot(rank))
  <2> SUFFICES ASSUME NEW u \in Users, board[u] # None
               PROVE  Snapshot(rank)[u] # None /\ board[u].total <= Snapshot(rank)[u].total
    BY DEF Covers
  <2>1. xp[u] # None /\ board[u].total <= xp[u].total
    BY DEF LevelInv, Ranks, Below
  <2>2. u \in Ranked
    BY <2>1 DEF Ranked
  <2>3. PICK row : row = [rank |-> rank[u], total |-> xp[u].total, level |-> xp[u].level]
    OBVIOUS
  <2>4. Snapshot(rank)[u] = row /\ row.total = xp[u].total
    BY <2>2, <2>3 DEF Snapshot
  <2>5. row # None
    <3>1. PICK k \in Nat, n \in Nat, l \in Nat : k = rank[u] /\ n = xp[u].total /\ l = xp[u].level
      <4>1. PICK m \in Nat : m = Cardinality(Ranked)
        BY RankedFinite
      <4>2. rank \in [Ranked -> 1 .. m]
        BY <4>1 DEF Rankings
      <4> QED BY <2>2, <4>2 DEF Ranked, GameBase, GameTables, XpRow
    <3>2. row = [rank |-> k, total |-> n, level |-> l]
      BY <2>3, <3>1
    <3>3. row \in BoardRow
      BY <3>2 DEF BoardRow
    <3> QED BY <3>3, NoneApart
  <2> QED BY <2>1, <2>4, <2>5
<1>8. Ordered(q.rows) /\ Backed(q.rows) /\ Covers(board, q.rows)
  BY <1>1, <1>7, SnapshotRanks DEF GameBase, GameTables
<1>9. ASSUME NEW t \in Slots PROVE RanksOK(play[t])'
  <2>1. CASE t = s
    BY <1>1, <1>4, <1>8, <2>1 DEF RanksOK, Covers, Backs, Backed, Ordered
  <2>2. CASE t # s
    BY <1>1, <1>3, <1>4, <2>2 DEF RanksOK, Covers, Backs, Backed, Ordered
  <2> QED BY <2>1, <2>2
<1> QED BY <1>5, <1>6, <1>9

\* The refresh writes the whole ranking: nobody who was on the board is missing.
LEMMA RankWrite ==
  ASSUME GameBase, RankInv, NEW s \in Slots, WriteBoard(s)
  PROVE  RankInv'
<1>1. PICK c \in RefreshCall : c = play[s] /\ c.pc = "refresh"
  BY CallOf, GameKinds DEF WriteBoard
<1>2. /\ play' = [play EXCEPT ![s] = Idle]
      /\ board' = [u \in Users |-> IF c.rows[u] = None THEN board[u] ELSE c.rows[u]]
      /\ UNCHANGED mixed
  BY <1>1 DEF WriteBoard, PlayGoto, Goto, gameHistory
<1> SUFFICES ASSUME ~mixed' PROVE (Ordered(board) /\ Backed(board) /\ OneRefresh
                                   /\ \A t \in Slots : RanksOK(play[t]))'
  BY DEF RankInv
<1>3. OneRefresh /\ \A t \in Slots : RanksOK(play[t])
  BY <1>2 DEF RankInv
<1>4. PICK R \in Boards : R = c.rows
  BY DEF RefreshCall, Boards
<1>5. Ordered(R) /\ Backed(R) /\ Covers(board, R)
  BY <1>1, <1>3, <1>4 DEF RanksOK
<1>6. board \in Boards
  BY DEF Boards, GameBase, GameTables
<1>7. board' = R
  <2>1. \A u \in Users : board'[u] = R[u]
    BY <1>2, <1>4, <1>5 DEF Covers
  <2>2. board' \in [Users -> BoardRow \cup {None}]
    BY <1>2, <1>4, <1>6 DEF Boards
  <2> QED BY <2>1, <2>2 DEF Boards
<1>8. \A t \in Slots : play'[t] = IF t = s THEN Idle ELSE play[t]
  BY <1>2 DEF GameBase, GameCallsOK
<1>9. (Ordered(board) /\ Backed(board))'
  BY <1>5, <1>7 DEF Ordered, Backed, Backs
<1>10. OneRefresh'
  BY <1>3, <1>8, IdlePlay DEF OneRefresh
<1>11. ASSUME NEW t \in Slots PROVE RanksOK(play[t])'
  <2>1. CASE t = s
    BY <1>8, <2>1, IdlePlay DEF RanksOK
  <2>2. CASE t # s
    <3>1. play'[t] = play[t] /\ play[t].pc # "refresh"
      BY <1>1, <1>3, <1>8, <2>2 DEF OneRefresh
    <3>2. ASSUME play[t].pc = "nearby" PROVE Backs(R, play[t].entry.rank, play[t].entry.total)
      <4>1. Backs(board, play[t].entry.rank, play[t].entry.total)
        BY <1>3, <3>2 DEF RanksOK
      <4>2. play[t] \in RankCall
        BY <3>2, CallOf, GameKinds
      <4>3. play[t].entry.total \in Nat
        BY <4>2 DEF RankCall, BoardRow
      <4> QED BY <1>5, <1>6, <4>1, <4>3, BacksStays
    <3> QED BY <1>7, <3>1, <3>2 DEF RanksOK, Backs
  <2> QED BY <2>1, <2>2
<1> QED BY <1>9, <1>10, <1>11

LEMMA RankStep == GameBase /\ LevelInv /\ RankInv /\ [GameNext]_gameVars => RankInv'
<1> SUFFICES ASSUME GameBase, LevelInv, RankInv, [GameNext]_gameVars PROVE RankInv'
  OBVIOUS
<1>1. CASE UNCHANGED gameVars \/ Midnight
  BY <1>1 DEF gameVars, Midnight, gameHistory, RankInv, RanksOK, OneRefresh, Ordered, Backed,
     Backs, Covers
<1>2. ASSUME NEW s \in Slots, GameRequest(s) PROVE RankInv'
  BY <1>2, RankRequest, RankRefresh DEF GameRequest
<1>3. ASSUME NEW q, q = Idle \/ q \in CheckInCall PROVE q.pc \notin {"refresh", "nearby"}
  BY <1>3, IdlePlay DEF CheckInCall
<1>4. ASSUME NEW s \in Slots, GameStep(s) PROVE RankInv'
  <2>1. CASE Look(s)
    <3>1. UNCHANGED <<board, mixed>>
      BY <2>1 DEF Look, gameHistory
    <3> QED BY <1>3, <2>1, <3>1, LookIs, RankQuiet DEF PlannedFrom
  <2>2. CASE CreateStreak(s)
    <3>1. UNCHANGED <<board, mixed>>
      BY <2>2 DEF CreateStreak, gameHistory
    <3> QED BY <1>3, <2>2, <3>1, CreateIs, RankQuiet DEF PlannedFrom
  <2>3. CASE FindBadge(s) \/ EarnBadge(s)
    <3>1. UNCHANGED <<board, mixed>>
      BY <2>3 DEF FindBadge, EarnBadge, gameHistory
    <3> QED BY <1>3, <2>3, <3>1, BadgeIs, RankQuiet DEF SameCheckIn
  <2>4. CASE AddXp(s)
    <3>1. UNCHANGED <<board, mixed>>
      BY <2>4 DEF AddXp
    <3> QED BY <1>3, <2>4, <3>1, AddXpIs, RankQuiet DEF SameCheckIn
  <2>5. CASE WriteLevel(s)
    <3>1. UNCHANGED <<board, mixed>>
      BY <2>5 DEF WriteLevel, gameHistory
    <3> QED BY <1>3, <2>5, <3>1, WriteLevelIs, RankQuiet DEF SameCheckIn
  <2>6. CASE WriteStreak(s)
    <3>1. UNCHANGED <<board, mixed>>
      BY <2>6 DEF WriteStreak, gameHistory
    <3> QED BY <1>3, <2>6, <3>1, WriteStreakIs, RankQuiet
  <2>7. CASE WriteFreeze(s) \/ AnswerMyRank(s)
    <3>1. play' = [play EXCEPT ![s] = Idle] /\ UNCHANGED <<board, mixed>>
      BY <2>7 DEF WriteFreeze, AnswerMyRank, PlayGoto, Goto, gameHistory
    <3> QED BY <1>3, <3>1, RankQuiet
  <2> QED BY <1>4, <2>1, <2>2, <2>3, <2>4, <2>5, <2>6, <2>7, RankWrite DEF GameStep
<1>5. ASSUME NEW s \in Slots, GameDie(s) PROVE RankInv'
  <2>1. play' = [play EXCEPT ![s] = Idle] /\ UNCHANGED <<board, mixed>>
    BY <1>5 DEF GameDie, Die, Goto
  <2> QED BY <1>3, <2>1, RankQuiet
<1> QED BY <1>1, <1>2, <1>4, <1>5 DEF GameNext

LEMMA RankStart == GameInit => RankInv
<1> SUFFICES ASSUME GameInit PROVE RankInv
  OBVIOUS
<1>1. play = [s \in Slots |-> Idle] /\ \E rank \in Rankings : board = Snapshot(rank)
  BY DEF GameInit
<1>2. Ordered(board) /\ Backed(board)
  BY <1>1, InitInv, SnapshotRanks DEF LevelInv
<1> QED BY <1>1, <1>2, IdlePlay DEF RankInv, OneRefresh, RanksOK

LEMMA RankGives == GameBase /\ RankInv => RankMakesSense
<1> SUFFICES ASSUME GameBase, RankInv, NEW s \in Slots, play[s].pc = "nearby", ~mixed,
                    NEW u \in NearestAbove(play[s].entry)
             PROVE  XpToNextRank(play[s].entry, u) >= 1
  BY DEF RankMakesSense
<1>1. PICK c \in RankCall : c = play[s]
  BY CallOf, GameKinds
<1>2. PICK rank \in Nat, total \in Nat : rank = c.entry.rank /\ total = c.entry.total
  BY DEF RankCall, BoardRow
<1>3. Ordered(board) /\ Backs(board, rank, total)
  BY <1>1, <1>2 DEF RankInv, RanksOK
<1>4. u \in Users /\ board[u] # None /\ board[u].rank < rank
  BY <1>1, <1>2 DEF NearestAbove, Above
<1>5. board \in Boards
  BY DEF Boards, GameBase, GameTables
<1>6. board[u].total >= total
  BY <1>3, <1>4, <1>5, NextAbove
<1>7. PICK n \in Nat : n = board[u].total
  BY <1>4, <1>5 DEF Boards, BoardRow
<1>8. XpToNextRank(play[s].entry, u) = n - total + 1
  BY <1>1, <1>2, <1>7 DEF XpToNextRank
<1> QED BY <1>6, <1>7, <1>8

\* While refreshes do not overlap, the neighbour that getMyRank finds above the
\* entry it has read has at least its total, however often the board has been
\* refreshed between the two reads: the XP to the next rank is at least one.
THEOREM NextRank == GameSpec => []RankMakesSense
BY InitInv, StepInv, BaseInit, BaseStep, RankStart, RankStep, RankGives, PTL DEF GameSpec

-----------------------------------------------------------------------------
(***************************************************************************)
(* XP and its causes.  The total of a player, with the rewards that are on *)
(* their way, is at most what the check-ins paid and the badges are worth; *)
(* every step adds as much to the one side as to the other, and only a     *)
(* call that dies takes something away.                                    *)
(***************************************************************************)
DaysWorth(paid) == SumFunction([i \in DOMAIN paid |-> paid[i][2]])
BadgesWorth(earned, u) == SumFunctionOnSet(Reward, {b \in Badges : <<u, b>> \in earned})

Owing(calls, u) == {s \in Slots : calls[s].user = u /\ calls[s].pc = "badgeXp"}
OnTheWay(calls, u) == SumFunction([s \in Owing(calls, u) |-> Reward[Head(calls[s].badges)]])

\* What one call has on the way for `u`.
Owes(c, u) == IF c.user = u /\ c.pc = "badgeXp" THEN Reward[Head(c.badges)] ELSE 0

XpBacked(u) ==
  LET sofar == Profile(u).total + OnTheWay(play, u)
      paid == DaysWorth(daily[u]) + BadgesWorth(badge, u)
  IN sofar <= paid /\ (u \notin muddled => sofar = paid)

LEMMA BackedEach == XpIsBacked <=> \A u \in Users : XpBacked(u)
BY DEF XpIsBacked, XpBacked, DaysWorth, BadgesWorth, OnTheWay, Owing, MyBadges

LEMMA FiniteParts == IsFiniteSet(Slots) /\ IsFiniteSet(Badges)
<1>1. IsFiniteSet(Slots)
  BY GameAssumption, Zenon
<1>2. Badges = {"Digital Native", "Night Owl"}
  <2>1. Reward \in [{"Digital Native", "Night Owl"} -> Nat]
    BY GameAssumption, Zenon
  <2> QED BY <2>1 DEF Badges
<1>3. IsFiniteSet({"Digital Native"}) /\ IsFiniteSet({"Digital Native"} \cup {"Night Owl"})
  BY FS_Singleton, FS_AddElement
<1>4. Badges = {"Digital Native"} \cup {"Night Owl"}
  BY <1>2
<1> QED BY <1>1, <1>3, <1>4

LEMMA BadgesWorthIs ==
  ASSUME NEW earned, NEW u
  PROVE  BadgesWorth(earned, u) \in Nat
<1>1. PICK H : H = {b \in Badges : <<u, b>> \in earned}
  OBVIOUS
<1>2. IsFiniteSet(H) /\ \A b \in H : Reward[b] \in Nat
  BY <1>1, FiniteParts, FS_Subset, Rewards
<1>3. SumFunctionOnSet(Reward, H) \in Nat
  BY <1>2, SumRemoves
<1> QED BY <1>1, <1>3 DEF BadgesWorth

\* A badge adds its reward to the worth of the badges of its owner.
LEMMA BadgeAdds ==
  ASSUME NEW earned, NEW u, NEW v, NEW b \in Badges
  PROVE  BadgesWorth(earned \cup {<<v, b>>}, u) =
           BadgesWorth(earned, u) + (IF u = v /\ <<v, b>> \notin earned THEN Reward[b] ELSE 0)
<1>1. PICK H : H = {x \in Badges : <<u, x>> \in earned}
  OBVIOUS
<1>2. PICK J : J = {x \in Badges : <<u, x>> \in earned \cup {<<v, b>>}}
  OBVIOUS
<1>3. PICK n \in Nat : n = SumFunctionOnSet(Reward, H)
  BY <1>1, BadgesWorthIs DEF BadgesWorth
<1>4. CASE u = v /\ <<v, b>> \notin earned
  <2>1. b \in J /\ H = J \ {b}
    BY <1>1, <1>2, <1>4
  <2>2. IsFiniteSet(J) /\ \A x \in J : Reward[x] \in Nat
    BY <1>2, FiniteParts, FS_Subset, Rewards
  <2>3. SumFunctionOnSet(Reward, J) = Reward[b] + SumFunctionOnSet(Reward, H)
    BY <2>1, <2>2, SumRemoves
  <2>4. Reward[b] \in Nat
    BY Rewards
  <2> QED BY <1>1, <1>2, <1>3, <1>4, <2>3, <2>4 DEF BadgesWorth
<1>5. CASE ~(u = v /\ <<v, b>> \notin earned)
  <2>1. H = J
    BY <1>1, <1>2, <1>5
  <2>2. BadgesWorth(earned, u) = n /\ BadgesWorth(earned \cup {<<v, b>>}, u) = n
    BY <1>1, <1>2, <1>3, <2>1 DEF BadgesWorth
  <2> QED BY <1>5, <2>2
<1> QED BY <1>4, <1>5

LEMMA DaysWorthIs ==
  ASSUME NEW paid \in Seq(Nat \X Nat)
  PROVE  DaysWorth(paid) \in Nat
<1>1. PICK n \in Nat : n = Len(paid) /\ DOMAIN paid = 1 .. n
  BY LenProperties
<1>2. PICK f : f = [i \in 1 .. n |-> paid[i][2]]
  OBVIOUS
<1>3. IsFiniteSet(1 .. n)
  BY FS_Interval
<1>4. \A i \in 1 .. n : f[i] \in Nat
  BY <1>1, <1>2
<1>5. SumFunctionOnSet(f, 1 .. n) \in Nat
  BY <1>3, <1>4, SumRemoves
<1>6. DOMAIN f = 1 .. n
  BY <1>2
<1> QED BY <1>1, <1>2, <1>5, <1>6 DEF DaysWorth, SumFunction

LEMMA NoDays == DaysWorth(<<>>) = 0
<1>1. PICK f : f = [i \in DOMAIN <<>> |-> <<>>[i][2]]
  OBVIOUS
<1>2. DOMAIN f = {}
  BY <1>1
<1> QED BY <1>1, <1>2, SumEmpty DEF DaysWorth, SumFunction

\* A check-in adds what it pays.
LEMMA DayAdds ==
  ASSUME NEW paid \in Seq(Nat \X Nat), NEW day \in Nat, NEW amount \in Nat
  PROVE  DaysWorth(Append(paid, <<day, amount>>)) = DaysWorth(paid) + amount
<1>1. PICK n \in Nat : n = Len(paid) /\ DOMAIN paid = 1 .. n
  BY LenProperties
<1>2. PICK more \in Seq(Nat \X Nat) : more = Append(paid, <<day, amount>>)
  BY AppendProperties
<1>3. /\ DOMAIN more = 1 .. n + 1 /\ more[n + 1] = <<day, amount>>
      /\ \A i \in 1 .. n : more[i] = paid[i]
  BY <1>1, <1>2, AppendProperties, LenProperties
<1>4. PICK f : f = [i \in 1 .. n |-> paid[i][2]]
  OBVIOUS
<1>5. PICK g : g = [i \in 1 .. n + 1 |-> more[i][2]]
  OBVIOUS
<1>6. /\ \A i \in 1 .. n : f[i] \in Nat /\ g[i] = f[i]
      /\ g[n + 1] = amount
  BY <1>1, <1>3, <1>4, <1>5
<1>7. PICK T, D, z : /\ T = 1 .. n + 1 /\ D = 1 .. n /\ z = n + 1
                       /\ z \in T /\ T \ {z} = D
  OBVIOUS
<1>8. IsFiniteSet(D) /\ IsFiniteSet(T)
  BY <1>7, FS_Interval
<1>9. /\ \A i \in T : g[i] \in Nat
      /\ \A i \in D : f[i] = g[i] /\ f[i] \in Nat
      /\ \A i \in D : f[i] \in Nat
      /\ g[z] = amount
  BY <1>6, <1>7
<1>10. SumFunctionOnSet(g, T) = g[z] + SumFunctionOnSet(g, D)
  <2>1. z \in T /\ T \ {z} = D
    BY <1>7
  <2>2. \A i \in T : g[i] \in Nat
    BY <1>9
  <2>3. SumFunctionOnSet(g, T) = g[z] + SumFunctionOnSet(g, T \ {z})
    BY <1>8, <2>1, <2>2, SumRemoves
  <2> QED BY <2>1, <2>3
<1>11. SumFunctionOnSet(f, D) = SumFunctionOnSet(g, D)
  BY <1>8, <1>9, SumSame
<1>12. SumFunctionOnSet(f, D) \in Nat
  BY <1>8, <1>9, SumRemoves
<1>13. DaysWorth(paid) = SumFunctionOnSet(f, D)
  BY <1>1, <1>4, <1>7 DEF DaysWorth, SumFunction
<1>14. DaysWorth(more) = SumFunctionOnSet(g, T)
  BY <1>3, <1>5, <1>7 DEF DaysWorth, SumFunction
<1> QED BY <1>2, <1>9, <1>10, <1>11, <1>12, <1>13, <1>14

\* A call that has a reward to award has its badge.
HasBadge(c) == c.pc = "badgeXp" => c.badges # <<>>

LEMMA OwesType ==
  ASSUME NEW c \in GameCall, HasBadge(c), NEW u
  PROVE  Owes(c, u) \in Nat
<1>1. CASE c.user = u /\ c.pc = "badgeXp"
  <2>1. c.badges \in Seq(Badges) /\ c.badges # <<>>
    BY <1>1, GameKinds DEF HasBadge, CheckInLabels, CheckInCall
  <2>2. Head(c.badges) \in Badges
    BY <2>1, HeadTailProperties
  <2> QED BY <1>1, <2>2, Rewards DEF Owes
<1>2. CASE ~(c.user = u /\ c.pc = "badgeXp")
  BY <1>2 DEF Owes
<1> QED BY <1>1, <1>2

\* What is on the way is what one call owes and a rest that a step of that call
\* leaves alone.
OwesAndRest(calls, c, next, q, u) ==
  \E rest \in Nat : /\ OnTheWay(calls, u) = rest + Owes(c, u)
                   /\ OnTheWay(next, u) = rest + Owes(q, u)

LEMMA OwedBySlot ==
  ASSUME GameCallsOK, NEW s \in Slots, NEW q \in GameCall, HasBadge(q),
         NEW next, next = [play EXCEPT ![s] = q], NEW u
  PROVE  OwesAndRest(play, play[s], next, q, u)
<1> DEFINE Terms(calls) == [t \in Owing(calls, u) |-> Reward[Head(calls[t].badges)]]
<1>1. PICK R : R = {t \in Slots \ {s} : play[t].user = u /\ play[t].pc = "badgeXp"}
  OBVIOUS
<1>2. /\ play \in [Slots -> GameCall] /\ next \in [Slots -> GameCall] /\ next[s] = q
      /\ \A t \in Slots \ {s} : next[t] = play[t]
      /\ \A t \in Slots : HasBadge(play[t])
  BY DEF GameCallsOK, GameCallOK, BadgeLabels, HasBadge
<1>3. ASSUME NEW calls \in [Slots -> GameCall], \A t \in Slots : HasBadge(calls[t]),
             \A t \in Slots \ {s} : calls[t] = play[t]
      PROVE  /\ SumFunctionOnSet(Terms(calls), R) \in Nat
             /\ \A t \in R : Terms(calls)[t] = Reward[Head(play[t].badges)]
             /\ \A t \in R : Terms(calls)[t] \in Nat
             /\ OnTheWay(calls, u) = SumFunctionOnSet(Terms(calls), R) + Owes(calls[s], u)
  <2>1. PICK f : f = Terms(calls)
    OBVIOUS
  <2>2. PICK W : W = Owing(calls, u)
    OBVIOUS
  <2>3. f = [t \in W |-> Reward[Head(calls[t].badges)]] /\ DOMAIN f = W
    BY <2>1, <2>2
  <2>4. W \in SUBSET Slots /\ R = W \ {s} /\ R \in SUBSET W
    BY <1>1, <1>3, <2>2 DEF Owing
  <2>5. ASSUME NEW t \in W PROVE f[t] \in Nat /\ f[t] = Owes(calls[t], u)
    <3>1. calls[t].user = u /\ calls[t].pc = "badgeXp" /\ calls[t] \in GameCall /\ t \in Slots
      BY <1>3, <2>2, <2>5 DEF Owing
    <3>2. f[t] = Owes(calls[t], u)
      BY <2>3, <3>1 DEF Owes
    <3> QED BY <1>3, <3>1, <3>2, OwesType
  <2>6. IsFiniteSet(W) /\ IsFiniteSet(R)
    BY <2>4, FiniteParts, FS_Subset
  <2>7. (\A t \in W : f[t] \in Nat) /\ (\A t \in R : f[t] \in Nat)
    BY <2>4, <2>5
  <2>8. PICK n \in Nat : n = SumFunctionOnSet(f, R)
    BY <2>6, <2>7, SumRemoves
  <2>9. OnTheWay(calls, u) = SumFunctionOnSet(f, W)
    BY <2>1, <2>2, <2>3 DEF OnTheWay, SumFunction
  <2>10. SumFunctionOnSet(f, W) = n + Owes(calls[s], u)
    <3>1. CASE s \in W
      <4>1. SumFunctionOnSet(f, W) = f[s] + SumFunctionOnSet(f, R)
        BY <2>4, <2>6, <2>7, <3>1, SumRemoves
      <4> QED BY <2>5, <2>8, <3>1, <4>1
    <3>2. CASE s \notin W
      <4>1. W = R /\ Owes(calls[s], u) = 0
        BY <2>2, <2>4, <3>2 DEF Owing, Owes
      <4> QED BY <2>8, <4>1
    <3> QED BY <3>1, <3>2
  <2>11. \A t \in R : f[t] = Reward[Head(play[t].badges)]
    BY <1>1, <1>3, <2>3, <2>4
  <2> QED BY <2>1, <2>7, <2>8, <2>9, <2>10, <2>11
<1> DEFINE A == Terms(play)
           B == Terms(next)
<1>4. /\ SumFunctionOnSet(A, R) \in Nat /\ OnTheWay(play, u) = SumFunctionOnSet(A, R) + Owes(play[s], u)
      /\ \A t \in R : A[t] = Reward[Head(play[t].badges)]
      /\ \A t \in R : A[t] \in Nat
  BY <1>2, <1>3
<1>5. \A t \in Slots : HasBadge(next[t])
  BY <1>2
<1>6. /\ OnTheWay(next, u) = SumFunctionOnSet(B, R) + Owes(q, u)
      /\ \A t \in R : B[t] = Reward[Head(play[t].badges)]
  BY <1>2, <1>3, <1>5
<1> HIDE DEF A, B
<1>7. IsFiniteSet(R)
  BY <1>1, FiniteParts, FS_Subset
<1>8. \A t \in R : A[t] = B[t] /\ A[t] \in Nat
  BY <1>4, <1>6
<1>9. SumFunctionOnSet(A, R) = SumFunctionOnSet(B, R)
  BY <1>7, <1>8, SumSame
<1> QED BY <1>4, <1>6, <1>9 DEF OwesAndRest

LEMMA BackedEachNext == (\A u \in Users : XpBacked(u)') => XpIsBacked'
BY DEF XpIsBacked, XpBacked, DaysWorth, BadgesWorth, OnTheWay, Owing, MyBadges

TotalOf(row) == IF row = None THEN 0 ELSE row.total

\* One call goes on as `q`, and adds as much to what `u` has as to its causes.
LEMMA BackedMoves ==
  ASSUME GameBase, GameBase', NEW u \in Users, XpBacked(u), NEW s \in Slots, NEW q \in GameCall,
         play' = [play EXCEPT ![s] = q], muddled \subseteq muddled',
         NEW a \in Nat, NEW d \in Nat, NEW b \in Nat,
         TotalOf(xp'[u]) = TotalOf(xp[u]) + a,
         DaysWorth(daily'[u]) = DaysWorth(daily[u]) + d,
         BadgesWorth(badge', u) = BadgesWorth(badge, u) + b,
         a + Owes(q, u) <= d + b + Owes(play[s], u),
         u \notin muddled' => a + Owes(q, u) = d + b + Owes(play[s], u)
  PROVE  XpBacked(u)'
<1>1. PICK c \in GameCall : c = play[s] /\ HasBadge(c)
  BY CallOf DEF GameCallOK, BadgeLabels, HasBadge
<1>q. HasBadge(q)
  <2>1. play'[s] = q /\ GameCallOK(play[s])'
    BY DEF GameBase, GameCallsOK
  <2> QED BY <2>1 DEF GameCallOK, BadgeLabels, HasBadge
<1>2. PICK m \in Nat, n \in Nat : m = Owes(c, u) /\ n = Owes(q, u)
  BY <1>1, <1>q, OwesType
<1>3. PICK rest \in Nat : /\ OnTheWay(play, u) = rest + m
                          /\ OnTheWay(play', u) = rest + n
  <2>1. PICK next : next = [play EXCEPT ![s] = q]
    OBVIOUS
  <2>a. GameCallsOK
    BY DEF GameBase
  <2>2. OwesAndRest(play, play[s], next, q, u)
    BY <1>q, <2>1, <2>a, OwedBySlot
  <2> QED BY <1>1, <1>2, <2>1, <2>2 DEF OwesAndRest
<1>4. PICK t \in Nat, p \in Nat, h \in Nat :
        t = TotalOf(xp[u]) /\ p = DaysWorth(daily[u]) /\ h = BadgesWorth(badge, u)
  <2>1. xp[u] \in XpRow \cup {None} /\ daily[u] \in Seq(Nat \X Nat)
    BY DEF GameBase, GameTables
  <2>2. TotalOf(xp[u]) \in Nat
    BY <2>1 DEF TotalOf, XpRow
  <2> QED BY <2>1, <2>2, DaysWorthIs, BadgesWorthIs
<1>5. Profile(u).total = t /\ Profile(u).total' = t + a
  BY <1>4 DEF Profile, TotalOf
<1>6. t + (rest + m) <= p + h /\ (u \notin muddled => t + (rest + m) = p + h)
  BY <1>3, <1>4, <1>5 DEF XpBacked
<1>7. a + n <= d + b + m /\ (u \notin muddled' => a + n = d + b + m)
  BY <1>1, <1>2
<1>8. (t + a) + (rest + n) <= (p + d) + (h + b)
  BY <1>6, <1>7
<1>9. u \notin muddled' => (t + a) + (rest + n) = (p + d) + (h + b)
  BY <1>6, <1>7
<1>10. XpBacked(u)' <=>
        /\ Profile(u).total' + OnTheWay(play', u) <= DaysWorth(daily'[u]) + BadgesWorth(badge', u)
        /\ u \notin muddled' =>
             Profile(u).total' + OnTheWay(play', u) = DaysWorth(daily'[u]) + BadgesWorth(badge', u)
  BY DEF XpBacked, DaysWorth, BadgesWorth, OnTheWay, Owing
<1> QED BY <1>3, <1>4, <1>5, <1>8, <1>9, <1>10

\* A step of one call that leaves the totals and their causes alone.
LEMMA BackedQuiet ==
  ASSUME GameBase, GameBase', XpIsBacked, NEW s \in Slots, NEW q \in GameCall,
         play' = [play EXCEPT ![s] = q], muddled \subseteq muddled',
         \A u \in Users : TotalOf(xp'[u]) = TotalOf(xp[u]),
         UNCHANGED <<daily, badge>>, q.pc # "badgeXp",
         \A u \in Users \ muddled' : Owes(play[s], u) = 0
  PROVE  XpIsBacked'
<1>1. ASSUME NEW u \in Users PROVE XpBacked(u)'
  <2>1. Owes(q, u) = 0
    BY DEF Owes
  <2>2. PICK m \in Nat : m = Owes(play[s], u)
    BY CallOf, OwesType DEF GameCallOK, BadgeLabels, HasBadge
  <2>3. TotalOf(xp[u]) \in Nat /\ DaysWorth(daily[u]) \in Nat /\ BadgesWorth(badge, u) \in Nat
    <3>1. xp[u] \in XpRow \cup {None} /\ daily[u] \in Seq(Nat \X Nat)
      BY DEF GameBase, GameTables
    <3>2. TotalOf(xp[u]) \in Nat
      BY <3>1 DEF TotalOf, XpRow
    <3> QED BY <3>1, <3>2, DaysWorthIs, BadgesWorthIs
  <2>4. PICK z \in Nat : z = 0
    OBVIOUS
  <2>5. /\ TotalOf(xp'[u]) = TotalOf(xp[u]) + z
        /\ DaysWorth(daily'[u]) = DaysWorth(daily[u]) + z
        /\ BadgesWorth(badge', u) = BadgesWorth(badge, u) + z
    BY <2>3, <2>4
  <2>6. /\ z + Owes(q, u) <= z + z + Owes(play[s], u)
        /\ u \notin muddled' => z + Owes(q, u) = z + z + Owes(play[s], u)
    BY <2>1, <2>2, <2>4
  <2>7. XpBacked(u)
    BY BackedEach
  <2> QED BY <2>5, <2>6, <2>7, BackedMoves
<1> QED BY <1>1, BackedEachNext

LEMMA QuietLook ==
  ASSUME GameBase, GameBase', XpIsBacked, NEW s \in Slots,
         Look(s) \/ CreateStreak(s) \/ WriteStreak(s) \/ FindBadge(s)
  PROVE  XpIsBacked'
<1>1. \E q \in GameCall : play' = [play EXCEPT ![s] = q] /\ q.pc # "badgeXp"
  <2>1. CASE Look(s)
    BY <2>1, LookIs, IdlePlay DEF PlannedFrom
  <2>2. CASE CreateStreak(s)
    BY <2>2, CreateIs, IdlePlay DEF PlannedFrom
  <2>3. CASE WriteStreak(s)
    BY <2>3, WriteStreakIs DEF GameCall
  <2>4. CASE FindBadge(s)
    <3>1. PICK c \in CheckInCall, q \in GameCall :
            c = play[s] /\ play' = [play EXCEPT ![s] = q] /\ c.badges # <<>>
      BY <2>4, BadgeIs
    <3>2. q = SkipBadge(c) \/ q = [c EXCEPT !.pc = "earn"]
      <4>1. play'[s] = q
        BY <3>1 DEF GameBase, GameCallsOK
      <4>2. play'[s] = SkipBadge(c) \/ play'[s] = [c EXCEPT !.pc = "earn"]
        BY <2>4, <3>1 DEF FindBadge, PlayGoto, Goto, GameBase, GameCallsOK
      <4> QED BY <4>1, <4>2
    <3>3. q.pc # "badgeXp"
      BY <3>1, <3>2, SkipBadgeIs DEF CheckInCall
    <3> QED BY <3>1, <3>3
  <2> QED BY <2>1, <2>2, <2>3, <2>4
<1>2. PICK q \in GameCall : play' = [play EXCEPT ![s] = q] /\ q.pc # "badgeXp"
  BY <1>1
<1>3. play[s].pc # "badgeXp" /\ UNCHANGED <<xp, daily, badge, muddled>>
  BY DEF Look, CreateStreak, WriteStreak, FindBadge, gameHistory
<1>4. \A u \in Users \ muddled' : Owes(play[s], u) = 0
  BY <1>3 DEF Owes
<1> QED BY <1>2, <1>3, <1>4, BackedQuiet

LEMMA QuietWrite ==
  ASSUME GameBase, GameBase', LevelInv, XpIsBacked, NEW s \in Slots,
         WriteLevel(s) \/ WriteFreeze(s) \/ WriteBoard(s) \/ AnswerMyRank(s)
  PROVE  XpIsBacked'
<1>1. CASE WriteLevel(s)
  <2>1. PICK c \in CheckInCall, q \in GameCall, row \in XpRow :
          /\ c = play[s] /\ c.pc \in {"badgeLevel", "level"}
          /\ play' = [play EXCEPT ![s] = q]
          /\ xp[c.user] # None /\ xp' = [xp EXCEPT ![c.user] = row]
          /\ row.total = xp[c.user].total
          /\ c.pc = "level" => q = Idle
          /\ c.pc = "badgeLevel" => q.pc \in {"find", "streak"}
    BY <1>1, WriteLevelIs
  <2>2. q.pc # "badgeXp"
    BY <2>1, IdlePlay
  <2>3. \A u \in Users : TotalOf(xp'[u]) = TotalOf(xp[u])
    <3>1. \A u \in Users : xp'[u] = IF u = c.user THEN row ELSE xp[u]
      BY <2>1 DEF GameBase, GameTables
    <3> QED BY <2>1, <3>1, NoneApart DEF TotalOf
  <2>4. UNCHANGED <<daily, badge, muddled>>
    BY <1>1 DEF WriteLevel, gameHistory
  <2>5. \A u \in Users \ muddled' : Owes(play[s], u) = 0
    BY <2>1 DEF Owes
  <2> QED BY <2>1, <2>2, <2>3, <2>4, <2>5, BackedQuiet
<1>2. CASE WriteFreeze(s) \/ WriteBoard(s) \/ AnswerMyRank(s)
  <2>1. /\ play' = [play EXCEPT ![s] = Idle] /\ play[s].pc # "badgeXp"
        /\ UNCHANGED <<xp, daily, badge, muddled>>
    BY <1>2 DEF WriteFreeze, WriteBoard, AnswerMyRank, PlayGoto, Goto, gameHistory
  <2>2. \A u \in Users \ muddled' : Owes(play[s], u) = 0
    BY <2>1 DEF Owes
  <2> QED BY <2>1, <2>2, IdlePlay, BackedQuiet
<1> QED BY <1>1, <1>2

LEMMA QuietBegin ==
  ASSUME GameBase, GameBase', XpIsBacked, NEW s \in Slots, GameRequest(s)
  PROVE  XpIsBacked'
<1>1. \E q \in GameCall : /\ play' = [play EXCEPT ![s] = q] /\ q.pc # "badgeXp"
                          /\ play[s] = Idle /\ muddled \subseteq muddled'
                          /\ UNCHANGED <<xp, daily, badge>>
  <2>1. CASE RefreshLeaderboardCache(s)
    <3>1. PICK q \in RefreshCall :
            /\ play' = [play EXCEPT ![s] = q] /\ play[s] = Idle /\ q.pc = "refresh"
            /\ UNCHANGED <<xp, daily, badge, muddled>>
      BY <2>1, RefreshIs
    <3>2. q \in GameCall
      BY DEF GameCall
    <3> QED BY <3>1, <3>2
  <2>2. ASSUME NEW u \in Users, CheckIn(s, u) \/ UseStreakFreeze(s, u) \/ GetMyRank(s, u)
        PROVE  \E q \in GameCall : /\ play' = [play EXCEPT ![s] = q] /\ q.pc # "badgeXp"
                                   /\ play[s] = Idle /\ muddled \subseteq muddled'
                                   /\ UNCHANGED <<xp, daily, badge>>
    <3>1. PICK q \in GameCall :
            /\ play' = [play EXCEPT ![s] = q] /\ play[s] = Idle
            /\ q.pc = "look" \/ q.pc = "freeze" \/ q.pc = "nearby"
            /\ muddled' = muddled \cup ({u} \cap Busy(play))
            /\ UNCHANGED <<xp, badge, daily>>
      BY <2>2, RequestIs
    <3> QED BY <3>1
  <2> QED BY <2>1, <2>2 DEF GameRequest
<1>2. PICK q \in GameCall : /\ play' = [play EXCEPT ![s] = q] /\ q.pc # "badgeXp"
                           /\ play[s] = Idle /\ muddled \subseteq muddled'
                           /\ UNCHANGED <<xp, daily, badge>>
  BY <1>1
<1>3. \A u \in Users \ muddled' : Owes(play[s], u) = 0
  BY <1>2, IdlePlay DEF Owes
<1> QED BY <1>2, <1>3, BackedQuiet

\* A call that dies takes with it what it has on the way.
LEMMA DieBacked ==
  ASSUME GameBase, GameBase', XpIsBacked, NEW s \in Slots, GameDie(s)
  PROVE  XpIsBacked'
<1>1. /\ play' = [play EXCEPT ![s] = Idle]
      /\ UNCHANGED <<xp, daily, badge>>
      /\ muddled' = muddled \cup ({play[s].user} \ {None})
  BY DEF GameDie, Die, Goto
<1>2. \A u \in Users \ muddled' : Owes(play[s], u) = 0
  BY <1>1, NoneApart DEF Owes
<1> QED BY <1>1, <1>2, IdlePlay, BackedQuiet

\* The reward of a badge that was not held is on the way.
LEMMA EarnBacked ==
  ASSUME GameBase, GameBase', XpIsBacked, NEW s \in Slots, EarnBadge(s)
  PROVE  XpIsBacked'
<1>1. PICK c \in CheckInCall, q \in GameCall :
        /\ c = play[s] /\ c.badges # <<>> /\ play' = [play EXCEPT ![s] = q]
  BY BadgeIs
<1>2. PICK b \in Badges : b = Head(c.badges)
  BY <1>1, HeadTailProperties DEF CheckInCall
<1>3. PICK w : w = <<c.user, b>>
  OBVIOUS
<1>4. /\ c.pc = "earn" /\ badge' = badge \cup {w} /\ UNCHANGED <<xp, daily, muddled>>
      /\ q = IF w \in badge THEN Idle
             ELSE IF Reward[b] > 0 THEN [c EXCEPT !.pc = "badgeXp"] ELSE SkipBadge(c)
  <2>1. play'[s] = q
    BY <1>1 DEF GameBase, GameCallsOK
  <2>2. play'[s] = IF w \in badge THEN Idle
                   ELSE IF Reward[b] > 0 THEN [c EXCEPT !.pc = "badgeXp"] ELSE SkipBadge(c)
    BY <1>1, <1>2, <1>3 DEF EarnBadge, PlayGoto, Goto, GameBase, GameCallsOK
  <2>3. c.pc = "earn" /\ badge' = badge \cup {w} /\ UNCHANGED <<xp, daily, muddled>>
    BY <1>1, <1>2, <1>3 DEF EarnBadge, gameHistory
  <2> QED BY <2>1, <2>2, <2>3
<1>5. ASSUME NEW u \in Users PROVE XpBacked(u)'
  <2>1. PICK h \in Nat : h = IF u = c.user /\ w \notin badge THEN Reward[b] ELSE 0
    BY Rewards
  <2>2. BadgesWorth(badge', u) = BadgesWorth(badge, u) + h
    BY <1>3, <1>4, <2>1, BadgeAdds
  <2>3. Owes(play[s], u) = 0
    BY <1>1, <1>4 DEF Owes
  <2>4. Owes(q, u) = h
    <3>1. CASE w \in badge
      BY <1>4, <2>1, <3>1, IdlePlay DEF Owes
    <3>2. CASE w \notin badge /\ Reward[b] > 0
      <4>1. q.pc = "badgeXp" /\ q.user = c.user /\ q.badges = c.badges
        BY <1>4, <3>2 DEF CheckInCall
      <4> QED BY <1>2, <2>1, <3>2, <4>1 DEF Owes
    <3>3. CASE w \notin badge /\ ~(Reward[b] > 0)
      <4>1. q.pc # "badgeXp"
        BY <1>1, <1>4, <3>3, SkipBadgeIs
      <4>2. Reward[b] = 0
        BY <3>3, Rewards
      <4> QED BY <2>1, <4>1, <4>2 DEF Owes
    <3> QED BY <3>1, <3>2, <3>3
  <2>5. PICK z \in Nat : z = 0
    OBVIOUS
  <2>6. TotalOf(xp'[u]) = TotalOf(xp[u]) + z /\ DaysWorth(daily'[u]) = DaysWorth(daily[u]) + z
    <3>1. xp[u] \in XpRow \cup {None} /\ daily[u] \in Seq(Nat \X Nat)
      BY DEF GameBase, GameTables
    <3>2. TotalOf(xp[u]) \in Nat /\ DaysWorth(daily[u]) \in Nat
      BY <3>1, DaysWorthIs DEF TotalOf, XpRow
    <3> QED BY <1>4, <2>5, <3>2
  <2>7. z + Owes(q, u) = z + h + Owes(play[s], u)
    BY <2>3, <2>4, <2>5
  <2>8. XpBacked(u) /\ muddled \subseteq muddled'
    BY <1>4, BackedEach
  <2>9. z + Owes(q, u) <= z + h + Owes(play[s], u)
    BY <2>3, <2>4, <2>5
  <2> QED BY <1>1, <2>2, <2>6, <2>7, <2>8, <2>9, BackedMoves
<1> QED BY <1>5, BackedEachNext

\* An award turns what was on the way, or the pay of the day, into XP.
LEMMA AddXpBacked ==
  ASSUME GameBase, GameBase', XpIsBacked, NEW s \in Slots, AddXp(s)
  PROVE  XpIsBacked'
<1>1. PICK c \in CheckInCall, q \in GameCall, row \in XpRow, amount \in Nat :
        /\ c = play[s] /\ c.pc \in {"badgeXp", "xp"} /\ GameCallOK(c)
        /\ play' = [play EXCEPT ![s] = q]
        /\ xp' = [xp EXCEPT ![c.user] = row]
        /\ amount = IF c.pc = "badgeXp" THEN Reward[Head(c.badges)] ELSE c.amount
        /\ row.total = IF xp[c.user] = None THEN amount ELSE xp[c.user].total + amount
        /\ daily' = IF c.pc = "xp" THEN [daily EXCEPT ![c.user] = Append(@, <<c.day, amount>>)]
                    ELSE daily
        /\ c.pc = "xp" =>
             \/ q = Idle
             \/ SameCheckIn(c, q) /\ q.pc = "level"
        /\ c.pc = "badgeXp" =>
             /\ SameCheckIn(c, q) /\ q.pc \in {"find", "badgeLevel", "streak"}
             /\ q.pc # "streak" => q.badges # <<>>
             /\ q.pc = "badgeLevel" => q.badges = c.badges
             /\ q.pc # "badgeLevel" => q.badges = Tail(c.badges)
  BY AddXpIs
<1>2. q.pc # "badgeXp" /\ UNCHANGED <<badge, muddled>>
  BY <1>1, IdlePlay DEF AddXp
<1>3. c.user \in Users /\ c.day \in Nat
  BY DEF CheckInCall
<1>4. ASSUME NEW u \in Users PROVE XpBacked(u)'
  <2>1. xp[u] \in XpRow \cup {None} /\ daily[u] \in Seq(Nat \X Nat)
    BY DEF GameBase, GameTables
  <2>2. PICK t \in Nat, p \in Nat, h \in Nat :
          t = TotalOf(xp[u]) /\ p = DaysWorth(daily[u]) /\ h = BadgesWorth(badge, u)
    <3>1. TotalOf(xp[u]) \in Nat
      BY <2>1 DEF TotalOf, XpRow
    <3> QED BY <2>1, <3>1, DaysWorthIs, BadgesWorthIs
  <2>3. PICK a \in Nat : a = IF u = c.user THEN amount ELSE 0
    OBVIOUS
  <2>4. PICK d \in Nat : d = IF u = c.user /\ c.pc = "xp" THEN amount ELSE 0
    OBVIOUS
  <2>5. TotalOf(xp'[u]) = t + a
    <3>1. xp'[u] = IF u = c.user THEN row ELSE xp[u]
      BY <1>1 DEF GameBase, GameTables
    <3>2. TotalOf(row) = row.total
      BY NoneApart DEF TotalOf
    <3>3. u = c.user => row.total = t + amount
      BY <1>1, <2>2 DEF TotalOf
    <3> QED BY <2>2, <2>3, <3>1, <3>2, <3>3
  <2>6. DaysWorth(daily'[u]) = p + d
    <3>1. CASE c.pc = "xp"
      <4>1. daily'[u] = IF u = c.user THEN Append(daily[u], <<c.day, amount>>) ELSE daily[u]
        BY <1>1, <3>1 DEF GameBase, GameTables
      <4> QED BY <1>3, <2>1, <2>2, <2>4, <3>1, <4>1, DayAdds
    <3>2. CASE c.pc # "xp"
      BY <1>1, <2>2, <2>4, <3>2
    <3> QED BY <3>1, <3>2
  <2>7. Owes(q, u) = 0
    BY <1>2 DEF Owes
  <2>8. PICK m \in Nat : m = Owes(c, u) /\ m + d = a
    <3>1. Owes(c, u) = IF u = c.user /\ c.pc = "badgeXp" THEN amount ELSE 0
      BY <1>1 DEF Owes
    <3> QED BY <1>1, <2>3, <2>4, <3>1
  <2>9. PICK z \in Nat : z = 0
    OBVIOUS
  <2>10. BadgesWorth(badge', u) = BadgesWorth(badge, u) + z
    BY <1>2, <2>2, <2>9
  <2>11. a + Owes(q, u) = d + z + Owes(play[s], u) /\ a + Owes(q, u) <= d + z + Owes(play[s], u)
    BY <1>1, <2>7, <2>8, <2>9
  <2>12. XpBacked(u) /\ muddled \subseteq muddled'
    BY <1>2, BackedEach
  <2> QED BY <1>1, <2>2, <2>5, <2>6, <2>10, <2>11, <2>12, BackedMoves
<1> QED BY <1>4, BackedEachNext

LEMMA BackedStep ==
  ASSUME GameBase, GameBase', LevelInv, XpIsBacked, [GameNext]_gameVars
  PROVE  XpIsBacked'
<1>1. CASE UNCHANGED gameVars \/ Midnight
  <2>1. UNCHANGED <<streak, xp, badge, board, play, daily, muddled>>
    BY <1>1 DEF gameVars, Midnight, gameHistory
  <2> QED BY <2>1 DEF XpIsBacked, Profile, MyBadges
<1>2. ASSUME NEW s \in Slots, GameRequest(s) PROVE XpIsBacked'
  BY <1>2, QuietBegin
<1>3. ASSUME NEW s \in Slots, GameStep(s) PROVE XpIsBacked'
  BY <1>3, QuietLook, QuietWrite, EarnBacked, AddXpBacked DEF GameStep
<1>4. ASSUME NEW s \in Slots, GameDie(s) PROVE XpIsBacked'
  BY <1>4, DieBacked
<1> QED BY <1>1, <1>2, <1>3, <1>4 DEF GameNext

LEMMA BackedInit == GameInit => XpIsBacked
<1> SUFFICES ASSUME GameInit, NEW u \in Users PROVE XpBacked(u)
  BY BackedEach
<1>1. badge = {} /\ play = [s \in Slots |-> Idle]
  BY DEF GameInit
<1>2. BadgesWorth(badge, u) = 0
  <2>1. {b \in Badges : <<u, b>> \in badge} = {}
    BY <1>1
  <2> QED BY <2>1, SumEmpty DEF BadgesWorth
<1>3. OnTheWay(play, u) = 0
  <2>1. Owing(play, u) = {}
    BY <1>1, IdlePlay DEF Owing
  <2>2. PICK f : f = [s \in Owing(play, u) |-> Reward[Head(play[s].badges)]]
    OBVIOUS
  <2>3. DOMAIN f = {}
    BY <2>1, <2>2
  <2> QED BY <2>2, <2>3, SumEmpty DEF OnTheWay, SumFunction
<1>4. Profile(u).total = DaysWorth(daily[u]) /\ DaysWorth(daily[u]) \in Nat
  <2>1. CASE (xp[u] = None \/ xp[u] = NewXp) /\ daily[u] = <<>>
    BY <2>1, NoDays, NoneApart DEF Profile, NewXp
  <2>2. CASE /\ xp[u] = [total |-> DAILY_LOGIN, level |-> Level(DAILY_LOGIN)]
             /\ daily[u] = << <<1, DAILY_LOGIN>> >>
    <3>1. DAILY_LOGIN \in Nat /\ <<>> \in Seq(Nat \X Nat)
      BY Thresholds
    <3>2. PICK none \in Seq(Nat \X Nat) : none = <<>>
      BY <3>1
    <3>5. daily[u] = Append(none, <<1, DAILY_LOGIN>>) /\ DaysWorth(none) = 0
      BY <2>2, <3>2, NoDays
    <3>6. DaysWorth(Append(none, <<1, DAILY_LOGIN>>)) = DaysWorth(none) + DAILY_LOGIN
      BY <3>1, DayAdds
    <3>3. DaysWorth(daily[u]) = DAILY_LOGIN
      BY <3>1, <3>5, <3>6
    <3>4. xp[u] # None
      <4>1. [total |-> DAILY_LOGIN, level |-> Level(DAILY_LOGIN)] \in XpRow
        BY Thresholds, LevelReached DEF XpRow
      <4> QED BY <2>2, <4>1, NoneApart
    <3> QED BY <2>2, <3>1, <3>3, <3>4 DEF Profile
  <2> QED BY <2>1, <2>2, InitRows
<1> QED BY <1>2, <1>3, <1>4 DEF XpBacked

\* No XP without cause: what a player has and what is still on its way is never
\* more than the check-ins paid and the badges held are worth, and exactly that
\* unless calls of the player overlapped or died.
THEOREM EveryXpIsPaid == GameSpec => []XpIsBacked
BY InitInv, StepInv, BaseInit, BaseStep, BackedInit, BackedStep, PTL DEF GameSpec
=============================================================================
