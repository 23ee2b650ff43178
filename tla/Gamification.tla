---------------------------- MODULE Gamification ----------------------------
(***************************************************************************)
(* GamificationService: daily check-in, streak freeze, XP and badges, and  *)
(* the leaderboard that a scheduled job copies from the XP table.          *)
(*                                                                         *)
(* Days are counted from 1; a call keeps the day on which it took `now`,   *)
(* also across midnight.  The amounts, the milestones and the thresholds   *)
(* are constants, so that small numbers reach every one of them.           *)
(***************************************************************************)
EXTENDS Calls, Sequences, FiniteSets, FiniteSetsExt

CONSTANTS
  DAILY_LOGIN, STREAK_7_DAYS, STREAK_30_DAYS,  \* XP_REWARDS
  Week, Month,                                 \* the milestones: 7 and 30
  LEVEL_THRESHOLDS,                            \* the XP that each level needs
  DEFAULT_FREEZE_COUNT,                        \* freezes of a row that checkIn creates
  SIGNUP_FREEZES,                              \* freezes of a row that register creates
  Reward,                                      \* xpReward of the two badges
  Arrivals,    \* the starts: for each user "seed" (an account without rows), "signup",
               \* or "veteran", who has checked in on the first day after four
  MaxDay, MaxPlay                              \* bounds: the days, the calls

XpRow     == [total : Nat, level : Nat]
StreakRow == [current : Nat, longest : Nat, freezes : Int, last : Nat]
BoardRow  == [rank : Nat, total : Nat, level : Nat]

ASSUME GameAssumption ==
  /\ 1 < Week /\ Week < Month
  /\ {DAILY_LOGIN, STREAK_7_DAYS, STREAK_30_DAYS} \subseteq Nat \ {0}
  /\ DEFAULT_FREEZE_COUNT \in Nat /\ SIGNUP_FREEZES \in Nat
  /\ LEVEL_THRESHOLDS \in Seq(Nat) /\ LEVEL_THRESHOLDS # <<>> /\ LEVEL_THRESHOLDS[1] = 0
  /\ \A i, j \in DOMAIN LEVEL_THRESHOLDS :
       i < j => LEVEL_THRESHOLDS[i] < LEVEL_THRESHOLDS[j]
  /\ Arrivals \subseteq [Users -> {"seed", "signup", "veteran"}]
  /\ Reward \in [{"Digital Native", "Night Owl"} -> Nat]
  /\ IsFiniteSet(Users) /\ IsFiniteSet(Slots)
  /\ MaxPlay \in Nat
  /\ None \notin XpRow \cup StreakRow \cup BoardRow

VARIABLES
  today,     \* the day on the server's clock
  streak,    \* UserStreak: None or the row of each user
  xp,        \* UserXp
  badge,     \* UserBadge: <<user, badge>>
  board,     \* LeaderboardCache
  play,      \* the calls in flight
  playLeft,  \* calls that may still begin
  (* History: *)
  daily,     \* the check-ins paid to each user: <<day, amount>>
  granted,   \* freezes that each user started with
  froze,     \* freezes used by each user
  muddled,   \* users that had two calls in flight at once, or one that died
  mixed      \* two refreshes of the leaderboard were in flight at once

gameHistory == <<daily, granted, froze, muddled, mixed>>
gameVars == <<today, streak, xp, badge, board, play, playLeft,
              daily, granted, froze, muddled, mixed>>

-----------------------------------------------------------------------------
Badges == DOMAIN Reward

Never == 0  \* lastCheckIn of a new row

\* A check-in on its way: its day, whether it is before four in the morning,
\* the streak it will write, the badges it has yet to consider, the XP it will
\* award, and the total after its last award.
CheckInCall ==
  [pc : {"look", "create", "find", "earn", "badgeXp", "badgeLevel", "streak", "xp", "level"},
   user : Users, day : Nat, night : BOOLEAN, current : Nat, longest : Nat,
   badges : Seq(Badges), amount : Nat, total : Nat]
FreezeCall  == [pc : {"freeze"}, user : Users, day : Nat, row : StreakRow]
RefreshCall == [pc : {"refresh"}, user : {None}, rows : [Users -> BoardRow \cup {None}]]
RankCall    == [pc : {"nearby"}, user : Users, entry : BoardRow]

GameCall == {Idle} \cup CheckInCall \cup FreezeCall \cup RefreshCall \cup RankCall

\* Every variable has its type.
GameTypeOK ==
  /\ today \in Nat
  /\ streak \in [Users -> StreakRow \cup {None}]
  /\ xp \in [Users -> XpRow \cup {None}]
  /\ badge \subseteq Users \X Badges
  /\ board \in [Users -> BoardRow \cup {None}]
  /\ play \in [Slots -> GameCall]
  /\ playLeft \in Nat
  /\ daily \in [Users -> Seq(Nat \X Nat)]
  /\ granted \in [Users -> Nat]
  /\ froze \in [Users -> Nat]
  /\ muddled \subseteq Users
  /\ mixed \in BOOLEAN

\* calculateLevel: the last threshold that the total has reached.
Level(total) == Max({l \in DOMAIN LEVEL_THRESHOLDS : LEVEL_THRESHOLDS[l] <= total})

Ranked == {u \in Users : xp[u] # None}

\* Mutant: the order of the query is ascending.
RankingsUp ==
  {rank \in [Ranked -> 1 .. Cardinality(Ranked)] :
     \A u, v \in Ranked : /\ u # v => rank[u] # rank[v]
                          /\ xp[u].total < xp[v].total => rank[u] < rank[v]}

\* The rows in descending order of the total, ties in any order.
Rankings ==
  {rank \in [Ranked -> 1 .. Cardinality(Ranked)] :
     \A u, v \in Ranked : /\ u # v => rank[u] # rank[v]
                          /\ xp[u].total > xp[v].total => rank[u] < rank[v]}

\* The upserts of a refresh: a user without XP gets none.
Snapshot(rank) == [u \in Users |->
  IF u \notin Ranked THEN None
  ELSE [rank |-> rank[u], total |-> xp[u].total, level |-> xp[u].level]]

\* What `register` inserts; accounts of the seed have neither row.
NewXp     == [total |-> 0, level |-> 1]
NewStreakRow == [current |-> 0, longest |-> 0, freezes |-> SIGNUP_FREEZES, last |-> Never]

\* The service starts on the second day, with the board of the last refresh.
GameInit ==
  /\ today = 2
  /\ \E arrival \in Arrivals :
       /\ streak = [u \in Users |->
            CASE arrival[u] = "seed" -> None
              [] arrival[u] = "signup" -> NewStreakRow
              [] arrival[u] = "veteran" ->
                   [NewStreakRow EXCEPT !.current = 1, !.longest = 1, !.last = 1]]
       /\ xp = [u \in Users |->
            CASE arrival[u] = "seed" -> None
              [] arrival[u] = "signup" -> NewXp
              [] arrival[u] = "veteran" -> [total |-> DAILY_LOGIN, level |-> Level(DAILY_LOGIN)]]
       /\ daily = [u \in Users |-> IF arrival[u] = "veteran" THEN << <<1, DAILY_LOGIN>> >>
                                   ELSE <<>>]
       /\ granted = [u \in Users |-> IF arrival[u] = "seed" THEN DEFAULT_FREEZE_COUNT
                                     ELSE SIGNUP_FREEZES]
  /\ badge = {}
  /\ \E rank \in Rankings : board = Snapshot(rank)
  /\ play = [s \in Slots |-> Idle]
  /\ playLeft = MaxPlay
  /\ froze = [u \in Users |-> 0]
  /\ muddled = {}
  /\ mixed = FALSE

-----------------------------------------------------------------------------
(* Helpers.                                                                *)

\* A row whose lastCheckIn is on `day` or later.
Marked(row, day) == row.last # Never /\ row.last >= day

NewStreak(row, day) == IF Marked(row, day - 1) THEN row.current + 1 ELSE 1

\* Where a check-in goes when it has dealt with a badge.
NextBadge(c) == [c EXCEPT !.pc = IF c.badges = <<>> THEN "streak" ELSE "find"]
SkipBadge(c) == NextBadge([c EXCEPT !.badges = Tail(c.badges)])

\* What a check-in that found `row` will do.
Planned(c, row) ==
  LET new == NewStreak(row, c.day) IN
  NextBadge([c EXCEPT
    !.current = new,
    !.longest = Max({new, row.longest}),
    !.amount = DAILY_LOGIN + (IF new = Week THEN STREAK_7_DAYS ELSE 0)
                           + (IF new = Month THEN STREAK_30_DAYS ELSE 0),
    !.badges = (IF new = Week THEN <<"Digital Native">> ELSE <<>>)
            \o (IF c.night THEN <<"Night Owl">> ELSE <<>>)])

PlayGoto(s, call) == Goto(play, playLeft, s, call)

BeginFor(s, u, call) ==
  /\ Begin(play, playLeft, s, call)
  /\ muddled' = muddled \cup ({u} \cap Busy(play))
  /\ UNCHANGED <<today, streak, xp, badge, board, daily, granted, froze, mixed>>

-----------------------------------------------------------------------------
(* checkIn.                                                                *)

CheckIn(s, u) == \E night \in BOOLEAN :
  BeginFor(s, u, [pc |-> "look", user |-> u, day |-> today, night |-> night, current |-> 0,
                  longest |-> 0, badges |-> <<>>, amount |-> 0, total |-> 0])

\* Mutant: the check of today's date lets a second check-in pass.
LookAgain(s) == LET c == play[s] row == streak[c.user] IN
  /\ c.pc = "look"
  /\ \/ row = None /\ PlayGoto(s, [c EXCEPT !.pc = "create"])
     \/ row # None /\ PlayGoto(s, Planned(c, row))
  /\ UNCHANGED <<today, streak, xp, badge, board>> /\ UNCHANGED gameHistory

\* Reads the row.  A user who has checked in today is told so.
Look(s) == LET c == play[s] row == streak[c.user] IN
  /\ c.pc = "look"
  /\ \/ row = None /\ PlayGoto(s, [c EXCEPT !.pc = "create"])
     \/ row # None /\ Marked(row, c.day) /\ PlayGoto(s, Idle)
     \/ row # None /\ ~Marked(row, c.day) /\ PlayGoto(s, Planned(c, row))
  /\ UNCHANGED <<today, streak, xp, badge, board>> /\ UNCHANGED gameHistory

\* Inserts the row of a new player; userId is unique, so of two only one can.
CreateStreak(s) ==
  LET c == play[s]
      row == [current |-> 0, longest |-> 0, freezes |-> DEFAULT_FREEZE_COUNT, last |-> Never]
  IN
  /\ c.pc = "create"
  /\ \/ /\ streak[c.user] = None
        /\ streak' = [streak EXCEPT ![c.user] = row]
        /\ PlayGoto(s, Planned(c, row))
     \/ streak[c.user] # None /\ PlayGoto(s, Idle) /\ UNCHANGED streak
  /\ UNCHANGED <<today, xp, badge, board>> /\ UNCHANGED gameHistory

WriteStreak(s) == LET c == play[s] IN
  /\ c.pc = "streak"
  /\ streak' = [streak EXCEPT ![c.user].current = c.current,
                              ![c.user].longest = c.longest,
                              ![c.user].last = c.day]
  /\ PlayGoto(s, [c EXCEPT !.pc = "xp"])
  /\ UNCHANGED <<today, xp, badge, board>> /\ UNCHANGED gameHistory

-----------------------------------------------------------------------------
(* awardBadgeIfNotEarned, and awardXp for a badge or for the check-in.     *)

FindBadge(s) == LET c == play[s] IN
  /\ c.pc = "find"
  /\ PlayGoto(s, IF <<c.user, Head(c.badges)>> \in badge THEN SkipBadge(c)
                 ELSE [c EXCEPT !.pc = "earn"])
  /\ UNCHANGED <<today, streak, xp, badge, board>> /\ UNCHANGED gameHistory

\* Mutant: a badge that somebody else has just inserted is rewarded again.
EarnBadgeTwice(s) == LET c == play[s] earned == <<c.user, Head(c.badges)>> IN
  /\ c.pc = "earn"
  /\ badge' = badge \cup {earned}
  /\ PlayGoto(s, [c EXCEPT !.pc = "badgeXp"])
  /\ UNCHANGED <<today, streak, xp, board>> /\ UNCHANGED gameHistory

\* <<userId, badgeId>> is unique: a check-in that lost the race is aborted.
EarnBadge(s) == LET c == play[s] earned == <<c.user, Head(c.badges)>> IN
  /\ c.pc = "earn"
  /\ badge' = badge \cup {earned}
  /\ PlayGoto(s, IF earned \in badge THEN Idle
                 ELSE IF Reward[Head(c.badges)] > 0 THEN [c EXCEPT !.pc = "badgeXp"]
                 ELSE SkipBadge(c))
  /\ UNCHANGED <<today, streak, xp, board>> /\ UNCHANGED gameHistory

\* What an award is followed by.
Awarded(c) == IF c.pc \in {"badgeXp", "badgeLevel"} THEN SkipBadge(c) ELSE Idle

\* The upsert adds to the total in one statement; the level is compared with
\* the row it returned.
AddXp(s) ==
  LET c == play[s]
      amount == IF c.pc = "badgeXp" THEN Reward[Head(c.badges)] ELSE c.amount
      row == IF xp[c.user] = None THEN [total |-> amount, level |-> 1]
             ELSE [xp[c.user] EXCEPT !.total = @ + amount]
  IN
  /\ c.pc \in {"badgeXp", "xp"}
  /\ xp' = [xp EXCEPT ![c.user] = row]
  /\ PlayGoto(s, IF Level(row.total) = row.level THEN Awarded(c)
                 ELSE [c EXCEPT !.pc = IF c.pc = "xp" THEN "level" ELSE "badgeLevel",
                                !.total = row.total])
  /\ daily' = IF c.pc = "xp" THEN [daily EXCEPT ![c.user] = Append(@, <<c.day, amount>>)]
              ELSE daily
  /\ UNCHANGED <<today, streak, badge, board, granted, froze, muddled, mixed>>

\* Mutant: an award that crosses a threshold goes up one level from the row.
WriteNextLevel(s) == LET c == play[s] IN
  /\ c.pc \in {"badgeLevel", "level"}
  /\ xp' = [xp EXCEPT ![c.user].level = @ + 1]
  /\ PlayGoto(s, Awarded(c))
  /\ UNCHANGED <<today, streak, badge, board>> /\ UNCHANGED gameHistory

\* The level of the total it saw, even if the total has grown since.
WriteLevel(s) == LET c == play[s] IN
  /\ c.pc \in {"badgeLevel", "level"}
  /\ xp' = [xp EXCEPT ![c.user].level = Level(c.total)]
  /\ PlayGoto(s, Awarded(c))
  /\ UNCHANGED <<today, streak, badge, board>> /\ UNCHANGED gameHistory

-----------------------------------------------------------------------------
(* useStreakFreeze.                                                        *)

\* Mutant: the number of freezes left is not looked at.
UseAnyFreeze(s, u) == LET row == streak[u] IN
  /\ row # None
  /\ BeginFor(s, u, [pc |-> "freeze", user |-> u, day |-> today, row |-> row])

\* Reads the row; without a freeze left it is refused.
UseStreakFreeze(s, u) == LET row == streak[u] IN
  /\ row # None
  /\ row.freezes > 0
  /\ BeginFor(s, u, [pc |-> "freeze", user |-> u, day |-> today, row |-> row])

\* It takes the time after the read, refuses a day that is marked already, and
\* writes back one freeze less than it has read.
WriteFreeze(s) == LET c == play[s] IN
  /\ c.pc = "freeze"
  /\ \E day \in c.day .. today :
       \/ Marked(c.row, day) /\ UNCHANGED <<streak, froze>>
       \/ /\ ~Marked(c.row, day)
          /\ streak' = [streak EXCEPT ![c.user].last = day,
                                      ![c.user].freezes = c.row.freezes - 1]
          /\ froze' = [froze EXCEPT ![c.user] = @ + 1]
  /\ PlayGoto(s, Idle)
  /\ UNCHANGED <<today, xp, badge, board, daily, granted, muddled, mixed>>

-----------------------------------------------------------------------------
(* The leaderboard.                                                        *)

RefreshLeaderboardCache(s) == \E rank \in Rankings :
  /\ Begin(play, playLeft, s,
       [pc |-> "refresh", user |-> None, rows |-> Snapshot(rank)])
  /\ mixed' = (mixed \/ \E t \in Slots : play[t].pc = "refresh")
  /\ UNCHANGED <<today, streak, xp, badge, board, daily, granted, froze, muddled>>

\* One transaction of upserts.  Its row locks let two of them commit only one
\* after the other.
WriteBoard(s) == LET c == play[s] IN
  /\ c.pc = "refresh"
  /\ board' = [u \in Users |-> IF c.rows[u] = None THEN board[u] ELSE c.rows[u]]
  /\ PlayGoto(s, Idle)
  /\ UNCHANGED <<today, streak, xp, badge>> /\ UNCHANGED gameHistory

\* getMyRank reads the own entry, then the neighbours.
GetMyRank(s, u) ==
  /\ board[u] # None
  /\ BeginFor(s, u, [pc |-> "nearby", user |-> u, entry |-> board[u]])

\* The users ranked above an entry, and the nearest of them.
Above(entry) == {u \in Users : board[u] # None /\ board[u].rank < entry.rank}
NearestAbove(entry) ==
  {u \in Above(entry) : \A v \in Above(entry) : board[v].rank <= board[u].rank}
XpToNextRank(entry, above) == board[above].total - entry.total + 1

AnswerMyRank(s) ==
  /\ play[s].pc = "nearby"
  /\ PlayGoto(s, Idle)
  /\ UNCHANGED <<today, streak, xp, badge, board>> /\ UNCHANGED gameHistory

MyBadges(u) == {b \in Badges : <<u, b>> \in badge}  \* getMyBadges

\* getMyProfile: the level it shows is calculated from the total, not the
\* level of the row.
Profile(u) ==
  [total |-> IF xp[u] = None THEN 0 ELSE xp[u].total,
   level |-> IF xp[u] = None THEN 1 ELSE Level(xp[u].total),
   rank  |-> IF board[u] = None THEN None ELSE board[u].rank,
   badges |-> MyBadges(u),
   freezesRemaining |-> IF streak[u] = None THEN DEFAULT_FREEZE_COUNT ELSE streak[u].freezes]

\* getLeaderboard: the entries, with the level of the cache.
Leaderboard == [u \in {v \in Users : board[v] # None} |-> board[u]]

-----------------------------------------------------------------------------
Midnight ==
  /\ today < MaxDay
  /\ playLeft > 0
  /\ today' = today + 1
  /\ UNCHANGED <<streak, xp, badge, board, play, playLeft>> /\ UNCHANGED gameHistory

GameDie(s) ==
  /\ Die(play, playLeft, s)
  /\ muddled' = muddled \cup ({play[s].user} \ {None})
  /\ UNCHANGED <<today, streak, xp, badge, board, daily, granted, froze, mixed>>

GameStep(s) ==
  \/ Look(s) \/ CreateStreak(s) \/ FindBadge(s) \/ EarnBadge(s) \/ AddXp(s)
  \/ WriteLevel(s) \/ WriteStreak(s) \/ WriteFreeze(s) \/ WriteBoard(s) \/ AnswerMyRank(s)

GameRequest(s) ==
  /\ Free(play, playLeft, s)
  /\ \/ \E u \in Users : CheckIn(s, u) \/ UseStreakFreeze(s, u) \/ GetMyRank(s, u)
     \/ RefreshLeaderboardCache(s)

GameNext ==
  \/ \E s \in Slots : GameRequest(s) \/ GameStep(s) \/ GameDie(s)
  \/ Midnight

GameSpec == GameInit /\ [][GameNext]_gameVars

-----------------------------------------------------------------------------
(* Properties.                                                             *)

\* A level is never ahead of the XP behind it: not in the row, where two
\* awards write it in any order, and not on the leaderboard, which is older
\* than the profile shown next to it.
LevelNeverAhead == \A u \in Users :
  /\ xp[u] # None => xp[u].level <= Profile(u).level
  /\ u \in DOMAIN Leaderboard => /\ Leaderboard[u].level <= Profile(u).level
                                 /\ Leaderboard[u].total <= Profile(u).total

\* No XP without cause: the total is what the check-ins paid and the rewards
\* of the badges held, each counted once, however calls overlap; less the
\* rewards still to come and, if a call died, those that never will.
XpIsBacked == \A u \in Users :
  LET held == MyBadges(u)
      due == {s \in Slots : play[s].user = u /\ play[s].pc = "badgeXp"}
      paid == SumFunction([i \in DOMAIN daily[u] |-> daily[u][i][2]])
              + SumFunctionOnSet(Reward, held)
      sofar == Profile(u).total + SumFunction([s \in due |-> Reward[Head(play[s].badges)]])
  IN sofar <= paid /\ (u \notin muddled => sofar = paid)

\* Unless calls of a player overlap or die, a day is paid once, and the streak
\* is not longer than the days behind it.
PaidOnceADay == \A u \in Users \ muddled :
  LET days == {daily[u][i][1] : i \in DOMAIN daily[u]} IN
  /\ Cardinality(days) = Len(daily[u])
  /\ streak[u] # None /\ u \notin Busy(play) => streak[u].current <= Cardinality(days)

\* A player whose calls do not overlap gets as many freezes as there are.
FreezesPaidFor == \A u \in Users :
  /\ streak[u] # None => streak[u].freezes >= 0
  /\ u \notin muddled => Profile(u).freezesRemaining + froze[u] = granted[u]

\* The XP that getMyRank says is missing to the next rank is at least one,
\* even if the board is refreshed between its two reads, unless two refreshes
\* were in flight together.
RankMakesSense == \A s \in Slots : play[s].pc = "nearby" /\ ~mixed =>
  \A u \in NearestAbove(play[s].entry) : XpToNextRank(play[s].entry, u) >= 1
=============================================================================
