SPECIFICATION CampusSpec
CONSTANTS
  u1 = u1
  u2 = u2
  lead = lead
  g1 = g1
  Users = {u1, u2}
  None = None
  Slots = {s1, s2}
  MayFail = TRUE
  DAILY_LOGIN = 1
  STREAK_7_DAYS = 1
  STREAK_30_DAYS = 2
  Week = 2
  Month = 3
  LEVEL_THRESHOLDS <- MCThresholds
  DEFAULT_FREEZE_COUNT = 2
  SIGNUP_FREEZES = 1
  Reward <- MCReward
  Arrivals <- MCArrivals
  MaxDay = 3
  MaxPlay = 3
  Instances = {i1}
  StageRoles = {lead, None}
  StagePlans <- MCPlans
  Approvers <- MCApprovers
  Admins = {u2}
  MaxFlow = 4
  Treasurers = {u2}
  travel = travel
  CategoryNames = {travel, food}
  Outings = {o1}
  SpentFor <- MCSpentFor
  Amounts = {2}
  SeedCategories <- MCSeed
  MaxBill = 3
  Positions = {1, 2}
  WinnerLists <- MCWinnerLists
  SettingsSent = {{"reg.prefix"}, {"other"}}
  Editors = {u1}
  MaxOffice = 3
  Roles = {"participant", "admin"}
  Permissions <- MCPermissions
  SignedUp = {u1}
  Staff = {u1}
  Groups = {g1, g2}
  SystemRule <- MCRule
  RulesSent <- MCRulesSent
  MaxPeople = 4
  Moderators = {u2}
  PageSize = 1
  Organizer = u1
  Past <- MCPast
  Sockets = {k1, k2}
  MaxChat = 3
SYMMETRY Symmetry
INVARIANT CampusTypeOK
INVARIANT LevelNeverAhead
INVARIANT XpIsBacked
INVARIANT PaidOnceADay
INVARIANT FreezesPaidFor
INVARIANT RankMakesSense
INVARIANT NoStageSkipped
INVARIANT MovesAreRecorded
INVARIANT VerdictMatches
INVARIANT ReceiptIsStored
INVARIANT QuietReportAgrees
PROPERTY ApprovedStands
INVARIANT ReplacedForGood
INVARIANT FormCountsWrites
INVARIANT AssignedToAll
INVARIANT OneDirectPerPair
INVARIANT LateEditOnly
INVARIANT ScrollSeesAll
INVARIANT RoomsFollowSeats
INVARIANT PresenceSettles
CHECK_DEADLOCK FALSE
