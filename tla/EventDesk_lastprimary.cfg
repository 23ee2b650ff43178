SPECIFICATION Spec
CONSTANTS
  Users = {u1, u2}
  None = None
  Founders = {u1}
  Slots = {s1, s2}
  Capacity = 1
  MinTeam = 1
  MaxTeam = 2
  StaffStatuses = {}
  Ops = {"addOrganizer", "removeOrganizer"}
  MayFail = FALSE
  MaxRequests = 3
INVARIANT SomePrimary
CHECK_DEADLOCK FALSE
