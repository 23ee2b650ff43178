SPECIFICATION Spec
CONSTANTS
  Users = {u1, u2}
  None = None
  Founders = {u1}
  Slots = {s1, s2}
  Capacity = 1
  MinTeam = 1
  MaxTeam = 2
  StaffStatuses = {}
  Ops = {"register", "checkIn", "kick"}
  MayFail = FALSE
  MaxRequests = 3
SYMMETRY Symmetry
PROPERTY OnlyApprovedBecomesCheckedIn
CHECK_DEADLOCK FALSE
