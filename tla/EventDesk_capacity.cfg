SPECIFICATION Spec
CONSTANTS
  Users = {u1, u2, u3}
  None = None
  Founders = {u1}
  Slots = {s1, s2}
  Capacity = 1
  MinTeam = 1
  MaxTeam = 1
  StaffStatuses = {}
  Ops = {"register"}
  MayFail = FALSE
  MaxRequests = 2
SYMMETRY Symmetry
INVARIANT CapacityRespected
CHECK_DEADLOCK FALSE
