SPECIFICATION Spec
CONSTANTS
  Users = {u1, u2, u3}
  None = None
  Founders = {u1}
  Slots = {s1, s2}
  Capacity = 1
  MinTeam = 1
  MaxTeam = 2
  StaffStatuses = {"REJECTED", "CANCELLED"}
  Ops = {"register", "remove", "updateStatus", "checkIn", "kick", "eventStatus", "eventDelete"}
  MayFail = TRUE
  MaxRequests = 4
SYMMETRY Symmetry
INVARIANT TypeOK
INVARIANT OvershootBound
INVARIANT CheckedInHasAttendance
PROPERTY RowsAreReplacedOnlyAfterDeletion
PROPERTY DeletionIsFinal
CHECK_DEADLOCK FALSE
