SPECIFICATION FairSpec
CONSTANTS
  Users = {u1, u2}
  None = None
  Founders = {u1}
  Slots = {s1}
  Capacity = 2
  MinTeam = 1
  MaxTeam = 2
  StaffStatuses = {"APPROVED", "REJECTED", "CANCELLED"}
  Ops = {"register", "updateStatus", "approveAll", "remove", "checkIn", "eventStatus", "eventDelete", "addOrganizer", "removeOrganizer", "kick", "sync"}
  MayFail = FALSE
  MaxRequests = 5
INVARIANT SomePrimary
INVARIANT SeatsAreEarned
PROPERTY RequestsEnd
CHECK_DEADLOCK FALSE
