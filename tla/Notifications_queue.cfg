SPECIFICATION NoteSpec
CONSTANTS
  Users = {u1, u2}
  None = None
  Slots = {s1, s2}
  MayFail = TRUE
  Attempts = 2
  MaxStalls = 1
  Ahead = 1
  Behind = 0
  StartsAt = 1
  DigestMin = 2
  Devices = {d1}
  Audience = {u1}
  MaxTick = 3
  MaxNote = 4
INVARIANT NoteTypeOK
INVARIANT RowsPerSending
INVARIANT FewReminders
PROPERTY EveryJobEnds
CHECK_DEADLOCK FALSE
