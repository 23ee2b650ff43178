SPECIFICATION Spec
CONSTANTS
  Users = {u1}
  Fests = {f1, f2}
  Years = {2026}
  None = None
  Slots = {s1, s2}
  Ops = {"createFest", "updateFest"}
  MayFail = FALSE
INVARIANT OneActiveFest
