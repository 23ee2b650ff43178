SPECIFICATION Spec
CONSTANTS
  Users = {u1, u2, u3}
  Fests = {f1, f2}
  Years = {2026, 2027}
  None = None
  Slots = {s1, s2}
  Ops = {"createFest", "updateFest", "signUp", "askTickets"}
  MayFail = TRUE
INVARIANT TypeOK
INVARIANT TicketIsRegistered
PROPERTY NumberedInOrder
SYMMETRY Symmetry
