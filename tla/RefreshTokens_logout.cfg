SPECIFICATION Spec
CONSTANTS
  Users = {u1}
  Passwords = {p1}
  None = None
  Slots = {s1, s2}
  MayFail = FALSE
  MaxRequests = 3
INVARIANT LoggedOutStaysOut
