SPECIFICATION Spec
CONSTANTS
  Users = {u1}
  Passwords = {p1, p2}
  None = None
  Slots = {s1, s2}
  MayFail = TRUE
  MaxRequests = 4
SYMMETRY Symmetry
INVARIANT TypeOK
INVARIANT FewSuccessors
INVARIANT EndedIsDead
INVARIANT ValidUnderPassword
