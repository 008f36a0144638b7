SPECIFICATION Spec
CONSTANTS
  c1 = c1  c2 = c2  k1 = k1  k2 = k2  h1 = h1  h2 = h2  e1 = e1  e2 = e2
  Chats = {c1, c2}
  Customers = {k1, k2}
  Versions = {v1}
  Preflight = pf
  Handles = {h1, h2}
  Emails = {e1}
  Handle <- TheHandle
  Email <- TheEmail
  Sourced = {c1}
  None = None
  Absent = Absent
  MaxRows <- Bound
CONSTRAINT OneEarly
SYMMETRY Symmetry
INVARIANTS PendingAnswerable
