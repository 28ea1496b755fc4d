\* Two phones, one with a password, and two requests at a time.
SPECIFICATION Spec
CONSTANTS
  s1 = s1
  s2 = s2
  p1 = p1
  p2 = p2
  r1 = r1
  r2 = r2
  w1 = w1
  w2 = w2
  Sessions = {s1, s2}
  Phones = {p1, p2}
  TwoFactor = {p1}
  Requests = {r1, r2}
  Passphrases = {w1, w2}
  MaxRestarts = 1
  MaxExpiries = 1
  None = None
SYMMETRY Symmetry
INVARIANTS EverythingDecrypts AuthenticatedIsPersisted
