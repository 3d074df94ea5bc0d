SPECIFICATION Spec
CONSTANTS
  s1 = s1
  s2 = s2
  s3 = s3
  secret = secret
  other = other
  Senders = {s1, s2, s3}
  Passwords = {secret, other}
  MaxRequests = 4
SYMMETRY Symmetry
INVARIANTS TypeOK PairUnlessDisturbed NeverAllExit FreedOnlyWithoutFile
PROPERTY SettledForGood
\* Nobody asks for an answer beyond the bound.
CHECK_DEADLOCK FALSE
