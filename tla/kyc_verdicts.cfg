SPECIFICATION Spec
CONSTANTS
  Candidates = {c1}
  Uploads = {u1, u2, u3}
  Nobody = Nobody
  NoCandidate = NoCandidate
SYMMETRY Interchangeable
INVARIANT VerdictsAgree
CHECK_DEADLOCK FALSE
