SPECIFICATION Spec
CONSTANTS
  Candidates = {c1, c2}
  Uploads = {u1, u2, u3}
  Nobody = Nobody
  NoCandidate = NoCandidate
INVARIANTS TypeOK OneReference ExamsHaveReference SerialVerdictsAgree
PROPERTIES KeepsRecord
CHECK_DEADLOCK FALSE
