CONSTANTS
  s1 = s1
  s2 = s2
  s3 = s3
  r1 = r1
  r2 = r2
  r3 = r3
  Subs = {s1, s2, s3}
  Requests = {r1, r2, r3}
  Shifts <- TwoOpeners
  NoValue = NoValue
SPECIFICATION Spec
SYMMETRY Symmetry
INVARIANTS
  OneOpenCycle
