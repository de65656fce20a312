CONSTANTS
  s1 = s1
  s2 = s2
  d1 = d1
  d2 = d2
  ada = ada
  bob = bob
  Subs = {s1, s2}
  Docs = {d1}
  MaxVersion = 2
  MaxQueued = 1
  Contents <- TwoTexts
  Signatures = {ada}
  NoValue = NoValue
SPECIFICATION Spec
INVARIANTS
  FirstVersionUnreadMeansNothingRead
