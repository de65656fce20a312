CONSTANTS
  s1 = s1
  s2 = s2
  d1 = d1
  d2 = d2
  ada = ada
  bob = bob
  Subs = {s1}
  Docs = {d1, d2}
  MaxVersion = 1
  MaxQueued = 1
  Contents <- FourTexts
  Signatures = {ada}
  NoValue = NoValue
SPECIFICATION Spec
SYMMETRY AgreementSymmetry
INVARIANTS
  TypeOK
  LatestEditionInForce
  ScopeAndSlotsFollowAgreements
PROPERTIES
  UnderwritingSeesEveryAgreement
