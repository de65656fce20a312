CONSTANTS
  s1 = s1
  d1 = d1
  d2 = d2
  ada = ada
  Subs = {s1}
  Docs = {d1, d2}
  MaxVersion = 1
  MaxQueued = 2
  TypesNamed = {"MSA", "UNKNOWN"}
  Contents <- PassAndFail
  Signatures = {ada}
  NoValue = NoValue
CHECK_DEADLOCK FALSE
SPECIFICATION FairSpec
PROPERTIES
  CyclesComeThrough
