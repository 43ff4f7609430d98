SPECIFICATION Spec
CONSTANTS
  s1 = s1
  s2 = s2
  d1 = d1
  d2 = d2
  d3 = d3
  Services = {s1, s2}
  Ids = {1, 2, 3}
  Defs = {d1, d2, d3}
  NoDef = NoDef
  ServicesOf <- MCServicesOf
  Faults = {"crash", "install", "io", "store", "start"}
INVARIANTS RootfsTruth AmbiguityStays NewestDecides CommittedSurvives CorrectableCandidate
SYMMETRY MCSymmetry
