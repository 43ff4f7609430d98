SPECIFICATION Spec
CONSTANTS
  Conns = {c1, c2}
  Ids = {i1}
  Payloads = {p1, p2}
  NoPayload = NoPayload
  NoRequest = NoRequest
  Faults = {"crash", "lost", "store"}
INVARIANTS EffectOnce TruthfulSuccess AnswersAgree
PROPERTIES CachedResponseStable
