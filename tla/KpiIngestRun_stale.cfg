SPECIFICATION Spec
CONSTANTS
  r1 = r1
  r2 = r2
  h1 = h1
  h2 = h2
  t1 = t1
  t2 = t2
  b1 = b1
  b2 = b2
  d1 = d1
  d2 = d2
  p1 = p1
  p2 = p2
  c1 = c1
  none = none
  NoHolder = NoHolder
  NoContext = NoContext
  NoBlob = NoBlob
  NoManifest = NoManifest
  Run = {r1}
  TargetOf <- OneTarget
  Holder = {h1, h2}
  Thread = {t1}
  Context = {c1}
  Blob = {b1}
  Draft = {d1}
  Payload = {p1}
  MaxChunks = 1
  MaxRevision = 1
  MaxAttempt = 2
INVARIANTS
  StaleDraftIsMarked
