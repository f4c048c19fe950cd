CONSTANTS
  c1 = c1
  c2 = c2
  p1 = p1
  p2 = p2
  p3 = p3
  p4 = p4
  d1 = d1
  d2 = d2
  s1 = s1
  s2 = s2
  w1 = w1
  w2 = w2
  v1 = v1
  v2 = v2
  k1 = k1
  k2 = k2
  n1 = n1
  n2 = n2
  None = None
  Detectors = {d1, d2}
  Secrets = {s1, s2}
  DetectorType <- TwoTypes
  Similar <- Equal
  Chunks = {c1, c2}
  Pieces = {p1, p2, p3, p4}
  PiecesOf <- Three
  Matching <- Keywords
  Found <- Finds
  Ignored = {s2}
  PanicSets <- Anywhere
  AllowOverlap = FALSE
  Scanners = {w1}
  Verifiers = {v1, v2}
  DetectWorkers = {k1}
  Notifiers = {n1}
  OverlapCap = 1
  DetectCap = 1
  ResultsCap = 1
SPECIFICATION FairSpec
PROPERTIES FinishReturns PanicsStayLocal
CHECK_DEADLOCK FALSE
