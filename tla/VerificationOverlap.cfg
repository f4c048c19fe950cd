CONSTANTS
  d1 = d1
  d2 = d2
  custom = custom
  s1 = s1
  s1x = s1x
  s2 = s2
  Detectors = {d1, d2, custom}
  Secrets = {s1, s1x, s2}
  DetectorType <- Types
  Similar <- Pairs
  MaxFound = 2
SPECIFICATION AnalysisSpec
INVARIANTS DisabledIffTwin ReverifiedIffNoTwin
