CONSTANTS
  p1 = p1
  p2 = p2
  b1 = b1
  q1 = q1
  q2 = q2
  n1 = n1
  n2 = n2
  NoResult = NoResult
  Results = {p1, p2, b1, q1, q2}
  Key <- Keys
  Decoder <- Decoders
  Postman = {q1, q2}
  Wanted = {"verified", "unknown"}
  NotifierWorkers = {n1, n2}
  CacheSize = 1
SPECIFICATION DedupeSpec
INVARIANTS EveryKeyPrinted DifferentDecoderOnce SameDecoderKept
