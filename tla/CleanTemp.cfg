CONSTANTS
  w1 = w1
  w2 = w2
  i1 = i1
  i2 = i2
  p1 = p1
  host = host
  c1 = c1
  b1 = b1
  b2 = b2
  Writers = {w1, w2}
  Parsers = {w1, w2}
  ParserOf <- Parser
  Buffers = {b1, b2}
  None = None
  Threshold = 2
  MaxCap = 1
  Lengths = {1, 3}
  MaxWrites = 3
  Procs = {p1, host}
  Host = host
  Pids = {i1, i2}
  ExecOf <- Names
  ShownAs <- Names
  Cleaners = {c1}
  OwnerOf <- Owner
SPECIFICATION Spec
INVARIANTS SoleUser ReadBackWhole
PROPERTIES LostOnlyToStaleLists OrphansRemoved
CHECK_DEADLOCK FALSE
SYMMETRY Symmetry
