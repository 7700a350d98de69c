SPECIFICATION Spec
CONSTANTS
  MaxElts = 3
  Elts = {1, 2}
  Unset = 0
  RawMax = 4
  RawEltSize = 1
  PtrAlign = 1
  RawElts = {a, b}
  RawJunk = j
  Packets = {p1, p2}
  RootMax = 2
  Pieces <- MCPieces
  MaxIntruders = 1
  ListMax = 3
  ListKeys = {1, 2}
  HeapNodes = 4
  ArrayKeys = {1, 2}
  ArrayMax = 4
  MaxCapacity = 5
  HeapKeys = {1, 2, 3}
  HeapMax = 5
  MapKeys = {1, 2, 3, 4}
  MapPairs <- MCPairs
  NBuckets = 2
  BSize = 2
  HandleSize = 100
  Hash <- MCHash
  TreeKeys = {1, 2, 3, 4, 5}
  TreeMax = 3
  TreeHighs = {3, 5}
  Letters = {0, 1}
  MaxWord = 4
  Vertices = 3
  Weights = {1, 2}
  MaxSide = 2
  Grindees = {f, g}
  Res = 2
  Datapoints = 2
  Interval = 2
  MaxTime = 2
  BufSize = 12
  RegBits = 16
  ByteBits = 4
  Polynomial = 40961
  FnvBasis = 40389
  OneE9 = 10
  LineSize = 14
  MaxArgs = 4
  WordBytes = 2
  NmeaChunk = 2
  MemBytes = 8
  Received = {1, 2}
  MiniLines <- MCMiniLines
  NThreads = 2
  Base = 2
  NElts = 4
  SortValues = {0, 1, 2, 3}
INVARIANT
  TreeAnswers
CHECK_DEADLOCK FALSE
