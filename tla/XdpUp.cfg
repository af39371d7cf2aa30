\* One CPU, maps of one entry: without races the counters and detectors are exact.
SPECIFICATION SerialSpec
CONSTANTS
  a = a
  b = b
  NoElem = NoElem
  IP = {a, b}
  Words = 2
  Bits = 2
  CPU = {c1}
  MapSize = 1
  Packet <- MixedPackets
  SynThreshold = 1
  ScanThreshold = 1
  RingSize = 1
  MaxPackets = 5
  MaxCleanings = 0
  MaxBlacklist = 1
INVARIANTS FlowExact ScanComplete NoDuplicateScanAlert ScanAlertJustified
PROPERTIES PacketsFinish PacketsAreAtomic
\* Every packet of the bound has been handled and the bounds on the environment
\* are used up: nothing more happens.
CHECK_DEADLOCK FALSE
