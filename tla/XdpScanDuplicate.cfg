\* Two CPUs report one scan twice.
SPECIFICATION Spec
CONSTANTS
  a = a
  b = b
  NoElem = NoElem
  IP = {a, b}
  Words = 1
  Bits = 2
  CPU = {c1, c2}
  MapSize = 2
  Packet <- ScanPackets
  SynThreshold = 1
  ScanThreshold = 1
  RingSize = 1
  MaxPackets = 4
  MaxCleanings = 0
  MaxBlacklist = 0
SYMMETRY Cpus
INVARIANTS NoDuplicateScanAlert
\* Every packet of the bound has been handled and the bounds on the environment
\* are used up: nothing more happens.
CHECK_DEADLOCK FALSE
