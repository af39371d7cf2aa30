\* Two CPUs, maps of one entry, an operator who edits the blacklist and clean_maps
\* deleting an entry: stores through stale pointers while a source is blocked.
SPECIFICATION Spec
CONSTANTS
  a = a
  b = b
  NoElem = NoElem
  IP = {a, b}
  Words = 1
  Bits = 2
  CPU = {c1, c2}
  MapSize = 1
  Packet <- BusyPackets
  SynThreshold = 1
  ScanThreshold = 0
  RingSize = 1
  MaxPackets = 3
  MaxCleanings = 1
  MaxBlacklist = 1
SYMMETRY Cpus
INVARIANTS TypeOK SynAccounting FlowNeverInvented
PROPERTIES BlockedStaysSilent
\* Every packet of the bound has been handled and the bounds on the environment
\* are used up: nothing more happens.
CHECK_DEADLOCK FALSE
