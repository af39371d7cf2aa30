\* Two tools: xdp_blacklist and the script its message names.
SPECIFICATION FairSpec
CONSTANTS
  Tool = {t1, t2}
  IP = {a, b}
  ip_to_int <- MCip_to_int
  Listener = {l1, l2}
  NoRecord = NoRecord
  Size = 2
  MaxRecords = 4
  Pid = {p1, p2}
  CPU = {c1, c2}
  None = None
  MinDuration = {1}
  MAX_ENTRIES = 1
  BufSize = 2
  MaxTime = 1
  MaxImages = 3
  Tc = {t1, t2}
  num_cpus = 3
  RingSize = 1
PROPERTIES AddedIsBlocked
\* Every process may have ended and the bounds be used up.
CHECK_DEADLOCK FALSE
