\* Three tools on one interface, or two listeners on a ring of two records, or a
\* tracer on two CPUs with a map of one entry and two pids that are used again, or
\* three processes on one ingress hook, or a profiler of three CPUs.
SPECIFICATION FairSpec
CONSTANTS
  Tool = {t1, t2, t3}
  IP = {a}
  ip_to_int <- MCip_to_int
  Listener = {l1, l2}
  NoRecord = NoRecord
  Size = 2
  MaxRecords = 4
  Pid = {p1, p2}
  CPU = {c1, c2}
  None = None
  MinDuration = {1}
  MAX_ENTRIES = 1
  BufSize = 2
  MaxTime = 1
  MaxImages = 3
  Tc = {t1, t2, t3}
  num_cpus = 3
  RingSize = 1
INVARIANTS InterfaceRestored NoneLost AloneInOrder DurationTrue ExitOnce FilterRemoved SampledWhole
PROPERTIES RoomAgain NothingLeftBehind
\* Every process may have ended and the bounds be used up.
CHECK_DEADLOCK FALSE
