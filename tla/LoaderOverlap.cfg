\* Loaders may overlap in any way, with every kind of file; stop.sh is not used.
SPECIFICATION Spec
CONSTANTS
  lo = lo
  eth = eth
  s1 = s1
  s2 = s2
  None = None
  Proc = {p1, p2}
  If = {lo, eth}
  Path = {s1, s2}
  DefaultConfig <- MCDefault
  ConfigFile <- MCFiles
  InitialFile <- Plain
  CliArgs <- ForegroundArgs
  Overlap = "any time"
  MaxEdits = 1
  Tools = {"rm"}
SYMMETRY Procs
INVARIANTS NoOrphans HookKept
PROPERTIES OnlyOwnerDetaches
\* Every process may have ended and the bounds on the operator be used up.
CHECK_DEADLOCK FALSE
