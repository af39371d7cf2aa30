\* Loaders run one after the other as daemons with an absolute configuration
\* path: reloads, failing calls, SIGKILL and stop.sh.
SPECIFICATION FairSpec
CONSTANTS
  lo = lo
  eth = eth
  s1 = s1
  s2 = s2
  None = None
  Proc = {p1, p2}
  If = {lo, eth}
  Path = {s1, s2}
  DefaultConfig <- MCDefault
  ConfigFile <- LifeFiles
  InitialFile <- Plain
  CliArgs <- LifeArgs
  Overlap = "after exit"
  MaxEdits = 1
  Tools = {"stop.sh"}
INVARIANTS TypeOK Reachable
PROPERTIES NoHotSwitch HangupRereads TerminationEnds
