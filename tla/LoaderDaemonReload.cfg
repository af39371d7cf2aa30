\* A daemon started with a relative configuration path cannot reload.
SPECIFICATION FairSpec
CONSTANTS
  lo = lo
  eth = eth
  s1 = s1
  s2 = s2
  None = None
  Proc = {p1}
  If = {lo, eth}
  Path = {s1, s2}
  DefaultConfig <- MCDefault
  ConfigFile <- FewFiles
  InitialFile <- Plain
  CliArgs <- DaemonArgs
  Overlap = "any time"
  MaxEdits = 1
  Tools = {}
PROPERTIES HangupRereads
\* Every process may have ended and the bounds on the operator be used up.
CHECK_DEADLOCK FALSE
