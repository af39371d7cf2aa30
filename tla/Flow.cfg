\* Two CPUs, two sources: clean_maps and new sources during the walk and the update.
SPECIFICATION FairSpec
CONSTANTS
  a = a
  b = b
  NoKey = NoKey
  NoElem = NoElem
  CPU = {c1, c2}
  MapSize = 2
  IP = {a, b}
  Rank <- TwoRanks
  Intervals = {1}
  W = 16
  MaxPackets = 3
  MaxTime = 1
  MaxCleanings = 1
  MaxReloads = 1
INVARIANTS TypeOK NeverOverstated
PROPERTIES PassComplete PassEnds
