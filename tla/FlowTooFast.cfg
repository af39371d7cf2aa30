\* A rate is computed with the interval, not with the time that passed.
SPECIFICATION Spec
CONSTANTS
  a = a
  b = b
  NoKey = NoKey
  NoElem = NoElem
  CPU = {c1}
  MapSize = 1
  IP = {a}
  Rank <- OneRank
  Intervals = {1, 5}
  W = 16
  MaxPackets = 3
  MaxTime = 5
  MaxCleanings = 0
  MaxReloads = 1
PROPERTIES RateIsPerSecond
