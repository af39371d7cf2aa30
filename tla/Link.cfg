\* One backend and two slots: connections die and take up slots, the loader goes
\* down and comes back, handlers fail, and everything is scheduled.
SPECIFICATION FairSpec
CONSTANTS
  None = None
  Backend = {b1}
  Conn = {k1, k2, k3}
  MAX_CLIENTS = 2
  SockBuf = 2
  MaxAlerts = 2
  MaxFaults = 2
  MaxStops = 1
INVARIANTS TypeOK Accounted
PROPERTIES InOrderOnce BackendsAttach
