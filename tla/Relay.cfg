SPECIFICATION FairSpec
CONSTANTS
  Conns = {1, 2, 3}
  NoConn = NoConn
  Tunnels = {t1, t2}
  Trusted = {t1, t2}
  MaxBreaks = 1
CHECK_DEADLOCK FALSE
INVARIANT TypeOK
INVARIANT LiveMuxIsRegistered
INVARIANT RegisteredIsServed
PROPERTY DeadTunnelIsCleared
PROPERTY TunnelComesBack
