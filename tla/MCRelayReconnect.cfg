\* The node reconnects before the gateway has noticed.
CONSTANTS
  c1 = c1
  c2 = c2
  j1 = j1
  j2 = j2
  NoConn = NoConn
  NoJob = NoJob
  Conns = {c1, c2}
  Jobs = {j1}
  JobsInWindow = 1
  MaxBacklog = 2
SPECIFICATION FairSpec
PROPERTY Reachable
