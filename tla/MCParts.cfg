CONSTANTS
  l1 = l1
  l2 = l2
  s1 = s1
  s2 = s2
  t1 = t1
  t2 = t2
  j1 = j1
  w1 = w1
  w2 = w2
  v1 = v1
  n1 = n1
  n2 = n2
  p1 = p1
  p2 = p2
  u1 = u1
  u2 = u2
  m1 = m1
  m2 = m2
  c1 = c1
  c2 = c2
  Calls = {l1, l2}
  NoCall = NoCall
  LastState = 1
  Sessions = {s1, s2}
  Tokens = {t1, t2}
  NoToken = NoToken
  Life = 2
  Path = "refresh"
  MaxRequests = 1
  Window = 1
  Jobs = {j1}
  Tasks = {w1, w2}
  Movers = {v1}
  NoJob = NoJob
  Chunks = 2
  NodeJobs = {j1}
  Nodes = {n1, n2}
  Payers = {p1, p2}
  Updaters = {u1, u2}
  Calendar <- MCCalendar
  Machines = {m1, m2}
  Loads = {0, 50, 100}
  Down = Down
  Checks = {c1, c2}
  Cooldown = 2
SPECIFICATION Spec
INVARIANTS SignedOutStaysOut CounterEnds EventsApart NoCompletionPaidTwice
PROPERTIES ShownIsLatest RevokedIsRefused ReturnedIsWhole
SYMMETRY Symmetry
