CONSTANTS
  s1 = s1
  s2 = s2
  k1 = k1
  k2 = k2
  Keys = {k1, k2}
  Sessions = {s1, s2}
  NoKey = NoKey
  Torn = Torn
  FailureThreshold = 2
  RecoveryTimeout = 1
  StaleAfter = 1
SPECIFICATION Spec
INVARIANTS HalfOpenHasFailure ConfigNamesRow
PROPERTY BeatingNodesRecover
