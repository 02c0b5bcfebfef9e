\* Two sessions serve the same user at once.
CONSTANTS
  s1 = s1
  s2 = s2
  s3 = s3
  alice = alice
  bob = bob
  node = node
  r1 = r1
  r2 = r2
  r3 = r3
  r4 = r4
  NoRow = NoRow
  Sessions = {s1, s2}
  Users = {alice, bob, node}
  Accounts = {alice, bob}
  Refs = {r1, r2, r3, r4}
  Programs <- RacingPrograms
  MaxStamp = 5
  Room = 2
SYMMETRY SessionSymmetry
SPECIFICATION Spec
INVARIANT BalanceExact
