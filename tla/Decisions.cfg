SPECIFICATION DecisionsSpec
CONSTANTS
  Experiment = {x1}
  User = {u1, u2, u3}
  Client = {c1, c2}
  Row = {n1, n2, n3}
  Sender = {s1, s2}
  Key = {k1, k2}
  NoKey = NoKey
  NoRow = NoRow
  MaxOutages = 1
  Plan = {p1}
  Trial = {t1, t2}
  Caller = {a1, a2}
  None = None
  MaxTurns = 2
  Opp = {o1, o2, o3}
  Target = {g1, g2}
  Scorer = {r1, r2}
  Initiative = {i1, i2}
  Desk = {d1, d2}
  Absent = Absent
  MaxRuns = 3
  MaxPatches = 1
SYMMETRY Symmetry
CHECK_DEADLOCK FALSE
INVARIANTS
  DecisionsTypeOK
  RunningWasApproved
  KeysCreateOnce
  PlanIsConsistent
  CountedOncePerChange
  OneActivePerTarget
  DoneMeansClosed
