SPECIFICATION CrowdSpec
CONSTANTS
  e0 = e0
  e1 = e1
  e2 = e2
  e3 = e3
  m0 = m0
  m1 = m1
  m2 = m2
  m3 = m3
  a1 = a1
  a2 = a2
  b1 = b1
  b2 = b2
  Email <- Emails
  Member <- Members
  Owner = m0
  OwnerEmail = e0
  Nobody = Nobody
  Request <- Processes
  Invite = {i1}
  Quota = 2
  Org <- Others
  Rotator <- Processes
  Encryptor = {w1}
  Batch = 2
  MaxVersion = 3
  MaxCrashes = 1
  Writer <- Processes
  Checkpointer <- Others
  KeepLast <- Retention
  MaxNow = 4
SYMMETRY Symmetry
CHECK_DEADLOCK FALSE
INVARIANTS
  TenancyTypeOK
  WithinQuota
  RingSound
  ActiveKeysCounted
  InvalidMeansFork
  CheckpointCoversVerified
PROPERTIES
  FinalOnlyLostByOverlap
  TrailIsTree
  BrokenStaysBroken
  NewestCheckpointKept
