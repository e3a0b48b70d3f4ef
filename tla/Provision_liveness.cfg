CONSTANTS
  r1 = r1
  r2 = r2
  r3 = r3
  m1 = m1
  m2 = m2
  m3 = m3
  Remotes = {r1, r2}
  Provisionable = {r1, r2}
  Macs = {m1}
  NSlots = 2
  NVlans = 1
  MaxFaults = 2
  MaxAdmin = 1
  MaxClients = 1
  Ambiguous = FALSE
  Absent = Absent
  Foreign = Foreign
  None = None
SPECIFICATION FairSpec
PROPERTIES
  CleanupRecovers
  LearnsEventually
