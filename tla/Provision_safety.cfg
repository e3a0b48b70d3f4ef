CONSTANTS
  r1 = r1
  r2 = r2
  r3 = r3
  m1 = m1
  m2 = m2
  m3 = m3
  Remotes = {r1, r2, r3}
  Provisionable = {r1, r2}
  Macs = {m1, m2, m3}
  NSlots = 2
  NVlans = 2
  MaxFaults = 1
  MaxAdmin = 2
  MaxClients = 2
  Ambiguous = TRUE
  Absent = Absent
  Foreign = Foreign
  None = None
SPECIFICATION Spec
SYMMETRY Symmetry
INVARIANTS
  FilterBeforeBridge
  CapacityIsNotFailure
  AnswersAgree
  InductiveInv
PROPERTIES
  CleanupPausesDiscovery
