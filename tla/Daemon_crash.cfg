CONSTANTS
  r1 = r1
  r2 = r2
  m1 = m1
  m2 = m2
  Remotes = {r1, r2}
  Provisionable = {r1, r2}
  Macs = {m1}
  NSlots = 2
  NVlans = 1
  MaxFaults = 1
  MaxAdmin = 1
  MaxClients = 1
  Ambiguous = FALSE
  Absent = Absent
  Foreign = Foreign
  None = None
SPECIFICATION DaemonFairSpec
INVARIANTS
  FilterSurvivesCrash
  NothingInherited
  OneTunnelPerMac
  LeftoversVisible
PROPERTIES
  OnlyOwnChains
  StartAndStopComplete
