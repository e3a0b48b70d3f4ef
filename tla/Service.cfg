SPECIFICATION FairSpec
CONSTANTS
  c1 = c1
  c2 = c2
  c3 = c3
  Conns = {c1, c2, c3}
  Limit = 2
  Room = 2
  MaxResponse = 2
  Batch = 2
  None = None
INVARIANTS DescriptorsExact EventsReachTheirClient RoomToReceive
PROPERTIES OneAnswer ConnectionsEnd
CHECK_DEADLOCK FALSE
