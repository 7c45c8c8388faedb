\* A client, relaunched at will, and an executant around one .log, with tables of 6 descriptors.
SPECIFICATION FairSpec
CONSTANTS
  c1 = c1
  e1 = e1
  f = f
  g = g
  Zero = Zero
  Torn = Torn
  None = None
  Clients = {c1}
  Executants = {e1}
  Names = {f, g}
  OpenMax = 6
INVARIANTS
  TypeOK
  OnlyLogsStarve
  RoomToRead
  TornInFirstCopy
PROPERTIES
  TurningEnds
