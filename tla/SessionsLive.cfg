CONSTANTS
  OldSession = s0
  Sessions = {s0, s1}
  Codes = {}
  Procs = {p1, p2}
  Nobody = Nobody
  MaxChanges = 1
  MaxFailures = 1
  MaxStalls = 1
SPECIFICATION FairSpec
PROPERTIES
  HandlersEnd
