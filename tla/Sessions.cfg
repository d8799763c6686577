CONSTANTS
  OldSession = s0
  Sessions = {s0, s1, s2}
  Codes = {c1}
  Procs = {p1, p2}
  Nobody = Nobody
  MaxChanges = 2
  MaxFailures = 1
  MaxStalls = 0
SPECIFICATION Spec
INVARIANTS
  AcceptedIsCurrent
  RevokedInTheEnd
  RegistryKept
  CodeUsedOnce
SYMMETRY Interchangeable
CONSTRAINT Explored
