CONSTANTS
  r1 = r1
  r2 = r2
  a = a
  b = b
  Reports = {r1, r2}
  Users = {a, b}
  Named <- Both
  Load <- Day
  Tries = 3
  Attempts = 2
  MaxFailures = 2
  Nobody = Nobody
SPECIFICATION Spec
INVARIANTS
  ServerAccounted
  UserAccounted
  CountedOnce
PROPERTIES
  JobsEnd
CHECK_DEADLOCK FALSE
