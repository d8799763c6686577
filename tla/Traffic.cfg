CONSTANTS
  a = a
  b = b
  Users = {a, b}
  Reports = {r1, r2}
  Loads <- OneOrBoth
  Tries = 2
  MaxFailures = 1
  MaxResets = 1
  NoUser = NoUser
SPECIFICATION FairSpec
INVARIANTS
  NotOvercharged
  CountedOnce
  Accounted
PROPERTIES
  ReportedIsCharged
CONSTRAINT Explored
