CONSTANTS
  d1 = d1
  d2 = d2
  d3 = d3
  phone = phone
  tablet = tablet
  Devices = {d1, d2, d3}
  Installs = {phone, tablet}
  Install <- Belongs
  Limit = 1
  FirstApp <- Bindings
  FirstProfile <- Profiles
  Procs = {p1, p2}
  Nobody = Nobody
  MaxFailures = 1
SPECIFICATION Spec
INVARIANTS
  AppLimit
  OneActivePerInstall
  UnboundInBoth
PROPERTIES
  RegisteredWithinLimit
  RestoredOnPurpose
  PurgeSparesActive
SYMMETRY Interchangeable
