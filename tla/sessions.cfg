CONSTANTS
  Users = {u1}
  Browsers = {b1, b2}
  Requests = {r1, r2}
  Ids = {i1, i2, i3}
  Addresses = {here}
  None = None
  AccessSecs = 1
  RefreshSecs = 2
  EarlySecs = 1
  MaxClock = 3
  MaxFaults = 1
SPECIFICATION Spec
SYMMETRY Symmetry
INVARIANTS TypeOK GoneFadesOut SignedInStaysSignedIn
PROPERTY IdsRotate
