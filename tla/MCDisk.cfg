\* Three installs of one root, any of them first, and a power failure; two
\* requests to the library, three uploads, and a fault.
SPECIFICATION MCSpec
CONSTANTS
  i1 = i1
  i2 = i2
  i3 = i3
  pi = pi
  other = other
  Installs = {i1, i2, i3}
  Version <- Versions
  Device <- Devices
  None = None
  Files = 1
  MaxPower = 1
  r1 = r1
  r2 = r2
  first = first
  second = second
  broken = broken
  x = x
  Absent = Absent
  Requests = {r1, r2}
  Uploads = {first, second, broken}
  PackageNames = {x}
  NameOf <- Names
  WellFormed = {first, second}
  Policies = {first, broken}
  MaxInstalls = 3
  MaxFaults = 1
SYMMETRY RequestsAlike
INVARIANTS PointerUsable ReportedKept FoldersWhole ReplaceKeepsOne
PROPERTIES VersionsIncrease
CHECK_DEADLOCK FALSE
