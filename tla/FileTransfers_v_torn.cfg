SPECIFICATION Spec
CONSTANTS
  Uploads = {u1}
  Contents = {a, b}
  Keys = {k1}
  Absent = Absent
  MaxOpen = 1
  MaxCrashes = 1
  MaxFaults = 1
SYMMETRY Symm
INVARIANTS
  OverwriteNeverEmpties
CHECK_DEADLOCK FALSE
