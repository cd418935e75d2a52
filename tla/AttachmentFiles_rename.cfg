SPECIFICATION FilesSpec
CONSTANTS
  Writers = {z1}
  Names = {n1}
  Idle = Idle
  MaxRows = 1
  MaxStored = 2
  MaxCrashes = 0
INVARIANTS NamesAreOfUploads
CHECK_DEADLOCK FALSE
