SPECIFICATION Spec
CONSTANTS
  Files = {f1, f2}
  Requests = {r1, r2, r3}
  NoFile = NoFile
  Sizes = {0, 2, 3}
  Limit = 2
INVARIANTS TypeOK DiskMatchesRecords DeletedBytesAreGone
PROPERTIES WholeFilesServed
CHECK_DEADLOCK FALSE
