SPECIFICATION Spec
CONSTANTS
  MaxProjects = 4
  MaxLimit = 3
  Columns <- MCColumns
  Key <- MCKey
INVARIANTS TypeOK QuietWalkExact NoneMissed NoneRepeated
