SPECIFICATION FairSpec
CONSTANTS
  admin = admin
  viewer = viewer
  read = read
  write = write
  Roles = {admin, viewer}
  Codes = {read, write}
  AdminRole = admin
  RolesPlan <- MatrixPlan
  Earlier <- EarlierTables
  Runs = {s1, s2}
  Asked <- Requests
INVARIANTS TypeOK MatrixWholeOrUntouched RerunIsHarmless CollisionHasWinner AdministratorComplete GuardIsJust
PROPERTIES EverySeedEnds
