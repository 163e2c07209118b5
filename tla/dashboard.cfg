SPECIFICATION Spec
CONSTANTS
  x1 = x1
  x2 = x2
  Projects = {1}
  Payments <- MCPayments
  NoProject = 0
  Amounts = {1, 2}
  Days <- MCDays
  Limits = {1}
  MaxEdits = 2
SYMMETRY PaymentSymmetry
INVARIANTS TypeOK QuietOverviewExact MonthWithinTotal MonthShownInRecent
