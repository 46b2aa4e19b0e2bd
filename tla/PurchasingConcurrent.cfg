SPECIFICATION Spec
CONSTANTS
  e1 = e1
  c1 = c1
  c2 = c2
  c3 = c3
  staff = staff
  boss = boss
  other = other
  acme = acme
  globex = globex
  None = None
  Calls = {e1, c1, c2, c3}
  Earlier = {e1}
  Users = {staff, other}
  Admins = {other}
  Companies = {acme, globex}
  CompanyOf <- TwoCompanies
  Totals <- SomeTotals
  Seeded = {4}
  BudgetInputs <- SomeInputs
  MaxAmount = 5
  LastMonth = 1
  Operations = {"create", "approve", "reject", "delete", "purchase", "budget"}
  Faults = {"timeout", "crash"}
INVARIANT TypeOK
INVARIANT NegativeOnlyByHand
INVARIANT OrdersPaid
INVARIANT LinkedOrderAsRequested
SYMMETRY Fresh
CHECK_DEADLOCK FALSE
