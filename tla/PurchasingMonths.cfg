SPECIFICATION Spec
CONSTANTS
  e1 = e1
  c1 = c1
  c2 = c2
  c3 = c3
  staff = staff
  boss = boss
  other = other
  acme = acme
  globex = globex
  None = None
  Calls = {e1, c1, c2}
  Earlier = {e1}
  Users = {staff, boss}
  Admins = {boss}
  Companies = {acme}
  CompanyOf <- OneCompany
  Totals <- SomeTotals
  Seeded = {4}
  BudgetInputs <- SomeInputs
  MaxAmount = 5
  LastMonth = 2
  Operations = {"create", "approve", "reject", "delete", "purchase", "budget", "fillCart"}
  Faults = {"timeout", "crash"}
PROPERTY ServesPromise
PROPERTY CartEmptiedAfterCharge
SYMMETRY Fresh
CHECK_DEADLOCK FALSE
