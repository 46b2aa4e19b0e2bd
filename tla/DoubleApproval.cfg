SPECIFICATION Spec
CONSTANTS
  e1 = e1
  c1 = c1
  c2 = c2
  c3 = c3
  staff = staff
  boss = boss
  other = other
  acme = acme
  globex = globex
  None = None
  Calls = {e1, c1, c2, c3}
  Earlier = {e1}
  Users = {staff, boss}
  Admins = {boss}
  Companies = {acme}
  CompanyOf <- OneCompany
  Totals = {2, 3}
  Seeded = {4}
  BudgetInputs = {}
  MaxAmount = 5
  LastMonth = 1
  Operations = {"approve"}
  Faults = {}
INVARIANT OneOrderPerRequest
SYMMETRY Fresh
CHECK_DEADLOCK FALSE
