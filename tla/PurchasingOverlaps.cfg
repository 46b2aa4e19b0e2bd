SPECIFICATION RecordedSpec
CONSTANTS
  e1 = e1
  c1 = c1
  c2 = c2
  c3 = c3
  staff = staff
  boss = boss
  acme = acme
  None = None
  Calls = {e1, c1, c2, c3}
  Earlier = {e1}
  Users = {staff, boss}
  Admins = {boss}
  Companies = {acme}
  CompanyOf <- OneCompany
  Totals <- SomeTotals
  Seeded = {4}
  BudgetInputs <- SomeInputs
  MaxAmount = 5
  LastMonth = 1
  Operations = {"create", "approve", "reject", "delete", "purchase", "budget"}
  Faults = {"timeout", "crash"}
INVARIANT SecondOrderOnlyByMeeting
INVARIANT RejectedOrderOnlyByMeeting
INVARIANT BalanceExplained
PROPERTY ReopenedOnlyByMeeting
SYMMETRY Fresh
CHECK_DEADLOCK FALSE
