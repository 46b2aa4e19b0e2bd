SPECIFICATION Spec
CONSTANTS
  e1 = e1
  e2 = e2
  c1 = c1
  c2 = c2
  c3 = c3
  ann = ann
  sup = sup
  b1 = b1
  b2 = b2
  acme = acme
  globex = globex
  old = old
  new = new
  a = a
  g = g
  h = h
  None = None
  Calls = {e1, e2, c1, c2}
  Earlier = {e1, e2}
  Users = {ann, sup}
  Browsers = {b1, b2}
  Companies = {acme, globex}
  Employer <- Employers
  Holder <- Holders
  Seat <- Seats
  FirstRole <- FirstRoles
  FirstName <- FirstNames
  Passwords = {old, new}
  Names = {a, g, h}
  Operations = {"login", "refresh", "logout"}
  Faults = {}
PROPERTY RefreshComparesStored
CHECK_DEADLOCK FALSE
