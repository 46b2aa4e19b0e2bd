SPECIFICATION Spec
CONSTANTS
  e1 = e1
  e2 = e2
  c1 = c1
  c2 = c2
  c3 = c3
  ann = ann
  sup = sup
  None = None
  Calls = {e1, e2, c1, c2, c3}
  Earlier = {e1, e2}
  Users = {ann, sup}
  Admins = {ann, sup}
  Superadmins = {sup}
  Quantities <- SomeQuantities
  Operations = {"add", "set", "remove", "clear", "toggle", "move", "create", "update", "delete"}
  Faults = {"put", "insert", "unlink", "timeout", "crash"}
INVARIANT TypeOK
INVARIANT TogglesCount
INVARIANT ImagesShown
INVARIANT NoOrphanImages
INVARIANT NothingComesBack
PROPERTY MovedIsInCart
PROPERTY DeletedStays
SYMMETRY Fresh
CHECK_DEADLOCK FALSE
