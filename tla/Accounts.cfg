SPECIFICATION RecordedSpec
CONSTANTS
  f1 = f1
  i1 = i1
  c1 = c1
  c2 = c2
  c3 = c3
  None = None
  Calls = {f1, i1, c1, c2, c3}
  Founders = {f1}
  Invited = {i1}
  Emails = {"ann", "bob", "cy"}
  Names = {"acme", "bolt"}
  EmailOf <- SomeEmails
  NameOf <- SomeNames
  HostOf <- SomeHost
  Ids = {f1, c1}
  Operations = {"signup", "accept", "invite", "deleteUser", "createCompany", "deleteCompany"}
  Faults = {"failure", "crash"}
INVARIANT TypeOK
INVARIANT AnsweredCanLogin
INVARIANT AcceptedAfterSignup
INVARIANT FoundersHaveAddress
INVARIANT SecondInvitationOnlyByMeeting
INVARIANT UsedTwiceOnlyByMeeting
PROPERTY KeepsMembership
SYMMETRY Alike
CHECK_DEADLOCK FALSE
