CONSTANTS
  None = None
  Item <- MCItem
  Child <- MCChild
  Task <- MCTask
  Check <- MCCheck
  ItemField <- MCItemField
  ChildField <- MCChildField
  JsonField <- MCJsonField
  Value <- MCValue
  Store = {s1}
  Home <- MCHome
  WithStatus <- MCWithStatus
  Seed <- MCSeed
  Edit <- MCSetAndRemoved
  Unlinked <- MCNothing
  Clone <- MCClone
  WebEdit <- MCCheckDone
  Unacceptable <- MCNothing
  Alongside = TRUE
  PushOnly = FALSE
  MaxEdits = 3
  MaxFaults = 0
  MaxOps = 6
SPECIFICATION Spec
INVARIANTS
  QuietMeansEqual
CHECK_DEADLOCK FALSE
