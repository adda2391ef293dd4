CONSTANTS
  None = None
  Item <- MCItem
  Child <- MCChild
  Task <- MCTask
  Check <- MCCheck
  ItemField <- MCItemField
  ChildField <- MCChildField
  JsonField <- MCJsonField
  Value <- MCValue
  Store = {s1}
  Home <- MCHome
  WithStatus <- MCWithStatus
  Seed <- MCSeed
  Edit <- MCLaterEdit
  Unlinked <- MCNothing
  Clone <- MCClone
  WebEdit <- MCItemDone
  Unacceptable <- MCNothing
  Alongside = TRUE
  PushOnly = FALSE
  MaxEdits = 3
  MaxFaults = 0
  MaxOps = 6
SPECIFICATION Spec
INVARIANTS
  NoSilentLoss
CHECK_DEADLOCK FALSE
