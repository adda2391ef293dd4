CONSTANTS
  None = None
  Item <- MCItem
  Child <- MCChild
  Task <- MCTask
  Check <- MCCheck
  ItemField <- MCItemField
  ChildField <- MCChildField
  JsonField <- MCJsonField
  Value <- MCValue
  Store = {s1, s2}
  Alone = {s3}
  Home <- MCHome
  WithStatus <- MCWithStatus
  Seed <- MCSeed
  Edit <- MCEdit
  Unlinked <- MCNothing
  Clone <- MCClone
  WebEdit <- MCWebEdit
  Unacceptable <- MCNothing
  Alongside = FALSE
  PushOnly = TRUE
  MaxEdits = 2
  MaxFaults = 0
  MaxOps = 4
SYMMETRY MCSymmetry
SPECIFICATION RoundsSpec
INVARIANTS
  NoBlindWrite
  QuietStoresAgree
  LossesAreTold
  RejectionsLandWhole
CHECK_DEADLOCK FALSE
