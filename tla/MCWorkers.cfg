CONSTANTS
  None = None
  Item <- MCItem
  Child <- MCChild
  Task <- MCTask
  Check <- MCCheck
  ItemField <- MCItemField
  ChildField <- MCChildField
  JsonField <- MCJsonField
  Value <- MCValue
  Store = {s1}
  Home <- MCHome
  WithStatus <- MCWithStatus
  Seed <- MCSeedItem
  Edit <- MCRefusedEdit
  Unlinked <- MCNothing
  Clone <- MCClone
  WebEdit <- MCChildWebEdit
  Unacceptable <- MCRefusedUids
  Alongside = TRUE
  PushOnly = FALSE
  MaxEdits = 2
  MaxFaults = 1
  MaxOps = 6
  Flush = {f1, f2}
  Proc = {p1, p3}
  WholeStore = {p3}
SPECIFICATION WorkersSpec
INVARIANTS
  TypeOK
PROPERTIES
  OutboxDrains
  Converges
  QueuesSettle
CHECK_DEADLOCK FALSE
