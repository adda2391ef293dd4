CONSTANTS
  None = None
  Item <- MCItem
  Child <- MCChild
  Task <- MCNothing
  Check <- MCNothing
  ItemField <- MCItemField
  ChildField <- MCChildField
  JsonField <- MCJsonField
  Value <- MCValue
  Store = {s1}
  Home <- MCHome
  WithStatus <- MCNoteWithStatus
  Seed <- MCSeedInQa
  Edit <- MCRejectedAndPickedUp
  Unlinked <- MCNothing
  Clone <- MCClone
  WebEdit <- MCItemDone
  Unacceptable <- MCNothing
  Alongside = FALSE
  PushOnly = FALSE
  MaxEdits = 3
  MaxFaults = 0
  MaxOps = 6
SPECIFICATION Spec
INVARIANTS
  RejectionsKeepTheirStatus
CHECK_DEADLOCK FALSE
