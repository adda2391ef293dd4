CONSTANTS
  None = None
  Item <- MCItem
  Child <- MCChild
  Task <- MCTask
  Check <- MCCheck
  ItemField <- MCItemField
  ChildField <- MCChildField
  JsonField <- MCJsonField
  Value <- MCValue
  Worker = {w1, w2, w3}
  Alone = {w3}
  Unit <- MCAllUnits
  Malformed <- MCMalformed
  Reader = {r1}
  Limit = 3
SYMMETRY MCSymmetry
SPECIFICATION ProjectSpec
INVARIANTS
  TypeOK
  VersionsNameTheirChange
  CalcIsDerived
  TrailEndsInStatus
  AppliedOnce
  GroupsAreAtomic
  ReaderIsCurrent
  ChildrenFollowTheirItem
  FeedShowsPresence
  TombsAreRemovals
PROPERTIES
  ImplementsService
  AnswersAreFinal
  PersonsRemovalsStick
CHECK_DEADLOCK FALSE
