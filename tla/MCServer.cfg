CONSTANTS
  None = None
  Flush = {f1, f2}
  Issue = {"k1"}
  JiraStatus = {"a", "b"}
  Unreachable = {}
  MaxMoves = 2
  MaxFaults = 1
  MaxChanges = 1
  Instances <- MCInstances
  MaxEvents = 1
  MaxRuns = 2
  MAX_ATTEMPTS = 2
  MaxFailures = 1
  MaxCrashes = 1
  Proc = {p1, p3}
  Item = {1, 2}
  Named <- MCNamed
  WholeStore = {p3}
  MaxFailedPushes = 2
  MaxSweeps = 1
  Store = {s1, s2}
  Branch = {a, b}
SPECIFICATION Spec
SYMMETRY MCSymmetry
INVARIANTS
  OneAtATime
  LogTellsOutcome
  FinishedOnce
  NeverBothAct
  QueuedMovesAreSentOnce
  OnlyRacedWritesAreLost
  SettledDocsAgree
  OneTokenPerLogin
  WorkIsOnAFrozenRequest
  OnlyLateRemovalsAreMistaken
  TicketsAreAppended
  SkippedIsKnown
  ReadsAreWhole
  NothingForgotten
PROPERTIES
  DeliversInOrder
  LaterRunStands
  OthersFollow
  LandedIsThere
  NoEdgeVanishes
CHECK_DEADLOCK FALSE
