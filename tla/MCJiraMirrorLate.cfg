CONSTANTS
  Item = {i}
  Ticket = {t}
  Comment = {c}
  Ours = {}
  Poller = poll
  Asker = {ask}
  Lag = 2
  Overlap = 2
  MaxTime = 5
  MaxPeople = 1
  MaxVersions = 2
  MaxFaults = 0
SPECIFICATION Spec
PROPERTY CommentsFollow
CHECK_DEADLOCK FALSE
