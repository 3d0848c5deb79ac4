CONSTANTS
  Devices = {a, b}
  t1 = t1
  t2 = t2
  Ids = {t1, t2}
  None = None
  Senders = {a}
  MaxSessions = 2
  Plans <- LongFailedOrTwo
SPECIFICATION FairSpec
INVARIANTS CompleteIsTrue OpenOfferIsLast RunIsActive
PROPERTIES BothEnd
CHECK_DEADLOCK FALSE
