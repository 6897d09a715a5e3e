\* Two batches, weeks of delay, and two hosts that conduct sessions and may be lost.
SPECIFICATION FairSpec
CONSTANTS
  t1 = t1
  t2 = t2
  Runs = {r1, r2}
  Talks <- OneTalk
  Hosts = {h1, h2}
  Tokens = {1, 2, 3, 4, 5}
  MaxGen = 2
  Scopes <- AllScopes
  r1 = r1
  r2 = r2
  h1 = h1
  h2 = h2
  SameWeekMax = 0
  RecentMax = 1
  DeliveredOn <- OneDate
  Legacy = {r1}
  None = None
INVARIANTS TypeOK EveryFactHeard RunCovered SessionsCountedOnce
PROPERTIES ClaimsHonoured OfferedToday RunsComplete
CHECK_DEADLOCK FALSE
