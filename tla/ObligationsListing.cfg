\* The same vault: may a listed run always be opened as the listing says?
SPECIFICATION Spec
CONSTANTS
  t1 = t1
  t2 = t2
  Runs = {r1, r2}
  Talks <- OneTalk
  Hosts = {h1, h2}
  Tokens = {1, 2, 3, 4, 5}
  MaxGen = 2
  Scopes <- AllScopes
  r1 = r1
  r2 = r2
  h1 = h1
  h2 = h2
  SameWeekMax = 0
  RecentMax = 1
  DeliveredOn <- OneDate
  Legacy = {r1}
  None = None
INVARIANT ListingsCanBeOpened
CHECK_DEADLOCK FALSE
