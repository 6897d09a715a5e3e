\* Two runs for one talk; nobody else touches its links or its record.
SPECIFICATION Spec
CONSTANTS
  Publishers = {p1, p2}
  Targets = {A, B}
  Services = {"bitly", "rebrandly"}
  AgentLinks = FALSE
  MaxLinks = 2
  MaxEdits = 0
  None = None
INVARIANTS PublishedLeadsToTarget
CHECK_DEADLOCK FALSE
