\* Two talks, hand edits of claimed ones, the owner writers and every source filler.
SPECIFICATION NarrowSpec
CONSTANTS
  Talks <- TwoTalks
  Runs = {r1, r2}
  Batches = {b1}
  Sources = {video, slides}
  Results = {"processed_partial"}
  InitStatuses = {"pending", "unlisted"}
  RepairStatuses = {}
  RepairReasons = {}
  Fillers <- AllFillers
  Outside = {"pending"}
  MaxTime = 1
  MaxGen = 2
  NoClaim = NoClaim
INVARIANTS BatchAnsweredWhole NeverSuperseded
PROPERTIES ReturnMissesOnlyFilled OnlyFillersKeepAnalysis
ACTION_CONSTRAINT Narrow
SYMMETRY Symmetry
CHECK_DEADLOCK FALSE
