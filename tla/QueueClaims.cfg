\* Two talks, two runs of one batch id and the owner writers, no hand edits.
SPECIFICATION Spec
CONSTANTS
  Talks <- TwoTalks
  Runs = {r1, r2}
  Batches = {b1}
  Sources = {video}
  Results = {"processed"}
  InitStatuses = {"pending", "skipped_no_transcript"}
  RepairStatuses = {"needs-reprocessing"}
  RepairReasons = {"source_added"}
  Fillers = {}
  Outside = {}
  MaxTime = 1
  MaxGen = 3
  NoClaim = NoClaim
INVARIANTS TypeOK Loadable OpenBatchAnswerable GenerationsGapFree
PROPERTIES ClosedClaimsKept
SYMMETRY RunSymmetry
CHECK_DEADLOCK FALSE
