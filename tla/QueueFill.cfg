\* A scan fills an empty source field of a claimed or analysed talk.
SPECIFICATION Spec
CONSTANTS
  Talks <- OneTalk
  Runs = {r1}
  Batches = {b1}
  Sources = {video, slides}
  Results = {"processed"}
  InitStatuses = {"pending"}
  RepairStatuses = {"needs-reprocessing"}
  RepairReasons = {"source_added"}
  Fillers = {"scan_shownotes"}
  Outside = {}
  MaxTime = 1
  MaxGen = 2
  NoClaim = NoClaim
INVARIANTS StoredAnalysisSawSources
CHECK_DEADLOCK FALSE
